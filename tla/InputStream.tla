---------------------------- MODULE InputStream ----------------------------
(***************************************************************************)
(* The input stream of the desktop (kernel/src/input.rs): bytes of the     *)
(* PS/2 controller and of the serial line are decoded one at a time into   *)
(* keys and pointer events, a run of pure motion is merged into one update *)
(* per frame, and one decoded event is retained for the next turn of the   *)
(* desktop loop.  The two keyboard tables, PS/2 scan codes here and USB    *)
(* usages in usb.rs, are compared key by key.                              *)
(*                                                                         *)
(* A PS/2 byte is a record: a key going down or up, the E0 prefix, or one  *)
(* of the three bytes of a mouse packet.  Motion is counted in steps.      *)
(***************************************************************************)
EXTENDS Integers, Sequences

CONSTANTS
    MAX_POINTER_BATCH,  \* motion packets merged into one update
    PREFETCH,           \* attempts to retain an event for the next turn
    MaxWaiting,         \* bound: bytes waiting in the controller
    MaxSent             \* bound: keys and packets sent in a behaviour

VARIABLES
    inp,     \* the Input decoder
    ps2,     \* the controller: bytes waiting and whether the mouse port is open
    hand,    \* the user: keys and buttons held, and keys sent so far
    kept,    \* the last turn delivered or retained exactly what it decoded
    typed    \* one key struck on both keyboards, and what each reports

inputVars == <<inp, ps2, hand, kept, typed>>

-----------------------------------------------------------------------------
(* The keyboard tables. *)

(* Scan codes 0x01 .. 0x35 of set 1; the modifiers carry no character. *)
Ps2Base == << "esc", "1", "2", "3", "4", "5", "6", "7", "8", "9", "0", "-", "=",
    "backspace", "tab", "q", "w", "e", "r", "t", "y", "u", "i", "o", "p", "[", "]",
    "newline", "ctrl", "a", "s", "d", "f", "g", "h", "j", "k", "l", ";", "quote", "grave",
    "shift", "backslash", "z", "x", "c", "v", "b", "n", "m", ",", ".", "/" >>

(* HID usages 0x04 .. 0x38; 0x32 is not translated. *)
HidBase == << "a", "b", "c", "d", "e", "f", "g", "h", "i", "j", "k", "l", "m",
    "n", "o", "p", "q", "r", "s", "t", "u", "v", "w", "x", "y", "z",
    "1", "2", "3", "4", "5", "6", "7", "8", "9", "0", "newline", "esc", "backspace",
    "tab", "space", "-", "=", "[", "]", "backslash", "none", ";", "quote", "grave", ",", ".", "/" >>

(* The key of a HID usage on a keyboard of scan-code set 1. *)
PositionOf == << 30, 48, 46, 32, 18, 33, 34, 35, 23, 36, 37, 38, 50, 49, 24, 25, 16, 19,
    31, 20, 22, 47, 17, 45, 21, 44, 2, 3, 4, 5, 6, 7, 8, 9, 10, 11, 28, 1, 14, 15, 57,
    12, 13, 26, 27, 43, 0, 39, 40, 41, 51, 52, 53 >>

Letters26 == {HidBase[i] : i \in 1 .. 26}

(* A printable key under shift and caps lock. *)
apply_modifiers(base, shift, caps) ==
    IF base \in Letters26 THEN <<base, shift # caps>>
    ELSE <<base, shift /\ base \notin {"esc", "newline", "backspace", "tab", "space"}>>

super_binding(key) ==
    CASE key = "space" -> <<"launcher">>
      [] key = "q" -> <<"close">>
      [] key = "tab" -> <<"cycle">>
      [] key = "f" -> <<"fullscreen">>
      [] OTHER -> <<>>

(* The common tail of both translations. *)
Translated(base, mods, caps) ==
    IF base = "esc" /\ {"ctrl", "shift"} \subseteq mods THEN <<"shell_confirm">>
    ELSE IF "ctrl" \in mods /\ base \in {"r", "s"} THEN <<"control", base>>
    ELSE IF "super" \in mods THEN super_binding(base)
    ELSE <<apply_modifiers(base, "shift" \in mods, caps)>>

Arrow(key, mods) ==
    IF "super" \in mods THEN IF "alt" \in mods THEN <<"super_alt", key>> ELSE <<"super", key>>
    ELSE <<key>>

HidArrow(key, mods) ==
    IF {"super", "alt"} \subseteq mods THEN <<"super_alt", key>>
    ELSE IF "super" \in mods THEN <<"super", key>> ELSE <<key>>

Arrows == {"up", "down", "left", "right"}

hid_key(usage, mods) ==
    IF HidBase[usage] = "none" THEN <<>>
    ELSE Translated(HidBase[usage], mods, FALSE)

scancode_key(code, mods) ==
    IF code \in 1 .. 53 THEN Translated(Ps2Base[code], mods, FALSE)
    ELSE IF code = 57 THEN Translated("space", mods, FALSE) ELSE <<>>

Struck ==
    \E mods \in SUBSET {"shift", "ctrl", "alt", "super"} :
        /\ \/ \E usage \in 1 .. 53 :
                typed' = <<scancode_key(PositionOf[usage], mods), hid_key(usage, mods)>>
           \/ \E arrow \in Arrows :
                typed' = <<Arrow(arrow, mods), HidArrow(arrow, mods)>>
        /\ UNCHANGED <<inp, ps2, hand, kept>>

-----------------------------------------------------------------------------
(* Decoding one byte: the decoder after it, and the events it completes. *)

Mods == {"shift", "ctrl", "alt", "super"}
Extended == {"super", "up"}

Key(k) == [is |-> "key", key |-> k]

(* A pointer event: its motion, the button held and the edge it reports. *)
Pointer(dx, button, edge) == [is |-> "pointer", dx |-> dx, button |-> button, edge |-> edge]

decode_scancode(i, byte) ==
    IF byte.key = "E0" THEN [i |-> [i EXCEPT !.extended = TRUE], out |-> <<>>]
    ELSE LET j == [i EXCEPT !.extended = FALSE]
             known == i.extended = (byte.key \in Extended)
         IN IF ~known THEN [i |-> j, out |-> <<>>]
            ELSE IF byte.key \in Mods
            THEN [i |-> [j EXCEPT !.mods = IF byte.up THEN @ \ {byte.key} ELSE @ \cup {byte.key},
                                  !.unsure = @ \ {byte.key}],
                  out |-> <<>>]
            ELSE IF byte.up THEN [i |-> j, out |-> <<>>]
            ELSE IF byte.key = "caps" THEN [i |-> [j EXCEPT !.caps = ~@], out |-> <<>>]
            ELSE [i |-> j, out |-> <<Key(IF byte.key = "up" THEN Arrow("up", i.mods)
                                         ELSE Translated(byte.key, i.mods, i.caps))>>]

(* The third byte of a packet completes it. *)
Packet(i) ==
    [i |-> [i EXCEPT !.index = 0, !.buttons = i.header],
     out |-> <<Pointer(1, i.header, i.header # i.buttons)>>]

decode_mouse(i, byte) ==
    IF i.index = 0 /\ byte.part # "header" THEN [i |-> i, out |-> <<>>]
    ELSE IF i.index = 2 THEN Packet(i)
    ELSE [i |-> [i EXCEPT !.index = @ + 1, !.header = IF i.index = 0 THEN byte.value ELSE @],
          out |-> <<>>]

(* The serial escape sequence ESC [ A, and the lone ESC after its deadline. *)
decode_serial(i, byte) ==
    CASE i.escape = 0 /\ byte = "esc" -> [i |-> [i EXCEPT !.escape = 1], out |-> <<>>]
      [] i.escape = 1 /\ byte = "[" -> [i |-> [i EXCEPT !.escape = 2], out |-> <<>>]
      [] i.escape = 1 /\ byte # "[" -> [i |-> [i EXCEPT !.escape = 0], out |-> <<Key(<<"esc">>)>>]
      [] i.escape = 2 /\ byte = "A" -> [i |-> [i EXCEPT !.escape = 0], out |-> <<Key(<<"up">>)>>]
      [] i.escape = 2 /\ byte # "A" -> [i |-> [i EXCEPT !.escape = 0], out |-> <<>>]
      [] OTHER -> [i |-> i, out |-> <<Key(<<byte>>)>>]

Decode(i, byte) == IF byte.port = "aux" THEN decode_mouse(i, byte) ELSE decode_scancode(i, byte)

(* A turn of the loop in progress: the decoder, what waits at the devices,  *)
(* the events decoded so far, the last one polled, and whether the deadline *)
(* of a serial escape has passed.                                           *)
DecodedByte(t, d) == [t EXCEPT !.i = d.i, !.new = @ \o d.out, !.got = d.out]

(* poll_event: the retained event, then serial, USB, a lone escape, PS/2. *)
poll_event(t) ==
    IF t.i.pending # <<>> THEN [t EXCEPT !.i.pending = <<>>, !.got = t.i.pending]
    ELSE IF t.hw.com # <<>>
    THEN DecodedByte([t EXCEPT !.hw.com = Tail(@)], decode_serial(t.i, Head(t.hw.com)))
    ELSE IF t.hw.usb # <<>>
    THEN DecodedByte([t EXCEPT !.hw.usb = Tail(@)], [i |-> t.i, out |-> <<Head(t.hw.usb)>>])
    ELSE IF t.i.escape # 0 /\ t.late
    THEN DecodedByte(t, [i |-> [t.i EXCEPT !.escape = 0], out |-> <<Key(<<"esc">>)>>])
    ELSE IF t.hw.bytes # <<>>
    THEN DecodedByte([t EXCEPT !.hw.bytes = Tail(@)], Decode(t.i, Head(t.hw.bytes)))
    ELSE [t EXCEPT !.got = <<>>]

hardware_byte_waiting(t) == t.hw.com \o t.hw.bytes # <<>>

RECURSIVE prefetch_event(_, _)
prefetch_event(t, n) ==
    IF t.i.pending # <<>> \/ n = 0 THEN t
    ELSE LET p == poll_event(t)
         IN IF p.got # <<>> THEN [p EXCEPT !.i.pending = p.got]
            ELSE IF ~hardware_byte_waiting(p) THEN p
            ELSE prefetch_event(p, n - 1)

\* Mutant: a button edge is merged into the motions around it.
MutantMerges(combined, next) ==
    combined.is = "pointer" /\ next.is = "pointer" /\ combined.button = next.button

can_merge_pointer_motion(combined, next) ==
    /\ combined.is = "pointer" /\ next.is = "pointer"
    /\ ~combined.edge /\ ~next.edge
    /\ combined.button = next.button

Merged(combined, next) == [combined EXCEPT !.dx = @ + next.dx]

(* The first event that cannot be merged is retained. *)
RECURSIVE coalesce_pointer_motion(_, _, _)
coalesce_pointer_motion(t, combined, n) ==
    LET p == poll_event(t)
    IN IF n = 0 THEN [t |-> t, event |-> combined]
       ELSE IF p.got = <<>> THEN [t |-> p, event |-> combined]
       ELSE IF can_merge_pointer_motion(combined, p.got[1])
       THEN coalesce_pointer_motion(p, Merged(combined, p.got[1]), n - 1)
       ELSE [t |-> [p EXCEPT !.i.pending = p.got], event |-> combined]

(* Events with adjacent pure motion added up: what a turn may merge. *)
PureMotion(a, b) ==
    a.is = "pointer" /\ b.is = "pointer" /\ ~a.edge /\ ~b.edge /\ a.button = b.button

RECURSIVE Normal(_)
Normal(events) ==
    IF Len(events) < 2 THEN events
    ELSE IF PureMotion(events[1], events[2])
    THEN Normal(<<Merged(events[1], events[2])>> \o SubSeq(events, 3, Len(events)))
    ELSE <<events[1]>> \o Normal(Tail(events))

-----------------------------------------------------------------------------
(* One turn of the desktop loop takes an event, merges the motion behind it *)
(* and retains the next event.                                              *)
TakenEvent(t) ==
    LET first == poll_event(t)
    IN IF first.got = <<>> THEN [t |-> first, events |-> <<>>]
       ELSE IF first.got[1].is = "key"
       THEN [t |-> prefetch_event(first, PREFETCH), events |-> first.got]
       ELSE LET c == coalesce_pointer_motion(first, first.got[1], MAX_POINTER_BATCH - 1)
            IN [t |-> prefetch_event(c.t, PREFETCH), events |-> <<c.event>>]

Turn ==
    \E late \in BOOLEAN :
    \E done \in {TakenEvent([i |-> inp, hw |-> ps2, new |-> <<>>, got |-> <<>>, late |-> late])} :
        /\ late => inp.escape # 0
        /\ inp' = done.t.i
        /\ ps2' = done.t.hw
        /\ kept' = (Normal(inp.pending \o done.t.new) = Normal(done.events \o done.t.i.pending))
        /\ UNCHANGED <<hand, typed>>

KeyboardWaits == \E n \in DOMAIN ps2.bytes : ps2.bytes[n].port = "kbd"

(* A mouse once enabled is taken for enabled.  Waiting for a new one's      *)
(* acknowledgement drops what the keyboard sent.                            *)
enable_mouse ==
    /\ ~inp.ready
    /\ \/ /\ inp.mouse_enabled
          /\ inp' = [inp EXCEPT !.ready = TRUE]
          /\ UNCHANGED <<ps2, hand>>
       \/ /\ ~inp.mouse_enabled
          /\ \E acknowledged \in BOOLEAN :
               /\ inp' = [inp EXCEPT !.mouse_enabled = acknowledged, !.ready = acknowledged,
                                     !.index = IF acknowledged THEN 0 ELSE @,
                                     !.buttons = IF acknowledged THEN FALSE ELSE @,
                                     !.unsure = IF KeyboardWaits THEN Mods ELSE @]
               /\ ps2' = [ps2 EXCEPT !.bytes = <<>>, !.aux = acknowledged]
               /\ hand' = [hand EXCEPT !.button = FALSE]
    /\ UNCHANGED <<kept, typed>>

(* The command environment takes the keyboard back: the decoder forgets its *)
(* modifiers, the controller its bytes, and both ports are disabled before  *)
(* the keyboard's is enabled again.  The retained event stays.              *)
reinitialize_ps2_keyboard ==
    /\ inp' = [inp EXCEPT !.mods = {}, !.caps = FALSE, !.extended = FALSE,
                          !.ready = FALSE, !.unsure = hand.keys]
    /\ ps2' = [ps2 EXCEPT !.bytes = <<>>, !.aux = FALSE]
    /\ UNCHANGED <<hand, kept, typed>>

-----------------------------------------------------------------------------
(* The devices. *)

Bytes(key, up) ==
    IF key \in Extended
    THEN <<[port |-> "kbd", key |-> "E0", up |-> FALSE], [port |-> "kbd", key |-> key, up |-> up]>>
    ELSE <<[port |-> "kbd", key |-> key, up |-> up]>>

Waiting == Len(ps2.bytes) + Len(ps2.com) + Len(ps2.usb)

Sends(queue, items) ==
    /\ hand.sent < MaxSent
    /\ Waiting + Len(items) <= MaxWaiting
    /\ ps2' = [ps2 EXCEPT ![queue] = @ \o items]
    /\ UNCHANGED <<inp, kept, typed>>

KeyMoves ==
    \E key \in {"shift", "super", "up", "a"} :
        /\ Sends("bytes", Bytes(key, key \in hand.keys))
        /\ hand' = [hand EXCEPT !.sent = @ + 1,
                       !.keys = IF key \in @ THEN @ \ {key} ELSE @ \cup {key}]

MouseMoves ==
    /\ ps2.aux
    /\ \E pressed \in BOOLEAN :
         /\ Sends("bytes", <<[port |-> "aux", part |-> "header", value |-> pressed],
                             [port |-> "aux", part |-> "dx"], [port |-> "aux", part |-> "dy"]>>)
         /\ hand' = [hand EXCEPT !.sent = @ + 1, !.button = pressed]

UsbReport ==
    \E edge \in BOOLEAN :
        /\ Sends("usb", <<Pointer(1, edge, edge)>>)
        /\ hand' = [hand EXCEPT !.sent = @ + 1]

SerialByte ==
    \E byte \in {"esc", "[", "A"} :
        /\ Sends("com", <<byte>>)
        /\ hand' = [hand EXCEPT !.sent = @ + 1]

InputInit ==
    /\ inp = [mods |-> {}, caps |-> FALSE, extended |-> FALSE, unsure |-> {}, escape |-> 0,
              index |-> 0, header |-> FALSE, buttons |-> FALSE, mouse_enabled |-> FALSE,
              ready |-> FALSE, pending |-> <<>>]
    /\ ps2 = [bytes |-> <<>>, com |-> <<>>, usb |-> <<>>, aux |-> FALSE]
    /\ hand = [keys |-> {}, button |-> FALSE, sent |-> 0]
    /\ kept = TRUE
    /\ typed = <<<<>>, <<>>>>

InputNext ==
    \/ Turn
    \/ enable_mouse
    \/ reinitialize_ps2_keyboard
    \/ KeyMoves
    \/ MouseMoves
    \/ UsbReport
    \/ SerialByte

-----------------------------------------------------------------------------
(* "Button transitions and keyboard input are never folded or dropped":     *)
(* what a turn hands to the desktop and what it retains are exactly the     *)
(* events it decoded, in order, with adjacent motion added up.              *)
TransitionsKept == kept

(* Once every byte is decoded, a modifier is down in the decoder exactly    *)
(* when it is held, unless its last byte was discarded by a driver command; *)
(* taking the keyboard back clears them all.                                *)
ModifiersTrack ==
    \A m \in {"shift", "super"} \ inp.unsure :
        ~KeyboardWaits =>
            (m \in inp.mods) = (m \in hand.keys)

(* Between packets the decoder's buttons are those of the mouse, so the     *)
(* next edge it reports is one that happened.                               *)
ButtonsTrack ==
    (\A i \in DOMAIN ps2.bytes : ps2.bytes[i].port # "aux") /\ ps2.aux =>
        inp.buttons = hand.button

(* A key struck on a USB keyboard is the same event as on a PS/2 keyboard,  *)
(* for every key and every set of modifiers held.                           *)
KeyboardsAgree == typed[1] = typed[2]

\* Sessions see what was typed and clicked: no transition is merged away, the
\* modifiers and buttons are those held down, and both keyboards type alike.
InputTracks == TransitionsKept /\ ModifiersTrack /\ ButtonsTrack /\ KeyboardsAgree
=============================================================================
