---------------------------- MODULE DisplayOutput ---------------------------
(***************************************************************************)
(* Which scanout the kernel draws on (kernel/src/framebuffer.rs enter,     *)
(* program_*, exit; kernel/src/virtio_gpu.rs initialize and shutdown;      *)
(* kernel/src/graphics_console.rs enable and disable).  A display session  *)
(* requests a mode and enters; the kernel tries a VirtIO GPU, the firmware *)
(* framebuffer and the VBE adapter.  Modes are numbers, mode m needs m     *)
(* units of memory per page; 1 is P480.                                    *)
(***************************************************************************)
EXTENDS Integers, Sequences, FiniteSets

CONSTANTS DisplayModes,
          LFB_APERTURE,   \* size of the shadow surface and of the mapping
          PCI_BYTES,      \* video memory behind the VBE adapter's BAR
          FIRMWARE,       \* the GOP handoff: [mode, bytes], or NoFirmware
          NoFirmware

ASSUME OutputAssumption == DisplayModes \subseteq Nat \ {0} /\ 1 \in DisplayModes

VARIABLES want,   \* REQUESTED_MODE
          out     \* the presentation state and the devices

outputVars == <<want, out>>

P480 == 1
NoMode == 0
Preferences == {"auto", "gpu", "compatible"}

fits_aperture(m) == m <= LFB_APERTURE

\* reset_presentation_state.
Reset(o) == [o EXCEPT !.active = NoMode, !.size = 0, !.flip = FALSE, !.drawPage = 0, !.visible = FALSE]

-----------------------------------------------------------------------------
(* virtio_gpu.rs.                                                          *)

shutdown(o) == [o EXCEPT !.device = FALSE, !.claimed = FALSE]

\* initialize and the first present: the outcomes of program_virtio_gpu.
program_virtio_gpu(o, m) ==
    LET clean == shutdown([Reset(o) EXCEPT !.gop = FALSE, !.gpu = FALSE])
        up == [clean EXCEPT !.device = TRUE, !.claimed = TRUE, !.gpu = TRUE, !.active = m,
                            !.size = m, !.visible = TRUE]
    IN  {[ok |-> FALSE, o |-> clean],                                      \* no device
         [ok |-> TRUE, o |-> up],
         [ok |-> FALSE, o |-> Reset(shutdown([up EXCEPT !.gpu = FALSE]))]}  \* not visible

-----------------------------------------------------------------------------
(* The firmware framebuffer and the VBE adapter.                           *)

\* A geometry that is no preset counts as P480 (from_dimensions).
FirmwareMode == IF FIRMWARE.mode \in DisplayModes THEN FIRMWARE.mode ELSE P480
program_firmware_framebuffer(o) ==
    IF FIRMWARE = NoFirmware \/ FIRMWARE.mode > LFB_APERTURE \/ FIRMWARE.mode > FIRMWARE.bytes
    THEN {[ok |-> FALSE, o |-> o]}
    ELSE {[ok |-> TRUE,
           o |-> [Reset(o) EXCEPT !.gop = TRUE, !.gpu = FALSE, !.active = FirmwareMode,
                                  !.size = FIRMWARE.mode, !.visible = TRUE,
                                  !.lfb = [known |-> TRUE, bytes |-> FIRMWARE.bytes]]]}

\* discover_aperture keeps an address found before.
discover_aperture(lfb) == IF lfb.known THEN lfb ELSE [known |-> TRUE, bytes |-> PCI_BYTES]

Smaller(a, b) == IF a < b THEN a ELSE b

DoubleBufferFits(m, lfb) == 2 * m <= Smaller(lfb.bytes, LFB_APERTURE)

\* The adapter accepts the mode, with one or two pages, or refuses it.
program_mode(o, m) ==
    LET off == Reset([o EXCEPT !.gop = FALSE, !.gpu = FALSE])
        found == [off EXCEPT !.lfb = discover_aperture(off.lfb)]
        pages == IF DoubleBufferFits(m, found.lfb) THEN {1, 2} ELSE {1}
    IN  IF ~o.vbe THEN {[ok |-> FALSE, o |-> off]}
        ELSE IF m > Smaller(found.lfb.bytes, LFB_APERTURE) THEN {[ok |-> FALSE, o |-> found]}
        ELSE IF m \notin o.accepts THEN {[ok |-> FALSE, o |-> [found EXCEPT !.on = FALSE]]}
        ELSE {[ok |-> TRUE, o |-> [found EXCEPT !.on = TRUE, !.active = m, !.size = m,
                                                !.flip = (p = 2), !.drawPage = p - 1]] : p \in pages}

-----------------------------------------------------------------------------
(* enter and exit.                                                         *)

Reused(o, m) == o.active = m /\ o.visible

\* What is tried after the first attempt failed: a set of results each time.
Else(results, Next(_)) ==
    {r \in results : r.ok} \cup UNION {Next(r.o) : r \in {s \in results : ~s.ok}}

FirmwarePath(o, m) ==
    IF FIRMWARE = NoFirmware THEN {[ok |-> FALSE, o |-> o]}
    ELSE LET first == IF FirmwareMode = m /\ FIRMWARE.mode \in DisplayModes
                      THEN program_firmware_framebuffer(o) ELSE {[ok |-> FALSE, o |-> o]}
         IN  Else(Else(first, LAMBDA p : program_mode(p, m)), program_firmware_framebuffer)

\* Every way enter() can go from o for mode m, but for the last resort.
EnterResults(o, m) ==
    LET gpu == IF o.prefer = "compatible" THEN {[ok |-> FALSE, o |-> o]} ELSE program_virtio_gpu(o, m)
    IN  Else(Else(gpu, LAMBDA p : FirmwarePath(p, m)), LAMBDA p : program_mode(p, m))

EnterOutput(m, keep) ==
    \/ /\ Reused(out, m) /\ out' = out /\ want' = keep
    \/ /\ ~Reused(out, m)
       /\ \E r \in EnterResults(out, m) :
            \/ (r.ok \/ m = P480) /\ out' = r.o /\ want' = keep
            \/ /\ ~r.ok /\ m # P480      \* the request itself falls back
               /\ \E q \in program_mode(r.o, P480) : out' = q.o
               /\ want' = P480

\* A login, boot or desktop session enters with the requested mode; the
\* console enters with P480 and puts the request back.
EnterSession == EnterOutput(want, want)
EnableConsole == EnterOutput(P480, want)

\* present_damage reports whether the content is visible.
Present(visible) ==
    /\ out.active # NoMode
    /\ out' = [out EXCEPT !.visible = visible,
                          !.drawPage = IF out.flip /\ visible THEN 1 - @ ELSE @]
    /\ UNCHANGED want
FlipRefused ==
    /\ out.active # NoMode /\ out.flip
    /\ out' = [out EXCEPT !.flip = FALSE, !.drawPage = 1 - @]
    /\ UNCHANGED want

Exit ==
    LET none == [out EXCEPT !.active = NoMode, !.size = 0, !.visible = FALSE, !.flip = FALSE]
    IN  /\ out' = IF out.gpu THEN shutdown([none EXCEPT !.gpu = FALSE])
                  ELSE IF out.gop THEN [none EXCEPT !.gop = FALSE]
                  ELSE [none EXCEPT !.on = FALSE, !.drawPage = 0]
        /\ UNCHANGED want

request_mode(m) == fits_aperture(m) /\ want' = m /\ UNCHANGED out

OutputInit ==
    /\ want = P480
    /\ \E prefer \in Preferences, vbe \in BOOLEAN, accepts \in SUBSET DisplayModes :
          out = [active |-> NoMode, size |-> 0, flip |-> FALSE, drawPage |-> 0, visible |-> FALSE,
                 gop |-> FALSE, gpu |-> FALSE, device |-> FALSE, claimed |-> FALSE,
                 lfb |-> [known |-> FALSE, bytes |-> 0], on |-> FALSE,
                 prefer |-> prefer, vbe |-> vbe, accepts |-> accepts]

OutputNext ==
    \/ EnterSession \/ EnableConsole \/ Exit \/ FlipRefused
    \/ \E v \in BOOLEAN : Present(v)
    \/ \E m \in DisplayModes : request_mode(m)

OutputSpec == OutputInit /\ [][OutputNext]_outputVars

-----------------------------------------------------------------------------
(* Properties.                                                             *)

\* What is drawn stays inside the memory behind it: the shadow surface, or the
\* video memory, at the page being drawn, for whatever sequence of backends.
DrawsInAperture ==
    out.active # NoMode =>
        IF out.gop \/ out.gpu THEN out.size <= LFB_APERTURE /\ (out.gop => out.size <= out.lfb.bytes)
        ELSE (out.drawPage + 1) * out.size <= PCI_BYTES

\* The GPU capability is held exactly while the GPU is the scanout: every
\* failed or abandoned attempt gives it back.
GpuHeldWhileUsed == out.claimed = out.gpu /\ out.device = out.gpu

-----------------------------------------------------------------------------
(* Damage normalization and its publication to a firmware framebuffer      *)
(* (kernel/src/framebuffer.rs): a caller submits rectangles, which are     *)
(* clipped, merged and bounded (normalize_damage); present_damage may      *)
(* promote them to the whole screen, copies them from the shadow surface   *)
(* to the scanout and reads samples back (copy_gop_damage).                *)
(*                                                                         *)
(* A copied pixel may be lost on the way to the scanout once; `lost` are   *)
(* the pixels where the scanout differs from the shadow.                   *)

CONSTANTS SCREEN_W, SCREEN_H, MAX_DAMAGE_REGIONS,
          GOP_RECONCILE_INTERVAL,  \* partial presents before a full one
          GOP_READBACK_INTERVAL,   \* partial presents before a readback
          PROMOTION_NUM, PROMOTION_DEN,
          RawDamage,               \* rectangles [x, y, w, h] callers submit
          MaxSubmitted             \* bound on the pixels submitted for a frame

VARIABLES norm,     \* NormalizedDamage: regions, collapsed, submitted
          asked,    \* pixels submitted for this frame
          gop,      \* partial presents since a full one, since a readback; force
          lost,     \* pixels of the scanout that differ from the shadow
          age,      \* presents since a pixel was lost
          faults    \* lost writes still to come

damageVars == <<norm, asked, gop, lost, age, faults>>

Lesser(a, b) == IF a < b THEN a ELSE b
Greater(a, b) == IF a > b THEN a ELSE b

-----------------------------------------------------------------------------
(* Rectangles.                                                             *)

clip_region(r) ==
    [left |-> Lesser(Greater(r.x, 0), SCREEN_W), top |-> Lesser(Greater(r.y, 0), SCREEN_H),
     right |-> Lesser(Greater(r.x + r.w, 0), SCREEN_W),
     bottom |-> Lesser(Greater(r.y + r.h, 0), SCREEN_H)]
IsEmpty(c) == c.right <= c.left \/ c.bottom <= c.top

PixelCount(c) == (c.right - c.left) * (c.bottom - c.top)
PixelsOf(c) == (c.left..c.right - 1) \X (c.top..c.bottom - 1)
Screen == [left |-> 0, top |-> 0, right |-> SCREEN_W, bottom |-> SCREEN_H]

touches_or_overlaps(a, b) ==
    a.left <= b.right /\ b.left <= a.right /\ a.top <= b.bottom /\ b.top <= a.bottom
Bounding(a, b) ==
    [left |-> Lesser(a.left, b.left), top |-> Lesser(a.top, b.top),
     right |-> Greater(a.right, b.right), bottom |-> Greater(a.bottom, b.bottom)]
can_merge_without_extra_copy(a, b) ==
    /\ touches_or_overlaps(a, b)
    /\ PixelCount(Bounding(a, b)) <= PixelCount(a) + PixelCount(b)

-----------------------------------------------------------------------------
(* NormalizedDamage::add.                                                  *)

RegionsWithout(regions, i) == SubSeq(regions, 1, i - 1) \o SubSeq(regions, i + 1, Len(regions))
FreeMerges(regions, c) == {i \in DOMAIN regions : can_merge_without_extra_copy(c, regions[i])}

\* Mutant: the scan goes on after a merge instead of starting over.
RECURSIVE AbsorbFrom(_, _, _)
AbsorbFrom(regions, c, i) ==
    IF i > Len(regions) THEN <<regions, c>>
    ELSE IF can_merge_without_extra_copy(c, regions[i])
    THEN AbsorbFrom(RegionsWithout(regions, i), Bounding(c, regions[i]), i)
    ELSE AbsorbFrom(regions, c, i + 1)

\* The lowest region that merges for free is absorbed until none does.
RECURSIVE Absorb(_, _)
Absorb(regions, c) ==
    IF FreeMerges(regions, c) = {} THEN <<regions, c>>
    ELSE LET i == CHOOSE i \in FreeMerges(regions, c) : \A j \in FreeMerges(regions, c) : i <= j
         IN  Absorb(RegionsWithout(regions, i), Bounding(c, regions[i]))
Absorbed(regions, c) == Absorb(regions, c)

RECURSIVE BoundingAll(_, _)
BoundingAll(c, regions) ==
    IF regions = << >> THEN c ELSE BoundingAll(Bounding(c, Head(regions)), Tail(regions))

collapse_with(regions, c) == <<BoundingAll(c, regions)>>

add(n, c) ==
    IF n.collapsed THEN [n EXCEPT !.regions[1] = Bounding(@, c)]
    ELSE LET a == Absorbed(n.regions, c)
         IN  IF Len(a[1]) = MAX_DAMAGE_REGIONS
             THEN [n EXCEPT !.regions = collapse_with(a[1], a[2]), !.collapsed = TRUE]
             ELSE [n EXCEPT !.regions = Append(a[1], a[2])]

RECURSIVE CopiedPixels(_)
CopiedPixels(regions) ==
    IF regions = << >> THEN 0 ELSE PixelCount(Head(regions)) + CopiedPixels(Tail(regions))
Covered(regions) == UNION {PixelsOf(regions[i]) : i \in DOMAIN regions}

NoDamage == [regions |-> << >>, collapsed |-> FALSE, submitted |-> 0]

\* One rectangle of the slice normalize_damage iterates over.
Submit(r) ==
    LET c == clip_region(r)
    IN  /\ ~IsEmpty(c) /\ norm.submitted + PixelCount(c) <= MaxSubmitted
        /\ norm' = [add(norm, c) EXCEPT !.submitted = @ + PixelCount(c)]
        /\ asked' = asked \cup PixelsOf(c)
        /\ UNCHANGED <<gop, lost, age, faults>>

-----------------------------------------------------------------------------
(* present_damage with GOP_ACTIVE.                                         *)

is_full_damage(regions) == regions = <<Screen>>

\* Mutant: the counter of partial presents is not consulted.
MutantNeverDue(regions) ==
    /\ ~is_full_damage(regions)
    /\ \/ gop.force
       \/ CopiedPixels(regions) * PROMOTION_DEN >= PixelCount(Screen) * PROMOTION_NUM
should_promote_gop_damage(regions) ==
    /\ ~is_full_damage(regions)
    /\ \/ gop.force
       \/ gop.sinceFull >= GOP_RECONCILE_INTERVAL
       \/ CopiedPixels(regions) * PROMOTION_DEN >= PixelCount(Screen) * PROMOTION_NUM

\* The samples of verify_gop_damage: first, middle and last pixel of a region.
Samples(c) ==
    {<<c.left, c.top>>, <<c.right - 1, c.bottom - 1>>,
     <<(c.left + c.right - 1) \div 2, (c.top + c.bottom - 1) \div 2>>}
AllSamples(regions) == UNION {Samples(regions[i]) : i \in DOMAIN regions}

\* Writes of `copied` that do not arrive.
Dropped(copied) == {{}} \cup (IF faults > 0 THEN {{p} : p \in copied} ELSE {})

\* copy_gop_damage: copy, count, and read back when full or due.  A mismatch
\* is answered by copying the whole surface once.
copy_gop_damage(regions, drop) ==
    LET full == is_full_damage(regions)
        after == (lost \ Covered(regions)) \cup drop
        since == gop.sinceVerify + 1
        verify == full \/ since >= GOP_READBACK_INTERVAL
        mismatch == verify /\ after \cap AllSamples(regions) # {}
    IN  /\ gop' = [sinceFull |-> IF full \/ mismatch THEN 0 ELSE gop.sinceFull + 1,
                   sinceVerify |-> IF verify THEN 0 ELSE since, force |-> FALSE]
        /\ lost' = IF mismatch THEN {} ELSE after
        /\ faults' = faults - (IF drop = {} THEN 0 ELSE 1)

PresentGop ==
    /\ norm.regions # << >>
    /\ LET regions == IF should_promote_gop_damage(norm.regions) THEN <<Screen>> ELSE norm.regions
       IN  \E drop \in Dropped(Covered(regions)) : copy_gop_damage(regions, drop)
    /\ age' = IF lost' = {} THEN 0 ELSE IF lost' \subseteq lost THEN age + 1 ELSE 0
    /\ norm' = NoDamage /\ asked' = {}

\* request_full_reconcile, from the debug portal.
Reconcile ==
    /\ gop' = [gop EXCEPT !.force = TRUE]
    /\ UNCHANGED <<norm, asked, lost, age, faults>>

DamageInit ==
    /\ norm = NoDamage /\ asked = {}
    /\ gop = [sinceFull |-> 0, sinceVerify |-> 0, force |-> FALSE]
    /\ lost = {} /\ age = 0 /\ faults = 1

DamageNext == (\E r \in RawDamage : Submit(r)) \/ PresentGop \/ Reconcile

DamageSpec == DamageInit /\ [][DamageNext]_damageVars

-----------------------------------------------------------------------------
(* Properties.                                                             *)

\* Whatever was submitted is copied, however regions were merged or collapsed.
DamageCovered == asked \subseteq Covered(norm.regions)

\* "Regions merge only when the resulting bounding copy is no larger than
\* copying them separately": until the list overflows, the copy costs no more
\* than the submitted rectangles, and no free merge is left undone.
MergesAreFree ==
    ~norm.collapsed =>
        /\ CopiedPixels(norm.regions) <= norm.submitted
        /\ \A i, j \in DOMAIN norm.regions :
              i # j => ~can_merge_without_extra_copy(norm.regions[i], norm.regions[j])

\* A pixel lost on the way to the scanout is restored after a bounded number
\* of further presents, whether or not a readback samples it.
LossIsBounded == age <= GOP_RECONCILE_INTERVAL + 1

-----------------------------------------------------------------------------
(* The text console on a graphical scanout                                 *)
(* (kernel/src/graphics_console.rs).  write_str puts characters into a     *)
(* grid of cells, scrolling at the bottom, draws the cells it changes and  *)
(* presents one rectangle around them.                                     *)

CONSTANTS COLS, ROWS, NewLine, Rubout, Bell, Strings, MaxLines

VARIABLES cells,   \* the grid
          at,      \* [row, col]; col = COLS after the last cell of a row
          glass,   \* what the scanout shows
          texting, \* Console.enabled
          tape     \* ghost: the lines written, without a screen

consoleVars == <<cells, at, glass, texting, tape>>

Grid == (0..ROWS - 1) \X (0..COLS - 1)
BlankCell == " "

\* A rectangle of cells, or none.
NoDamageCells == [top |-> 0, left |-> 0, bottom |-> 0, right |-> 0]
CellDamage(row, col) == [top |-> row, left |-> col, bottom |-> row + 1, right |-> col + 1]
BodyDamage == [top |-> 0, left |-> 0, bottom |-> ROWS, right |-> COLS]
LowerOf(a, b) == IF a < b THEN a ELSE b
HigherOf(a, b) == IF a > b THEN a ELSE b
Union(a, b) ==
    IF a = NoDamageCells THEN b ELSE IF b = NoDamageCells THEN a
    ELSE [top |-> LowerOf(a.top, b.top), left |-> LowerOf(a.left, b.left),
          bottom |-> HigherOf(a.bottom, b.bottom), right |-> HigherOf(a.right, b.right)]

-----------------------------------------------------------------------------
(* write_character.  A console is [cells, row, col, damage].               *)

Scrolled(grid) == [p \in Grid |-> IF p[1] + 1 < ROWS THEN grid[<<p[1] + 1, p[2]>>] ELSE BlankCell]

new_line(c) ==
    IF c.row + 1 < ROWS THEN [c EXCEPT !.row = @ + 1, !.col = 0]
    ELSE [c EXCEPT !.cells = Scrolled(@), !.col = 0, !.damage = BodyDamage]

PutAt(c, ch) ==
    [c EXCEPT !.cells[<<c.row, c.col>>] = ch, !.damage = Union(@, CellDamage(c.row, c.col))]
PutCharacter(c, ch) ==
    LET d == IF c.col >= COLS THEN new_line(c) ELSE c IN [PutAt(d, ch) EXCEPT !.col = @ + 1]

write_character(c, ch) ==
    CASE ch = NewLine -> new_line(c)
      [] ch = Rubout -> IF c.col = 0 THEN c ELSE PutAt([c EXCEPT !.col = @ - 1], BlankCell)
      [] ch = Bell -> c
      [] OTHER -> PutCharacter(c, ch)

RECURSIVE WriteAll(_, _)
WriteAll(c, s) == IF s = << >> THEN c
                  ELSE LET d == write_character([c EXCEPT !.damage = NoDamageCells], Head(s))
                       IN  WriteAll([d EXCEPT !.damage = Union(c.damage, @)], Tail(s))

\* The ghost: lines of a tape that never scrolls.
TapeChar(lines, ch) ==
    LET n == Len(lines)
    IN  CASE ch = NewLine -> Append(lines, << >>)
          [] ch = Rubout -> IF lines[n] = << >> THEN lines
                            ELSE [lines EXCEPT ![n] = SubSeq(@, 1, Len(@) - 1)]
          [] ch = Bell -> lines
          [] OTHER -> IF Len(lines[n]) = COLS THEN Append(lines, <<ch>>)
                      ELSE [lines EXCEPT ![n] = Append(@, ch)]
RECURSIVE TapeAll(_, _)
TapeAll(lines, s) == IF s = << >> THEN lines ELSE TapeAll(TapeChar(lines, Head(s)), Tail(s))

-----------------------------------------------------------------------------
Inside(p, d) == d.top <= p[1] /\ p[1] < d.bottom /\ d.left <= p[2] /\ p[2] < d.right

\* write_str: Hebrew text is written from its end.
write_str(s, rtl) ==
    LET t == IF rtl THEN [i \in DOMAIN s |-> s[Len(s) + 1 - i]] ELSE s
        c == WriteAll([cells |-> cells, row |-> at.row, col |-> at.col, damage |-> NoDamageCells], t)
    IN  /\ texting /\ UNCHANGED texting
        /\ cells' = c.cells /\ at' = [row |-> c.row, col |-> c.col]
        /\ glass' = [p \in Grid |-> IF Inside(p, c.damage) THEN c.cells[p] ELSE glass[p]]
        /\ tape' = TapeAll(tape, t) /\ Len(tape') <= MaxLines

\* enable: a fresh grid, presented whole, once the scanout has been entered.
EnableText ==
    /\ cells' = [p \in Grid |-> BlankCell] /\ glass' = cells' /\ at' = [row |-> 0, col |-> 0]
    /\ texting' = TRUE /\ tape' = <<<< >>>>

\* disable: the grid keeps its text, and framebuffer::exit gives the scanout up.
\* Whatever the next owner of the scanout draws shows as blank here.
DisableText ==
    /\ texting /\ texting' = FALSE
    /\ glass' = [p \in Grid |-> BlankCell] /\ UNCHANGED <<cells, at, tape>>

ConsoleInit ==
    /\ cells = [p \in Grid |-> BlankCell] /\ glass = cells /\ at = [row |-> 0, col |-> 0]
    /\ texting = FALSE /\ tape = <<<< >>>>
ConsoleNext == EnableText \/ DisableText \/ \E s \in Strings, rtl \in BOOLEAN : write_str(s, rtl)
ConsoleSpec == ConsoleInit /\ [][ConsoleNext]_consoleVars

-----------------------------------------------------------------------------
\* While the console is enabled the scanout shows its grid: the one rectangle
\* write_str presents covers all that a string changed, a scroll included, and
\* enabling again shows nothing of an earlier session.
GlassShowsCells == texting => glass = cells

\* The grid is the end of the text: the last ROWS lines of the unbounded tape,
\* so wrapping, scrolling and rubbing out lose or repeat nothing on screen.
GridIsTail ==
    LET top == IF Len(tape) > ROWS THEN Len(tape) - ROWS ELSE 0
    IN  \A p \in Grid :
           cells[p] = IF top + p[1] + 1 \in DOMAIN tape /\ p[2] + 1 \in DOMAIN tape[top + p[1] + 1]
                      THEN tape[top + p[1] + 1][p[2] + 1] ELSE BlankCell

\* What is drawn reaches the screen: inside the memory of the device in use,
\* over every damaged pixel, at the latest with the next full present, and as
\* the cells of the text console.
ScreenCurrent ==
    /\ DrawsInAperture /\ GpuHeldWhileUsed
    /\ DamageCovered /\ MergesAreFree /\ LossIsBounded
    /\ GlassShowsCells /\ GridIsTail
=============================================================================
