------------------------------ MODULE MCKernel ------------------------------
(***************************************************************************)
(* The services and drivers of the kernel, each in a small instance of its *)
(* own.  They share no state, so one run checks them side by side: `part`  *)
(* says which one a behaviour is about, and the others keep their initial  *)
(* state.  Some come with more than one focus, which leaves out steps that *)
(* the properties of another focus need.                                   *)
(***************************************************************************)
EXTENDS Scheduler, SequencesExt, KernelControls, ServiceImage, TcpClient,
        NetworkDriver, NetworkQueries, HttpClient, AudioOutput, WaveDecoder,
        InputStream, UsbHost, Compositor, DisplayOutput

VARIABLE part

-----------------------------------------------------------------------------
(* Constants.                                                              *)

SmallLimits == [soft : {0, Ceiling}, hard : {1, Ceiling + 1}]

\* A worker's image: segments that share a page, overlap, end in the arena's
\* reserved pages, are unaligned, empty, unreadable or not loaded at all.
Segment1(address, memory, flags) ==
    [address |-> address, memory |-> memory, file |-> 1, flags |-> flags,
     load |-> TRUE, inside |-> TRUE]
SmallHeaders ==
    {Segment1(a, m, f) : a \in {0, 2, 4, 6}, m \in {1, 3},
                         f \in {{"read", "execute"}, {"read", "write"}}}
    \cup {Segment1(2, 2, {"read"}), Segment1(0, 2, {"read", "write", "execute"}),
          Segment1(1, 1, {"read"}), Segment1(-2, 2, {"read"}), Segment1(2, 0, {"read"}),
          [Segment1(2, 2, {"read"}) EXCEPT !.load = FALSE],
          [Segment1(4, 1, {"read"}) EXCEPT !.inside = FALSE],
          [Segment1(4, 1, {"read"}) EXCEPT !.file = 2]}

SmallReply == <<"a", "b">>

Url(scheme, host, port) ==
    [scheme |-> scheme, host |-> host, port |-> port, wellformed |-> TRUE]
SmallUrls ==
    {Url("https", "a", NoPort), Url("https", "a", 8443), Url("https", "b", 443),
     Url("http", "a", NoPort), Url("https", "ip", NoPort), Url("http", "ip", 80),
     Url("ftp", "a", NoPort), Url("http", "a", 0)}
Body(bytes, length, status, truncated) ==
    [bytes |-> bytes, length |-> length, status |-> status, truncated |-> truncated]
SmallBodies ==
    {Body(b, 2, s, t) : b \in {"pkg", "bad"}, s \in {200, 206}, t \in BOOLEAN}
    \cup {Body("none", 0, 200, FALSE)}
SmallManifests ==
    [signed : BOOLEAN, length : {2}, bytes : {"pkg"},
     url : {Url("https", "a", NoPort), Url("https", "a", 8443), Url("https", "b", 443),
            Url("http", "a", NoPort)}]

\* WAVE files: every width, one and two channels, every rate and one the
\* decoder refuses; and chunks in an order, number or size it refuses.
Raw == <<255, 127, 128, 0, 128, 255, 1, 254, 64, 200, 127, 128>>
Fmt(channels, bits, rate) ==
    [kind |-> "fmt", inside |-> TRUE, length |-> 16, codec |-> 1, channels |-> channels,
     bits |-> bits, rate |-> rate, align |-> channels * (bits \div 8),
     byte_rate |-> rate * channels * (bits \div 8)]
DataChunk(bytes) == [kind |-> "data", inside |-> TRUE, length |-> Len(bytes), bytes |-> bytes]
OtherChunk == [kind |-> "LIST", inside |-> TRUE, length |-> 3]
SmallFiles ==
    {<<Fmt(c, b, r), DataChunk(Raw)>> : c \in {1, 2}, b \in {8, 16, 24, 32}, r \in {1, 2, 3, 5, 7}}
    \cup {<<OtherChunk, DataChunk(Raw), Fmt(1, 16, 3)>>,
          <<Fmt(1, 16, 3), DataChunk(Raw), Fmt(1, 16, 3)>>,
          <<Fmt(1, 8, 3), DataChunk(Raw), DataChunk(Raw)>>,
          <<Fmt(1, 8, 3)>>, <<DataChunk(Raw)>>, <<>>,
          <<Fmt(1, 16, 3), DataChunk(<<1, 2, 3>>)>>,
          <<Fmt(1, 8, 3), [DataChunk(Raw) EXCEPT !.inside = FALSE]>>,
          <<[Fmt(1, 8, 3) EXCEPT !.length = 14], DataChunk(Raw)>>,
          <<[Fmt(1, 8, 3) EXCEPT !.codec = 3], DataChunk(Raw)>>}

\* Two keyboards with an empty port and another device between them.
SmallPorts == <<"hid", "none", "other", "hid">>

SmallDamage ==
    {[x |-> x, y |-> y, w |-> w, h |-> h] : x \in {-1, 0, 2}, y \in {0, 1}, w, h \in {1, 2}}
Gop == [mode |-> 2, bytes |-> 2]
SmallStrings ==
    {<<"a">>, <<"n">>, <<"r">>, <<"g">>, <<"a", "b">>, <<"b", "n">>, <<"r", "a">>, <<"n", "b">>}

-----------------------------------------------------------------------------
(* The parts.                                                              *)

wireVars == <<peer, wire>>
driverVars == <<driver, portal, card, net>>

coreVars == <<sched, controlVars, serviceVars>>
networkVars == <<tcp, call, wireVars, driverVars, queryVars, webVars>>
deviceVars == <<sound, waveVars, inputVars, usbVars>>
sceneVars == <<compositorVars, damageVars, outputVars, consoleVars>>
kernelVars == <<coreVars, networkVars, deviceVars, sceneVars, part>>

Parts == {"ipc", "controls", "service", "stream", "exchange", "receive", "transmit",
          "queries", "http", "audio", "wave", "input", "keyboards", "usb",
          "compositor", "damage", "output", "console"}

KernelInit ==
    /\ part \in Parts
    /\ Init /\ ControlsInit /\ ServiceInit
    /\ part # "service" => image = [headers |-> <<>>, entry |-> 0, input |-> 2]
    /\ StreamInit /\ ExchangeInit /\ DriverInit /\ QueriesInit /\ HttpInit
    /\ part # "exchange" => call.capacity = 1
    /\ AudioInit /\ WaveInit /\ InputInit /\ UsbInit
    /\ part # "wave" => file = <<>>
    /\ CompositorInit
    /\ IF part # "compositor" THEN backend = "shadow" /\ scene.autohide
       ELSE (backend = "flip" => ~scene.autohide) /\ (backend = "direct" => scene.autohide)
    /\ OutputInit /\ (part # "output" => out.prefer = "auto" /\ out.vbe /\ out.accepts = {})
    /\ DamageInit /\ ConsoleInit

CoreParts ==
    \/ part = "ipc" /\ Next /\ UNCHANGED <<controlVars, serviceVars>>
    \/ part = "controls" /\ ControlsNext /\ UNCHANGED <<sched, serviceVars>>
    \/ part = "service" /\ ServiceNext /\ UNCHANGED <<sched, controlVars>>

\* The driver is looked at with a worker that does not send and with one that
\* receives nothing.
NetworkParts ==
    \/ part = "stream" /\ StreamNext /\ UNCHANGED <<call, driverVars, queryVars, webVars>>
    \/ part = "exchange" /\ ExchangeNext /\ UNCHANGED <<tcp, driverVars, queryVars, webVars>>
    \/ /\ \/ part = "receive" /\ DriverNext /\ net'.sent = 0
          \/ part = "transmit" /\ DriverNext /\ net'.taken = <<>>
       /\ UNCHANGED <<tcp, call, wireVars, queryVars, webVars>>
    \/ part = "queries" /\ QueriesNext /\ UNCHANGED <<tcp, call, wireVars, driverVars, webVars>>
    \/ part = "http" /\ HttpNext /\ UNCHANGED <<tcp, call, wireVars, driverVars, queryVars>>

DeviceParts ==
    \/ part = "audio" /\ AudioNext /\ UNCHANGED <<waveVars, inputVars, usbVars>>
    \/ part = "wave" /\ WaveNext /\ UNCHANGED <<sound, inputVars, usbVars>>
    \/ part = "input" /\ InputNext /\ UNCHANGED <<sound, waveVars, usbVars>>
    \/ part = "keyboards" /\ Struck /\ UNCHANGED <<sound, waveVars, usbVars>>
    \/ part = "usb" /\ UsbNext /\ UNCHANGED <<sound, waveVars, inputVars>>

\* A composition slips only on a flipping backend; only the first window changes.
SceneParts ==
    \/ /\ part = "compositor" /\ ~slipped /\ CompositorNext
       /\ slipped' => backend = "flip"
       /\ scene'.windows[2].text = 0
       /\ UNCHANGED <<damageVars, outputVars, consoleVars>>
    \/ part = "damage" /\ DamageNext /\ UNCHANGED <<compositorVars, outputVars, consoleVars>>
    \/ part = "output" /\ OutputNext /\ UNCHANGED <<compositorVars, damageVars, consoleVars>>
    \/ part = "console" /\ ConsoleNext /\ UNCHANGED <<compositorVars, damageVars, outputVars>>

KernelNext ==
    \/ CoreParts /\ UNCHANGED <<networkVars, deviceVars, sceneVars, part>>
    \/ NetworkParts /\ UNCHANGED <<coreVars, deviceVars, sceneVars, part>>
    \/ DeviceParts /\ UNCHANGED <<coreVars, networkVars, sceneVars, part>>
    \/ SceneParts /\ UNCHANGED <<coreVars, networkVars, deviceVars, part>>

KernelSpec == KernelInit /\ [][KernelNext]_kernelVars

-----------------------------------------------------------------------------
\* What a context is charged for IPC is exactly what its ring holds, and no use
\* exceeds its limits: sending, receiving, a send whose second charge is denied,
\* termination, restart and reuse of the slot neither leak nor forget a charge
\* (push_message releases the IpcMessages unit when the IpcBytes charge fails).
IpcAccounted ==
    /\ RingCharged /\ LimitsHold
    /\ \A slot \in Slots :
          sched.contexts[slot].budget["IpcBytes"].used
              = FoldLeft(+, 0, sched.contexts[slot].messages)
=============================================================================
