---------------------------- MODULE WaveDecoder ----------------------------
(***************************************************************************)
(* The conversion of a WAVE file to 48 kHz stereo                          *)
(* (decode_wave_to_stereo_48k in src/kernel/src/audio.rs): the walk over   *)
(* the RIFF chunks, the checks of the format, and the resampling loop with *)
(* its integer position.  A file is its chunk list: per chunk its kind,    *)
(* its length, and whether the bytes it declares (and its pad byte) lie    *)
(* inside the file.  Error values are one outcome, "failed".               *)
(***************************************************************************)
EXTENDS Integers, Sequences

CONSTANTS SAMPLE_RATE,       \* the rate of the output
          SOURCE_RATES,      \* the source rates the decoder takes
          OUTPUT_FRAMES,     \* the room of a sample bank, in frames
          Files

ASSUME RateAssumption ==
    /\ SAMPLE_RATE \in Nat \ {0}
    /\ SOURCE_RATES \subseteq Nat \ {0}
    /\ OUTPUT_FRAMES \in Nat

\* A chunk's length is the unsigned number in its header.
ASSUME FileAssumption ==
    \A f \in Files : Len(f) \in Nat /\ \A i \in 1..Len(f) : f[i].length \in Nat

VARIABLES file,      \* the chunks of the file
          scan,      \* cursor, and the fmt and data chunks met so far
          pos        \* the resampling loop: phase, frames, position, output

waveVars == <<file, scan, pos>>

None == [kind |-> "none"]

WaveInit ==
    /\ file \in Files
    /\ scan = [cursor |-> 1, format |-> None, data |-> None]
    /\ pos = [phase |-> "scan", rate |-> 1, frames |-> 0, total |-> 0,
              source |-> 0, fraction |-> 0, out |-> <<>>]

Fail == pos' = [pos EXCEPT !.phase = "failed"] /\ UNCHANGED <<file, scan>>

Chunk == file[scan.cursor]

\* A chunk the walk stops at: cut off, a second fmt or data, or a short fmt.
Malformed ==
    \/ ~Chunk.inside
    \/ Chunk.kind = "fmt" /\ (scan.format # None \/ Chunk.length < 16)
    \/ Chunk.kind = "data" /\ scan.data # None

Remembered ==
    [cursor |-> scan.cursor + 1,
     format |-> IF Chunk.kind = "fmt" THEN Chunk ELSE scan.format,
     data   |-> IF Chunk.kind = "data" THEN Chunk ELSE scan.data]

ScanChunk ==
    /\ pos.phase = "scan" /\ scan.cursor <= Len(file)
    /\ \/ Malformed /\ Fail
       \/ ~Malformed /\ scan' = Remembered /\ UNCHANGED <<file, pos>>

FrameBytes(f) == (f.bits \div 8) * f.channels

\* What the format must say of the data before a frame is decoded.
Supported(f, d) ==
    /\ f.codec = 1 /\ f.channels \in {1, 2} /\ f.bits \in {8, 16, 24, 32}
    /\ f.rate \in SOURCE_RATES
    /\ f.align = FrameBytes(f) /\ f.byte_rate = f.rate * FrameBytes(f)
    /\ d.length # 0 /\ d.length % FrameBytes(f) = 0

\* Mutant: one frame too many when the rates divide.
MutantFloorFrames(frames, rate) == (frames * SAMPLE_RATE) \div rate + 1

\* ceil(frames * SAMPLE_RATE / rate)
OutputFrames(frames, rate) == (frames * SAMPLE_RATE + rate - 1) \div rate

CheckFormat ==
    /\ pos.phase = "scan" /\ scan.cursor > Len(file)
    /\ LET f == scan.format
           d == scan.data
       IN  IF f = None \/ d = None THEN Fail
           ELSE IF ~Supported(f, d) THEN Fail
           ELSE \E n \in {d.length \div FrameBytes(f)} :
                  IF OutputFrames(n, f.rate) > OUTPUT_FRAMES THEN Fail
                  ELSE /\ pos' = [pos EXCEPT !.phase = "frame", !.rate = f.rate, !.frames = n,
                                             !.total = OutputFrames(n, f.rate)]
                       /\ UNCHANGED <<file, scan>>

Signed(v, width) == IF v >= 2^(width - 1) THEN v - 2^width ELSE v

decode_sample(b, bits) ==
    CASE bits = 8  -> (b[1] - 128) * 256
      [] bits = 16 -> Signed(b[1] + 256 * b[2], 16)
      [] bits = 24 -> Signed(b[1] + 256 * b[2] + 65536 * b[3], 24) \div 256
      [] bits = 32 -> Signed(b[3] + 256 * b[4], 16)

decode_frame(f, d, frame) ==
    LET size == f.bits \div 8
        base == frame * FrameBytes(f)
        left == decode_sample(SubSeq(d.bytes, base + 1, base + size), f.bits)
    IN  <<left, IF f.channels = 2
                  THEN decode_sample(SubSeq(d.bytes, base + size + 1, base + 2 * size), f.bits)
                  ELSE left>>

\* The division truncates toward zero.
Truncated(n, d) == IF n >= 0 THEN n \div d ELSE -((-n) \div d)

interpolate(first, second, fraction) ==
    first + Truncated((second - first) * fraction, SAMPLE_RATE)

Least(a, b) == IF a < b THEN a ELSE b

CurrentFrame == Least(pos.source, pos.frames - 1)
Following == Least(CurrentFrame + 1, pos.frames - 1)

DecodeFrame ==
    /\ pos.phase = "frame" /\ Len(pos.out) < pos.total
    /\ LET a == decode_frame(scan.format, scan.data, CurrentFrame)
           b == decode_frame(scan.format, scan.data, Following)
       IN  pos' = [pos EXCEPT !.out = Append(@, [left  |-> interpolate(a[1], b[1], pos.fraction),
                                                 right |-> interpolate(a[2], b[2], pos.fraction)]),
                              !.fraction = @ + pos.rate,
                              !.phase = "carry"]
    /\ UNCHANGED <<file, scan>>

\* The while loop that moves whole source frames out of the fraction.
Carry ==
    /\ pos.phase = "carry"
    /\ pos' = IF pos.fraction >= SAMPLE_RATE
                THEN [pos EXCEPT !.fraction = @ - SAMPLE_RATE, !.source = @ + 1]
                ELSE [pos EXCEPT !.phase = "frame"]
    /\ UNCHANGED <<file, scan>>

Converted ==
    /\ pos.phase = "frame" /\ Len(pos.out) = pos.total
    /\ pos' = [pos EXCEPT !.phase = "done"]
    /\ UNCHANGED <<file, scan>>

WaveNext == ScanChunk \/ CheckFormat \/ DecodeFrame \/ Carry \/ Converted

WaveSpec == WaveInit /\ [][WaveNext]_waveVars

-----------------------------------------------------------------------------
(* The resampling position never drifts: before each output frame n, the   *)
(* whole source frames and the fraction together are exactly n source      *)
(* steps, and the fraction is less than one frame.                         *)
PositionExact ==
    pos.phase \in {"frame", "carry", "done"} =>
        /\ pos.source * SAMPLE_RATE + pos.fraction = Len(pos.out) * pos.rate
        /\ pos.phase # "carry" => pos.fraction < SAMPLE_RATE

(* Every output frame is decoded from a real source frame and the clamp to *)
(* the last source frame never repeats one: rounding the output length up  *)
(* leaves the last position inside the data, and no source frame is left   *)
(* unreached at the end.                                                   *)
PositionInData ==
    /\ (pos.phase = "frame" /\ Len(pos.out) < pos.total) => pos.source < pos.frames
    /\ pos.phase = "done" => /\ Len(pos.out) = pos.total
                             /\ pos.source >= pos.frames

Between2(v, a, b) == Least(a, b) <= v /\ v <= -Least(-a, -b)

(* What is heard: each output sample fits 16 bits and lies between the two *)
(* source samples around its position, whatever the sample width.          *)
SamplesBetween ==
    \A n \in 1..Len(pos.out) :
        LET at == ((n - 1) * pos.rate) \div SAMPLE_RATE
            a  == decode_frame(scan.format, scan.data, Least(at, pos.frames - 1))
            b  == decode_frame(scan.format, scan.data, Least(at + 1, pos.frames - 1))
        IN  /\ pos.out[n].left \in -32768..32767 /\ pos.out[n].right \in -32768..32767
            /\ Between2(pos.out[n].left, a[1], b[1])
            /\ Between2(pos.out[n].right, a[2], b[2])

\* The decoder reads inside its data, at the exact position of every output
\* frame, and interpolates between the two frames around it.
WaveExact == PositionExact /\ PositionInData /\ SamplesBetween
=============================================================================
