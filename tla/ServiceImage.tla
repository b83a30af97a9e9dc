---------------------------- MODULE ServiceImage ----------------------------
(***************************************************************************)
(* The loader of a Ring 3 worker (src/kernel/src/service.rs): the program  *)
(* headers of its ELF image are checked one by one, then the segments, the *)
(* input window and the stack are mapped into the worker's private arena.  *)
(* Addresses are offsets from BASE; a page is PAGE units; flags are the    *)
(* set of rights of a segment; the copied bytes are left out.              *)
(***************************************************************************)
EXTENDS Integers, Sequences

CONSTANTS PAGE, INPUT_OFFSET, INPUT_UNITS, STACK_OFFSET, STACK_UNITS, MEMORY_UNITS,
          Headers,           \* the program headers an image may have
          MaxHeaders, Inputs

VARIABLES image,             \* its headers and entry, and the input's length
          load,              \* phase, the segments taken so far, entry seen
          table,             \* the rights of each mapped page
          lease              \* the last range granted: kind, pages

serviceVars == <<image, load, table, lease>>

Ceil(n) == (n + PAGE - 1) \div PAGE
\* The pages that hold length units from offset on.
PagesOf(offset, length) == offset \div PAGE..Ceil(offset + length) - 1

NoLease == [kind |-> "none", pages |-> {}]

ServiceInit ==
    /\ \E n \in 0..MaxHeaders : \E h \in [1..n -> Headers] :
         image \in [headers : {h}, entry : {0, PAGE}, input : Inputs]
    /\ load = [phase |-> "parse", at |-> 1, segments |-> <<>>, entered |-> FALSE]
    /\ table = [p \in {} |-> {}] /\ lease = NoLease

Reject == load' = [load EXCEPT !.phase = "rejected"] /\ UNCHANGED <<image, table, lease>>

\* Two segments share a page.
Overlaps(s, t) ==
    /\ s.address < t.address + Ceil(t.memory) * PAGE
    /\ t.address < Ceil(s.address + s.memory) * PAGE

\* {"read"}, {"read", "execute"} and {"read", "write"} are the flags 4, 5, 6.
Refused(s) ==
    \/ s.flags \notin {{"read"}, {"read", "execute"}, {"read", "write"}}
    \/ s.address < 0 \/ s.address % PAGE # 0
    \/ s.address + s.memory > INPUT_OFFSET
    \/ s.file > s.memory \/ ~s.inside
    \/ \E i \in 1..Len(load.segments) : Overlaps(s, load.segments[i])

ParseHeader ==
    /\ load.phase = "parse" /\ load.at <= Len(image.headers)
    /\ LET s == image.headers[load.at]
       IN  IF ~s.load \/ s.memory = 0
             THEN load' = [load EXCEPT !.at = @ + 1] /\ UNCHANGED <<image, table, lease>>
           ELSE IF Refused(s) THEN Reject
           ELSE /\ load' = [load EXCEPT !.at = @ + 1, !.segments = Append(@, s),
                              !.entered = @ \/ /\ s.flags = {"read", "execute"}
                                               /\ image.entry \in s.address..s.address + s.file - 1]
                /\ UNCHANGED <<image, table, lease>>

\* The headers are done: some executable segment must hold the entry.
Parsed ==
    /\ load.phase = "parse" /\ load.at > Len(image.headers)
    /\ IF load.entered /\ image.headers # <<>> /\ image.input <= INPUT_UNITS
         THEN /\ load' = [load EXCEPT !.phase = "map", !.at = 1]
              /\ UNCHANGED <<image, table, lease>>
         ELSE Reject

map(offset, length, flags) ==
    [p \in DOMAIN table \cup PagesOf(offset, length) |->
       IF p \in PagesOf(offset, length) THEN flags ELSE table[p]]

MapSegment ==
    /\ load.phase = "map" /\ load.at <= Len(load.segments)
    /\ LET s == load.segments[load.at] IN table' = map(s.address, s.memory, s.flags)
    /\ load' = [load EXCEPT !.at = @ + 1]
    /\ UNCHANGED <<image, lease>>

MapInput ==
    /\ load.phase = "map" /\ load.at = Len(load.segments) + 1
    /\ table' = map(INPUT_OFFSET, INPUT_UNITS, {"read"})
    /\ load' = [load EXCEPT !.at = @ + 1]
    /\ UNCHANGED <<image, lease>>

MapStack ==
    /\ load.phase = "map" /\ load.at = Len(load.segments) + 2
    /\ table' = map(STACK_OFFSET, STACK_UNITS, {"read", "write"})
    /\ load' = [load EXCEPT !.phase = "runs"]
    /\ UNCHANGED <<image, lease>>

Writable(offset, length) ==
    \A p \in PagesOf(offset, length) : p \in DOMAIN table /\ table[p] = {"read", "write"}

\* Mutant: a DMA range may reach the input and output pages.
MutantPhysical(offset, length) ==
    length # 0 /\ offset >= 0 /\ offset + length <= MEMORY_UNITS /\ Writable(offset, length)

writable_physical_range(offset, length) ==
    length # 0 /\ offset >= 0 /\ offset + length <= INPUT_OFFSET /\ Writable(offset, length)

writable_alias_range(offset, length) ==
    length # 0 /\ offset >= 0 /\ offset + length <= MEMORY_UNITS /\ Writable(offset, length)

\* The worker asks for a DMA aperture, or for a copy into its memory.
AskRange ==
    /\ load.phase = "runs"
    /\ \E offset \in -1..MEMORY_UNITS, length \in 0..MEMORY_UNITS :
         \/ /\ writable_physical_range(offset, length)
            /\ lease' = [kind |-> "dma", pages |-> PagesOf(offset, length)]
         \/ /\ writable_alias_range(offset, length)
            /\ lease' = [kind |-> "copy", pages |-> PagesOf(offset, length)]
    /\ UNCHANGED <<image, load, table>>

ServiceNext == ParseHeader \/ Parsed \/ MapSegment \/ MapInput \/ MapStack \/ AskRange

-----------------------------------------------------------------------------
(* "W^X required" (service.rs:46): no page of a worker is ever writable and *)
(* executable, and a page once mapped keeps its rights while later          *)
(* segments, the input and the stack are mapped, although sizes end in the  *)
(* middle of a page.                                                        *)
PagesKeepRights ==
    [][/\ \A p \in DOMAIN table' : ~({"write", "execute"} \subseteq table'[p])
       /\ \A p \in DOMAIN table : p \in DOMAIN table' /\ table'[p] = table[p]]_serviceVars

(* Everything mapped lies in the arena, the page below the stack stays a   *)
(* guard, and a running worker can execute its entry.                      *)
ArenaConfined ==
    /\ DOMAIN table \subseteq 0..Ceil(MEMORY_UNITS) - 1
    /\ \A p \in PagesOf(INPUT_OFFSET + INPUT_UNITS, STACK_OFFSET - INPUT_OFFSET - INPUT_UNITS) :
         p \notin DOMAIN table
    /\ load.phase = "runs" => "execute" \in table[image.entry \div PAGE]

(* "executable/read-only/input pages and addresses outside the private     *)
(* arena are rejected": a DMA aperture covers writable segment pages only, *)
(* never the input window or the stack, and a copy never touches the input.*)
LeasesArePrivate ==
    /\ \A p \in lease.pages : table[p] = {"read", "write"}
    /\ lease.kind = "dma" => \A p \in lease.pages : p < INPUT_OFFSET \div PAGE

\* A service worker reaches its own arena only, through pages that keep the
\* rights they were mapped with (service.rs).
WorkerConfined == [](ArenaConfined /\ LeasesArePrivate) /\ PagesKeepRights
=============================================================================
