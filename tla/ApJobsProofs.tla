---------------------------- MODULE ApJobsProofs ----------------------------
(***************************************************************************)
(* The hand-over of slices to application processors, for any number of    *)
(* processors and Forms, when no processor but the last one is late for    *)
(* its start-up deadline: each has its own slot, a Form runs on one        *)
(* processor, and a command gets the results of its own slices.  (A late   *)
(* processor that is not the last reads the slot of the next one.)         *)
(*                                                                         *)
(* BootInv says how far the start-up is; GoodTodo that what is left of a   *)
(* command still finishes every slice it has submitted, once; JobInv that  *)
(* a slot that is not idle is held by exactly one Form.                    *)
(***************************************************************************)
EXTENDS ApJobs, TLAPS, FiniteSetTheorems

Up == {"Loop", "Form", "Done"}
Held == {"READY", "RUNNING", "DONE"}
Calls == {"submit", "finish"} \X Forms
Ends == Reasons \cup {"None"}

ApType ==
    /\ ApTypeOK
    /\ todo \in Seq(Calls)
    /\ ended \in [Forms -> Ends] /\ returned \in [Forms -> Ends]

BootInv ==
    /\ 0 \in online
    /\ \A a \in Aps :
         /\ ap[a] \in Up <=> a \in online
         /\ ap[a] \in {"Entry"} \cup Up => ap_slot[a] = a
         /\ ap[a] = "Started" => mailbox = a
         /\ ap[a] \in {"Started", "Entry"} =>
              a = CPUS - 1 \/ (bsp.pc = "wait" /\ bsp.slot = a)
    /\ bsp.pc = "start" => /\ bsp.slot >= 1
                           /\ \A a \in Aps : a >= bsp.slot => ap[a] = "Off"
    /\ bsp.pc = "wait" => /\ bsp.slot \in Aps
                          /\ \A a \in Aps : a > bsp.slot => ap[a] = "Off"
    /\ bsp.pc \in {"start", "wait"} => todo = << >>

Due(q, f) == \E i \in 1..Len(q) : q[i] = <<"finish", f>>

\* What is left of a command, with the pending slices and the results so far.
GoodTodo(q, pend, told) ==
    /\ \A i, j \in 1..Len(q) : q[i] = q[j] => i = j
    /\ \A i \in 1..Len(q) : \A f \in Forms : q[i] = <<"submit", f>> =>
         pend[f] = 0 /\ \E j \in 1..Len(q) : j > i /\ q[j] = <<"finish", f>>
    /\ \A f \in Forms : /\ pend[f] # 0 => Due(q, f)
                        /\ Due(q, f) => told[f] = "None"

CallInv ==
    /\ bsp.pc \in {"fill", "local"} => todo # << >> /\ pending[Form] = 0
    /\ bsp.pc = "local" => Head(todo)[1] = "finish"
    /\ bsp.pc = "fill" => bsp.slot \in Aps
    /\ bsp.pc = "shell" => todo = << >>

\* Slots and the Forms that hold them.
SlotInv ==
    /\ state[0] = "IDLE"
    /\ \A f, g \in Forms : pending[f] # 0 /\ pending[f] = pending[g] => f = g
    /\ \A f \in Forms : pending[f] # 0 => /\ state[pending[f]] \in Held
                                          /\ job[pending[f]].form = f
    /\ \A s \in CpuSlots : state[s] \in Held => \E f \in Forms : pending[f] = s
    /\ \A s \in CpuSlots : state[s] = "RESERVED" <=> bsp.pc = "fill" /\ bsp.slot = s

\* What the processors run and the results they leave.
RunInv ==
    /\ \A a \in Aps :
         /\ state[a] = "RUNNING" <=> ap[a] \in {"Form", "Done"}
         /\ active[a] = IF ap[a] = "Form" THEN job[a].form ELSE NONE
         /\ ap[a] = "Done" \/ state[a] = "DONE" =>
              /\ ended[job[a].form] \in Reasons
              /\ job[a].reason = encode_reason(ended[job[a].form])
    /\ active[0] = IF bsp.pc = "local" THEN Form ELSE NONE
    /\ \A f \in Forms : returned[f] # "None" => returned[f] = ended[f]

ApInv ==
    ApType /\ BootInv /\ GoodTodo(todo, pending, returned) /\ CallInv /\ SlotInv /\ RunInv

-----------------------------------------------------------------------------
(* Slots, results and what is left of a command.                           *)

LEMMA SlotsAre == CpuSlots = Aps \cup {0} /\ 0 \notin Aps /\ 0 \in CpuSlots
                  /\ \A a \in Aps : a \in Nat /\ a < CPUS /\ a >= 1
  BY ApAssumption DEF CpuSlots, Aps

LEMMA ReasonsDecode ==
    \A reason \in Reasons : /\ decode_reason(encode_reason(reason)) = reason
                            /\ encode_reason(reason) \in 1..4
  BY DEF Reasons, encode_reason, decode_reason

LEMMA DecodeTyped == \A code \in 0..4 : decode_reason(code) \in Reasons
  BY DEF Reasons, decode_reason

LEMMA WorkersBounded ==
    ASSUME online \subseteq CpuSlots, 0 \in online
    PROVE  workers \in Nat /\ workers <= CPUS - 1
<1>1. Cardinality(CpuSlots) = CPUS /\ IsFiniteSet(CpuSlots)
  BY ApAssumption, FS_Interval, SMT DEF CpuSlots
<1>2. IsFiniteSet(online) /\ Cardinality(online) <= CPUS
  BY <1>1, FS_Subset
<1>3. Cardinality(online) \in Nat /\ Cardinality(online) # 0
  BY <1>2, FS_EmptySet, FS_CardinalityType
<1> QED
  BY <1>2, <1>3, ApAssumption DEF workers, online_count

LEMMA TailIs ==
    ASSUME NEW S, NEW q \in Seq(S), q # << >>
    PROVE  /\ Tail(q) \in Seq(S) /\ Len(q) \in Nat /\ Len(q) >= 1
           /\ Len(Tail(q)) = Len(q) - 1 /\ Head(q) = q[1] /\ q[1] \in S
           /\ \A i \in 1..Len(Tail(q)) : Tail(q)[i] = q[i + 1]
  OBVIOUS

LEMMA CallIs ==
    ASSUME NEW c \in Calls
    PROVE  c[2] \in Forms /\ (c = <<"submit", c[2]>> \/ c = <<"finish", c[2]>>)
           /\ (c[1] = "finish" <=> c = <<"finish", c[2]>>)
           /\ (c[1] = "submit" <=> c = <<"submit", c[2]>>)
  BY DEF Calls

\* A slice submitted before it is finished.
LEMMA SubmitHead ==
    ASSUME NEW q \in Seq(Calls), q # << >>, NEW pend \in [Forms -> CpuSlots],
           NEW told \in [Forms -> Ends], GoodTodo(q, pend, told),
           NEW f \in Forms, q[1] = <<"submit", f>>, NEW s \in CpuSlots
    PROVE  GoodTodo(Tail(q), pend, told) /\ GoodTodo(Tail(q), [pend EXCEPT ![f] = s], told)
<1> DEFINE r == Tail(q)
<1>1. /\ Len(q) \in Nat /\ Len(q) >= 1 /\ Len(r) = Len(q) - 1
      /\ \A i \in 1..Len(r) : r[i] = q[i + 1]
  BY TailIs
<1> HIDE DEF r
<1>2. \A g \in Forms : Due(r, g) <=> Due(q, g)
  <2> SUFFICES ASSUME NEW g \in Forms PROVE Due(r, g) <=> Due(q, g)
    OBVIOUS
  <2>1. Due(r, g) => Due(q, g)
    BY <1>1 DEF Due
  <2>2. ASSUME NEW i \in 1..Len(q), q[i] = <<"finish", g>> PROVE Due(r, g)
    <3>1. i # 1
      BY <2>2
    <3>2. i - 1 \in 1..Len(r) /\ r[i - 1] = q[i]
      BY <3>1, <1>1
    <3> QED
      BY <3>2, <2>2 DEF Due
  <2> QED
    BY <2>1, <2>2 DEF Due
<1>3. Due(q, f)
  <2>1. 1 \in 1..Len(q)
    BY <1>1
  <2>2. \E j \in 1..Len(q) : j > 1 /\ q[j] = <<"finish", f>>
    BY <2>1 DEF GoodTodo
  <2> QED
    BY <2>2 DEF Due
<1>4. \A i, j \in 1..Len(r) : r[i] = r[j] => i = j
  BY <1>1 DEF GoodTodo
<1>5. ASSUME NEW i \in 1..Len(r), r[i] = <<"submit", f>> PROVE FALSE
  <2>1. 1 \in 1..Len(q) /\ i + 1 \in 1..Len(q) /\ q[i + 1] = q[1]
    BY <1>1, <1>5
  <2>2. i + 1 = 1
    BY <2>1 DEF GoodTodo
  <2> QED
    BY <2>2
<1>6. ASSUME NEW i \in 1..Len(r), NEW g \in Forms, r[i] = <<"submit", g>>
      PROVE  pend[g] = 0 /\ \E j \in 1..Len(r) : j > i /\ r[j] = <<"finish", g>>
  <2>1. i + 1 \in 1..Len(q) /\ q[i + 1] = <<"submit", g>>
    BY <1>1, <1>6
  <2>2. pend[g] = 0
    BY <2>1 DEF GoodTodo
  <2>3. PICK j \in 1..Len(q) : j > i + 1 /\ q[j] = <<"finish", g>>
    BY <2>1 DEF GoodTodo
  <2>4. j - 1 \in 1..Len(r) /\ j - 1 > i /\ r[j - 1] = q[j]
    BY <2>3, <1>1
  <2> QED
    BY <2>2, <2>3, <2>4
<1>7. GoodTodo(r, pend, told)
  BY <1>2, <1>4, <1>6 DEF GoodTodo
<1>8. GoodTodo(r, [pend EXCEPT ![f] = s], told)
  BY <1>2, <1>3, <1>4, <1>5, <1>6, <1>7 DEF GoodTodo
<1> QED
  BY <1>7, <1>8 DEF r

\* A slice submitted by run_slice itself, and a slice that has ended.
LEMMA FinishHead ==
    ASSUME NEW q \in Seq(Calls), q # << >>, NEW pend \in [Forms -> CpuSlots],
           NEW told \in [Forms -> Ends], GoodTodo(q, pend, told),
           NEW f \in Forms, q[1] = <<"finish", f>>, NEW s \in CpuSlots, NEW end \in Ends
    PROVE  /\ GoodTodo(q, [pend EXCEPT ![f] = s], told)
           /\ GoodTodo(Tail(q), [pend EXCEPT ![f] = 0], [told EXCEPT ![f] = end])
<1> DEFINE r == Tail(q)
           free == [pend EXCEPT ![f] = 0]
           said == [told EXCEPT ![f] = end]
<1>1. /\ Len(q) \in Nat /\ Len(q) >= 1 /\ Len(r) = Len(q) - 1
      /\ \A i \in 1..Len(r) : r[i] = q[i + 1]
  BY TailIs
<1> HIDE DEF r
<1>2. Due(q, f)
  BY <1>1 DEF Due
<1>3. ASSUME NEW i \in 1..Len(q), q[i] = <<"submit", f>> PROVE FALSE
  <2>1. PICK j \in 1..Len(q) : j > i /\ q[j] = <<"finish", f>>
    BY <1>3 DEF GoodTodo
  <2>2. 1 \in 1..Len(q) /\ q[j] = q[1]
    BY <1>1, <2>1
  <2>3. j = 1
    BY <2>2 DEF GoodTodo
  <2> QED
    BY <2>1, <2>3
<1>4. GoodTodo(q, [pend EXCEPT ![f] = s], told)
  BY <1>2, <1>3 DEF GoodTodo
<1>5. ~Due(r, f)
  <2>1. ASSUME NEW i \in 1..Len(r), r[i] = <<"finish", f>> PROVE FALSE
    <3>1. i + 1 \in 1..Len(q) /\ 1 \in 1..Len(q) /\ q[i + 1] = q[1]
      BY <1>1, <2>1
    <3>2. i + 1 = 1
      BY <3>1 DEF GoodTodo
    <3> QED
      BY <3>2, <1>1
  <2> QED
    BY <2>1 DEF Due
<1>6. \A g \in Forms \ {f} : Due(r, g) <=> Due(q, g)
  <2> SUFFICES ASSUME NEW g \in Forms \ {f} PROVE Due(r, g) <=> Due(q, g)
    OBVIOUS
  <2>1. Due(r, g) => Due(q, g)
    BY <1>1 DEF Due
  <2>2. ASSUME NEW i \in 1..Len(q), q[i] = <<"finish", g>> PROVE Due(r, g)
    <3>1. i # 1
      BY <2>2
    <3>2. i - 1 \in 1..Len(r) /\ r[i - 1] = q[i]
      BY <3>1, <1>1
    <3> QED
      BY <3>2, <2>2 DEF Due
  <2> QED
    BY <2>1, <2>2 DEF Due
<1>7. \A i, j \in 1..Len(r) : r[i] = r[j] => i = j
  BY <1>1 DEF GoodTodo
<1>8. ASSUME NEW i \in 1..Len(r), NEW g \in Forms, r[i] = <<"submit", g>>
      PROVE  free[g] = 0 /\ \E j \in 1..Len(r) : j > i /\ r[j] = <<"finish", g>>
  <2>1. i + 1 \in 1..Len(q) /\ q[i + 1] = <<"submit", g>>
    BY <1>1, <1>8
  <2>2. pend[g] = 0
    BY <2>1 DEF GoodTodo
  <2>3. PICK j \in 1..Len(q) : j > i + 1 /\ q[j] = <<"finish", g>>
    BY <2>1 DEF GoodTodo
  <2>4. j - 1 \in 1..Len(r) /\ j - 1 > i /\ r[j - 1] = q[j]
    BY <2>3, <1>1
  <2> QED
    BY <2>2, <2>3, <2>4
<1>9. ASSUME NEW g \in Forms
      PROVE  (free[g] # 0 => Due(r, g)) /\ (Due(r, g) => said[g] = "None")
  BY <1>5, <1>6 DEF GoodTodo
<1> HIDE DEF free, said
<1>10. GoodTodo(r, free, said)
  BY <1>7, <1>8, <1>9 DEF GoodTodo
<1> QED
  BY <1>4, <1>10 DEF r, free, said

-----------------------------------------------------------------------------
(* The start-up keeps the invariant.                                       *)

LEMMA ApInitInv == ApInit => ApInv
<1> SUFFICES ASSUME ApInit PROVE ApInv
  OBVIOUS
<1> USE DEF ApInit
<1>1. ApTypeOK
  <2>1. next_ap \in 0..AP_WRAP - 1
    BY ApAssumption
  <2>2. bsp \in [pc : {"start", "wait", "shell", "call", "fill", "local"}, slot : 0..CPUS]
    BY ApAssumption
  <2>3. job \in [CpuSlots -> [form : Forms \cup {NONE}, reason : 0..4]]
    OBVIOUS
  <2> QED
    BY <2>1, <2>2, <2>3, SlotsAre DEF ApTypeOK
<1>2. ApType
  BY <1>1 DEF ApType, Ends
<1>3. BootInv
  BY SlotsAre DEF BootInv, Up
<1>4. GoodTodo(todo, pending, returned)
  BY DEF GoodTodo, Due
<1>5. CallInv
  BY DEF CallInv
<1>6. SlotInv
  BY SlotsAre DEF SlotInv, Held
<1>7. RunInv
  BY SlotsAre DEF RunInv
<1> QED
  BY <1>2, <1>3, <1>4, <1>5, <1>6, <1>7 DEF ApInv

LEMMA StartApKeeps == ASSUME ApInv, StartAp PROVE ApInv'
<1>1. /\ bsp.pc = "start" /\ bsp.slot < CPUS /\ mailbox' = bsp.slot
      /\ ap' = [ap EXCEPT ![bsp.slot] = "Started"]
      /\ bsp' = [bsp EXCEPT !.pc = "wait"]
      /\ UNCHANGED <<online, ap_slot, state, job, next_ap, todo, pending, active, ended, returned>>
  BY DEF StartAp, jobs, slices
<1>2. ApType /\ ApTypeOK /\ BootInv
  BY DEF ApInv, ApType
<1>3. bsp.slot \in Aps
  BY <1>1, <1>2, ApAssumption DEF BootInv, Aps, ApTypeOK
<1>4. /\ bsp' \in [pc : {"start", "wait", "shell", "call", "fill", "local"}, slot : 0..CPUS]
      /\ bsp'.pc = "wait" /\ bsp'.slot = bsp.slot
  BY <1>1, <1>2 DEF ApTypeOK
<1>5. ApType'
  BY <1>1, <1>2, <1>3, <1>4, SlotsAre DEF ApType, ApTypeOK
<1>6. ap[bsp.slot] = "Off" /\ \A a \in Aps : ap'[a] = IF a = bsp.slot THEN "Started" ELSE ap[a]
  BY <1>1, <1>2, <1>3, SlotsAre DEF BootInv, ApTypeOK
<1>6a. \A a \in Aps : ap[a] \notin {"Started", "Entry"}
  <2>1. CPUS - 1 \in Aps => ap[CPUS - 1] = "Off"
    BY <1>1, <1>2, <1>3, ApAssumption DEF BootInv, Aps
  <2> QED
    BY <2>1, <1>1, <1>2 DEF BootInv
<1>7. BootInv'
  BY <1>1, <1>2, <1>3, <1>4, <1>6, <1>6a, SlotsAre DEF BootInv, Up
<1>8. GoodTodo(todo, pending, returned)' /\ CallInv'
  <2>1. GoodTodo(todo, pending, returned)'
    BY <1>1 DEF ApInv
  <2>2. CallInv'
    BY <1>1, <1>4 DEF ApInv, CallInv
  <2> QED
    BY <2>1, <2>2
<1>9. SlotInv'
  BY <1>1, <1>4 DEF ApInv, SlotInv
<1>10. RunInv'
  BY <1>1, <1>4, <1>6 DEF ApInv, RunInv
<1> QED
  BY <1>5, <1>7, <1>8, <1>9, <1>10 DEF ApInv

LEMMA EndWaitKeeps == ASSUME Late \subseteq {CPUS - 1}, ApInv, EndWait PROVE ApInv'
<1>1. /\ bsp.pc = "wait" /\ (bsp.slot \in online \/ bsp.slot = CPUS - 1)
      /\ bsp' = [pc |-> "start", slot |-> bsp.slot + 1]
      /\ UNCHANGED <<mailbox, online, ap_slot, ap, state, job, next_ap, todo, pending,
                     active, ended, returned>>
  BY DEF EndWait, start, jobs, slices, Answered
<1>2. ApType /\ ApTypeOK /\ BootInv
  BY DEF ApInv, ApType
<1>3. bsp.slot \in Aps /\ bsp'.pc = "start" /\ bsp'.slot = bsp.slot + 1
  BY <1>1, <1>2 DEF BootInv
<1>4. bsp' \in [pc : {"start", "wait", "shell", "call", "fill", "local"}, slot : 0..CPUS]
  <2>1. bsp.slot + 1 \in 0..CPUS
    BY <1>3, ApAssumption DEF Aps
  <2> QED
    BY <1>1, <2>1
<1>5. ApType'
  BY <1>1, <1>2, <1>4 DEF ApType, ApTypeOK
<1>6. BootInv'
  BY <1>1, <1>2, <1>3, SlotsAre DEF BootInv, Up
<1>7. GoodTodo(todo, pending, returned)' /\ CallInv'
  <2>1. GoodTodo(todo, pending, returned)'
    BY <1>1 DEF ApInv
  <2>2. CallInv'
    BY <1>1, <1>3 DEF ApInv, CallInv
  <2> QED
    BY <2>1, <2>2
<1>8. SlotInv' /\ RunInv'
  BY <1>1, <1>3 DEF ApInv, SlotInv, RunInv
<1> QED
  BY <1>5, <1>6, <1>7, <1>8 DEF ApInv

LEMMA StartedKeeps == ASSUME ApInv, Started PROVE ApInv'
<1>1. /\ bsp.pc = "start" /\ bsp.slot = CPUS
      /\ bsp' = [pc |-> "shell", slot |-> 0]
      /\ UNCHANGED <<mailbox, online, ap_slot, ap, state, job, next_ap, todo, pending,
                     active, ended, returned>>
  BY DEF Started, start, jobs, slices
<1>2. ApType /\ ApTypeOK /\ BootInv
  BY DEF ApInv, ApType
<1>3. bsp'.pc = "shell" /\ bsp'.slot = 0
      /\ bsp' \in [pc : {"start", "wait", "shell", "call", "fill", "local"}, slot : 0..CPUS]
  BY <1>1, ApAssumption
<1>4. ApType'
  BY <1>1, <1>2, <1>3 DEF ApType, ApTypeOK
<1>5. BootInv'
  BY <1>1, <1>2, <1>3, SlotsAre DEF BootInv, Up
<1>6. GoodTodo(todo, pending, returned)' /\ CallInv'
  <2>1. GoodTodo(todo, pending, returned)'
    BY <1>1 DEF ApInv
  <2>2. CallInv'
    BY <1>1, <1>2, <1>3 DEF ApInv, CallInv, BootInv
  <2> QED
    BY <2>1, <2>2
<1>7. SlotInv' /\ RunInv'
  BY <1>1, <1>3 DEF ApInv, SlotInv, RunInv
<1> QED
  BY <1>4, <1>5, <1>6, <1>7 DEF ApInv

LEMMA TrampolineKeeps == ASSUME ApInv, NEW a \in Aps, ap_trampoline(a) PROVE ApInv'
<1>1. /\ ap[a] = "Started"
      /\ ap' = [ap EXCEPT ![a] = "Entry"]
      /\ ap_slot' = [ap_slot EXCEPT ![a] = mailbox]
      /\ UNCHANGED <<mailbox, online, state, job, next_ap, bsp, todo, pending,
                     active, ended, returned>>
  BY DEF ap_trampoline, jobs, slices
<1>2. ApType /\ ApTypeOK /\ BootInv
  BY DEF ApInv, ApType
<1>3. mailbox = a
  BY <1>1, <1>2 DEF BootInv
<1>4. \A b \in Aps : /\ ap'[b] = IF b = a THEN "Entry" ELSE ap[b]
                     /\ ap_slot'[b] = IF b = a THEN a ELSE ap_slot[b]
  BY <1>1, <1>2, <1>3 DEF ApTypeOK
<1>5. ApType'
  BY <1>1, <1>2 DEF ApType, ApTypeOK
<1>6. BootInv'
  BY <1>1, <1>2, <1>3, <1>4, SlotsAre DEF BootInv, Up
<1>7. GoodTodo(todo, pending, returned)' /\ CallInv'
  <2>1. GoodTodo(todo, pending, returned)'
    BY <1>1 DEF ApInv
  <2>2. CallInv'
    BY <1>1 DEF ApInv, CallInv, Form
  <2> QED
    BY <2>1, <2>2
<1>8. SlotInv' /\ RunInv'
  BY <1>1, <1>4 DEF ApInv, SlotInv, RunInv, Form
<1> QED
  BY <1>5, <1>6, <1>7, <1>8 DEF ApInv

LEMMA EntryKeeps == ASSUME ApInv, NEW a \in Aps, ap_entry(a) PROVE ApInv'
<1>1. /\ ap[a] = "Entry"
      /\ ap' = [ap EXCEPT ![a] = "Loop"]
      /\ online' = online \cup {ap_slot[a]}
      /\ UNCHANGED <<mailbox, ap_slot, state, job, next_ap, bsp, todo, pending,
                     active, ended, returned>>
  BY DEF ap_entry, jobs, slices
<1>2. ApType /\ ApTypeOK /\ BootInv
  BY DEF ApInv, ApType
<1>3. ap_slot[a] = a
  BY <1>1, <1>2 DEF BootInv
<1>4. \A b \in Aps : ap'[b] = IF b = a THEN "Loop" ELSE ap[b]
  BY <1>1, <1>2 DEF ApTypeOK
<1>5. ApType'
  BY <1>1, <1>2, <1>3, SlotsAre DEF ApType, ApTypeOK
<1>6. BootInv'
  BY <1>1, <1>2, <1>3, <1>4, SlotsAre DEF BootInv, Up
<1>7. GoodTodo(todo, pending, returned)' /\ CallInv'
  <2>1. GoodTodo(todo, pending, returned)'
    BY <1>1 DEF ApInv
  <2>2. CallInv'
    BY <1>1 DEF ApInv, CallInv, Form
  <2> QED
    BY <2>1, <2>2
<1>8. SlotInv' /\ RunInv'
  BY <1>1, <1>4 DEF ApInv, SlotInv, RunInv, Form
<1> QED
  BY <1>5, <1>6, <1>7, <1>8 DEF ApInv

-----------------------------------------------------------------------------
(* The processors' side.                                                   *)

\* A processor past its start-up serves the slot with its own number.
LEMMA OwnSlot ==
    ASSUME ApInv, NEW a \in Aps, ap[a] \in Up
    PROVE  ap_slot[a] = a /\ a \in CpuSlots /\ a # 0
  BY SlotsAre DEF ApInv, BootInv

LEMMA TakeJobKeeps == ASSUME ApInv, NEW a \in Aps, TakeJob(a) PROVE ApInv'
<1>1. ap_slot[a] = a /\ a \in CpuSlots /\ a # 0
  BY OwnSlot DEF TakeJob, Up
<1>2. /\ ap[a] = "Loop" /\ state[a] = "READY"
      /\ state' = [state EXCEPT ![a] = "RUNNING"]
      /\ active' = [active EXCEPT ![a] = job[a].form]
      /\ ap' = [ap EXCEPT ![a] = "Form"]
      /\ UNCHANGED <<mailbox, online, ap_slot, job, next_ap, bsp, todo, pending, ended, returned>>
  BY <1>1 DEF TakeJob, start
<1>3. ApType /\ ApTypeOK /\ BootInv
  BY DEF ApInv, ApType
<1>4. /\ \A b \in Aps : ap'[b] = IF b = a THEN "Form" ELSE ap[b]
      /\ \A c \in CpuSlots : /\ state'[c] = IF c = a THEN "RUNNING" ELSE state[c]
                             /\ active'[c] = IF c = a THEN job[a].form ELSE active[c]
  BY <1>1, <1>2, <1>3 DEF ApTypeOK
<1>5. ApType'
  BY <1>1, <1>2, <1>3 DEF ApType, ApTypeOK
<1>6. BootInv'
  BY <1>2, <1>3, <1>4 DEF BootInv, Up
<1>7. GoodTodo(todo, pending, returned)'
  BY <1>2 DEF ApInv
<1>8. CallInv'
  BY <1>2 DEF ApInv, CallInv, Form
<1>9. SlotInv'
  BY <1>1, <1>2, <1>3, <1>4, SlotsAre DEF ApInv, SlotInv, Held, ApTypeOK
<1>10. RunInv'
  BY <1>1, <1>2, <1>4, SlotsAre DEF ApInv, RunInv, Form
<1> QED
  BY <1>5, <1>6, <1>7, <1>8, <1>9, <1>10 DEF ApInv

\* The Form on a processor is the one whose slice is pending there.
LEMMA RunningIsPending ==
    ASSUME ApInv, NEW a \in Aps, state[a] \in Held
    PROVE  /\ job[a].form \in Forms /\ pending[job[a].form] = a
           /\ returned[job[a].form] = "None"
<1>1. PICK f \in Forms : pending[f] = a
  BY SlotsAre DEF ApInv, SlotInv
<1>2. job[a].form = f
  BY <1>1, SlotsAre DEF ApInv, SlotInv
<1>3. returned[f] = "None"
  BY <1>1, SlotsAre DEF ApInv, GoodTodo
<1> QED
  BY <1>1, <1>2, <1>3

LEMMA EndSliceKeeps == ASSUME ApInv, NEW a \in Aps, EndSlice(a) PROVE ApInv'
<1>1. ap_slot[a] = a /\ a \in CpuSlots /\ a # 0
  BY OwnSlot DEF EndSlice, Up
<1>2. PICK reason \in Reasons :
        /\ ended' = [ended EXCEPT ![active[a]] = reason]
        /\ job' = [job EXCEPT ![a].reason = encode_reason(reason)]
  BY <1>1 DEF EndSlice
<1>3. /\ ap[a] = "Form"
      /\ active' = [active EXCEPT ![a] = NONE]
      /\ ap' = [ap EXCEPT ![a] = "Done"]
      /\ UNCHANGED <<mailbox, online, ap_slot, state, next_ap, bsp, todo, pending, returned>>
  BY DEF EndSlice, start
<1>4. ApType /\ ApTypeOK /\ BootInv
  BY DEF ApInv, ApType
<1> DEFINE f == job[a].form
<1>5. state[a] = "RUNNING" /\ active[a] = f
  BY <1>3 DEF ApInv, RunInv
<1>6. f \in Forms /\ pending[f] = a /\ returned[f] = "None"
  BY <1>5, RunningIsPending DEF Held
<1>7. encode_reason(reason) \in 1..4
  BY ReasonsDecode
<1> DEFINE code == encode_reason(reason)
<1> HIDE DEF code
<1>8. /\ job' \in [CpuSlots -> [form : Forms \cup {NONE}, reason : 0..4]]
      /\ \A c \in CpuSlots : /\ job'[c].form = job[c].form
                             /\ job'[c].reason = IF c = a THEN code ELSE job[c].reason
  <2>1. job \in [CpuSlots -> [form : Forms \cup {NONE}, reason : 0..4]] /\ code \in 0..4
    BY <1>4, <1>7 DEF ApTypeOK, code
  <2>2. job' = [job EXCEPT ![a] = [job[a] EXCEPT !.reason = code]]
    BY <1>2 DEF code
  <2> DEFINE filled == [job[a] EXCEPT !.reason = code]
  <2>3. filled \in [form : Forms \cup {NONE}, reason : 0..4]
        /\ filled.form = job[a].form /\ filled.reason = code
    BY <2>1, <1>1
  <2> HIDE DEF filled
  <2>4. \A c \in CpuSlots : job'[c] = IF c = a THEN filled ELSE job[c]
    BY <2>1, <2>2, <1>1 DEF filled
  <2>5. job' \in [CpuSlots -> [form : Forms \cup {NONE}, reason : 0..4]]
    BY <2>1, <2>2, <2>3 DEF filled
  <2> QED
    BY <2>3, <2>4, <2>5
<1> HIDE DEF f
<1>9. /\ \A b \in Aps : ap'[b] = IF b = a THEN "Done" ELSE ap[b]
      /\ \A c \in CpuSlots : active'[c] = IF c = a THEN NONE ELSE active[c]
      /\ \A g \in Forms : ended'[g] = IF g = f THEN reason ELSE ended[g]
  BY <1>1, <1>2, <1>3, <1>4, <1>5, <1>6 DEF ApType, ApTypeOK
<1>10. ended' \in [Forms -> Ends]
  BY <1>2, <1>4, <1>5, <1>6 DEF ApType, Ends
<1>11. ApType'
  BY <1>1, <1>3, <1>4, <1>8, <1>10 DEF ApType, ApTypeOK
<1>12. BootInv'
  BY <1>3, <1>4, <1>9 DEF BootInv, Up
<1>13. GoodTodo(todo, pending, returned)'
  BY <1>3 DEF ApInv
<1>14. CallInv'
  BY <1>3 DEF ApInv, CallInv, Form
<1>15. SlotInv'
  BY <1>3, <1>4, <1>8 DEF ApInv, SlotInv, ApTypeOK
<1>16. RunInv'
  <2>1. ASSUME NEW b \in Aps
        PROVE  /\ state'[b] = "RUNNING" <=> ap'[b] \in {"Form", "Done"}
               /\ active'[b] = IF ap'[b] = "Form" THEN job'[b].form ELSE NONE
    <3>1. /\ state[b] = "RUNNING" <=> ap[b] \in {"Form", "Done"}
          /\ active[b] = IF ap[b] = "Form" THEN job[b].form ELSE NONE
      BY DEF ApInv, RunInv
    <3>2. b \in CpuSlots
      BY SlotsAre
    <3>3. CASE b = a
      BY <3>1, <3>2, <3>3, <1>3, <1>9
    <3>4. CASE b # a
      BY <3>1, <3>2, <3>4, <1>3, <1>8, <1>9
    <3> QED
      BY <3>3, <3>4
  <2>2. ASSUME NEW b \in Aps, ap'[b] = "Done" \/ state'[b] = "DONE"
        PROVE  /\ ended'[job'[b].form] \in Reasons
               /\ job'[b].reason = encode_reason(ended'[job'[b].form])
    <3>1. CASE b = a
      BY <3>1, <1>1, <1>6, <1>8, <1>9 DEF f, code
    <3>2. CASE b # a
      <4>1. ap[b] = "Done" \/ state[b] = "DONE"
        BY <2>2, <3>2, <1>3, <1>9
      <4>2. state[b] \in Held
        BY <4>1 DEF ApInv, RunInv, Held
      <4>3. job[b].form \in Forms /\ job[b].form # f
        BY <4>2, <3>2, <1>6, RunningIsPending
      <4>4. job'[b].form = job[b].form /\ job'[b].reason = job[b].reason
            /\ ended'[job[b].form] = ended[job[b].form]
        BY <4>3, <3>2, <1>8, <1>9, SlotsAre
      <4> QED
        BY <4>1, <4>4 DEF ApInv, RunInv
    <3> QED
      BY <3>1, <3>2
  <2>3. active'[0] = IF bsp'.pc = "local" THEN Head(todo')[2] ELSE NONE
    BY <1>1, <1>3, <1>9, SlotsAre DEF ApInv, RunInv, Form
  <2>4. \A g \in Forms : returned'[g] # "None" => returned'[g] = ended'[g]
    BY <1>3, <1>6, <1>9 DEF ApInv, RunInv
  <2> QED
    BY <2>1, <2>2, <2>3, <2>4 DEF RunInv, Form
<1> QED
  BY <1>11, <1>12, <1>13, <1>14, <1>15, <1>16 DEF ApInv

LEMMA PublishDoneKeeps == ASSUME ApInv, NEW a \in Aps, PublishDone(a) PROVE ApInv'
<1>1. ap_slot[a] = a /\ a \in CpuSlots /\ a # 0
  BY OwnSlot DEF PublishDone, Up
<1>2. /\ ap[a] = "Done"
      /\ state' = [state EXCEPT ![a] = "DONE"]
      /\ ap' = [ap EXCEPT ![a] = "Loop"]
      /\ UNCHANGED <<mailbox, online, ap_slot, job, next_ap, bsp, todo, pending,
                     active, ended, returned>>
  BY <1>1 DEF PublishDone, start, slices
<1>3. ApType /\ ApTypeOK /\ BootInv
  BY DEF ApInv, ApType
<1>4. state[a] = "RUNNING"
  BY <1>2 DEF ApInv, RunInv
<1>5. /\ \A b \in Aps : ap'[b] = IF b = a THEN "Loop" ELSE ap[b]
      /\ \A c \in CpuSlots : state'[c] = IF c = a THEN "DONE" ELSE state[c]
  BY <1>1, <1>2, <1>3 DEF ApTypeOK
<1>6. ApType'
  BY <1>1, <1>2, <1>3 DEF ApType, ApTypeOK
<1>7. BootInv'
  BY <1>2, <1>3, <1>5 DEF BootInv, Up
<1>8. GoodTodo(todo, pending, returned)'
  BY <1>2 DEF ApInv
<1>9. CallInv'
  BY <1>2 DEF ApInv, CallInv, Form
<1>10. SlotInv'
  BY <1>1, <1>2, <1>3, <1>4, <1>5, SlotsAre DEF ApInv, SlotInv, Held, ApTypeOK
<1>11. RunInv'
  BY <1>1, <1>2, <1>4, <1>5, SlotsAre DEF ApInv, RunInv, Form
<1> QED
  BY <1>6, <1>7, <1>8, <1>9, <1>10, <1>11 DEF ApInv

-----------------------------------------------------------------------------
(* The side of the BSP.                                                    *)

\* The shell's prompt: nothing is pending and every slot is idle.
LEMMA ShellIsIdle ==
    ASSUME ApInv, todo = << >>, bsp.pc # "fill"
    PROVE  /\ \A f \in Forms : pending[f] = 0
           /\ \A s \in CpuSlots : state[s] = "IDLE"
<1>1. \A f \in Forms : pending[f] = 0
  BY DEF ApInv, GoodTodo, Due
<1>2. ASSUME NEW s \in CpuSlots PROVE state[s] = "IDLE"
  BY <1>1 DEF ApInv, SlotInv, Held, ApType, ApTypeOK
<1> QED
  BY <1>1, <1>2

LEMMA OneSliceGood ==
    ASSUME NEW f \in Forms, NEW pend \in [Forms -> CpuSlots], \A g \in Forms : pend[g] = 0
    PROVE  /\ OneSlice(f) \in Seq(Calls) /\ OneSlice(f) # << >>
           /\ GoodTodo(OneSlice(f), pend, [g \in Forms |-> "None"])
  BY DEF OneSlice, Calls, GoodTodo, Due

LEMMA ParallelGood ==
    ASSUME NEW l \in Forms, NEW r \in Forms, l # r,
           NEW pend \in [Forms -> CpuSlots], \A g \in Forms : pend[g] = 0
    PROVE  /\ ParallelRound(l, r) \in Seq(Calls) /\ ParallelRound(l, r) # << >>
           /\ GoodTodo(ParallelRound(l, r), pend, [g \in Forms |-> "None"])
<1> DEFINE q == ParallelRound(l, r)
<1>1. /\ q \in Seq(Calls) /\ q # << >> /\ Len(q) = 4
      /\ q[1] = <<"submit", l>> /\ q[2] = <<"submit", r>>
      /\ q[3] = <<"finish", r>> /\ q[4] = <<"finish", l>>
  BY DEF ParallelRound, Calls
<1> HIDE DEF q
<1>2. 1..Len(q) = {1, 2, 3, 4}
  BY <1>1
<1>3. \A i, j \in 1..Len(q) : q[i] = q[j] => i = j
  BY <1>1, <1>2
<1>4. ASSUME NEW i \in 1..Len(q), NEW f \in Forms, q[i] = <<"submit", f>>
      PROVE  pend[f] = 0 /\ \E j \in 1..Len(q) : j > i /\ q[j] = <<"finish", f>>
  <2>1. CASE i = 1
    <3>1. f = l /\ 4 \in 1..Len(q) /\ 4 > i
      BY <2>1, <1>1, <1>4
    <3> QED
      BY <3>1, <1>1
  <2>2. CASE i = 2
    <3>1. f = r /\ 3 \in 1..Len(q) /\ 3 > i
      BY <2>2, <1>1, <1>4
    <3> QED
      BY <3>1, <1>1
  <2>3. i = 1 \/ i = 2
    BY <1>1, <1>2, <1>4
  <2> QED
    BY <2>1, <2>2, <2>3
<1>5. GoodTodo(q, pend, [g \in Forms |-> "None"])
  BY <1>3, <1>4 DEF GoodTodo
<1> QED
  BY <1>1, <1>5 DEF q

LEMMA CommandKeeps == ASSUME ApInv, Command PROVE ApInv'
<1>1. /\ bsp.pc = "shell" /\ bsp' = [bsp EXCEPT !.pc = "call"]
      /\ ended' = [f \in Forms |-> "None"] /\ returned' = [f \in Forms |-> "None"]
      /\ UNCHANGED <<mailbox, online, ap_slot, ap, state, job, next_ap, pending, active>>
  BY DEF Command, start, jobs
<1>2. ApType /\ ApTypeOK /\ BootInv /\ todo = << >>
  BY <1>1 DEF ApInv, ApType, CallInv
<1>3. /\ \A f \in Forms : pending[f] = 0
      /\ \A s \in CpuSlots : state[s] = "IDLE"
  BY <1>1, <1>2, ShellIsIdle
<1>4. pending \in [Forms -> CpuSlots]
  BY <1>2 DEF ApTypeOK
<1>5. /\ todo' \in Seq(Calls) /\ todo' # << >>
      /\ GoodTodo(todo', pending, [g \in Forms |-> "None"])
  <2>1. CASE \E f \in Forms : todo' = OneSlice(f)
    BY <2>1, <1>3, <1>4, OneSliceGood
  <2>2. CASE \E l, r \in Forms : l # r /\ todo' = ParallelRound(l, r)
    BY <2>2, <1>3, <1>4, ParallelGood
  <2> QED
    BY <2>1, <2>2 DEF Command
<1>6. bsp'.pc = "call" /\ bsp'.slot = bsp.slot
      /\ bsp' \in [pc : {"start", "wait", "shell", "call", "fill", "local"}, slot : 0..CPUS]
  BY <1>1, <1>2 DEF ApTypeOK
<1>7. ApType'
  BY <1>1, <1>2, <1>5, <1>6 DEF ApType, ApTypeOK, Ends
<1>8. BootInv'
  BY <1>1, <1>2, <1>6 DEF BootInv
<1>9. GoodTodo(todo, pending, returned)'
  BY <1>1, <1>5
<1>10. CallInv'
  BY <1>6 DEF CallInv
<1>11. SlotInv'
  BY <1>1, <1>3, <1>6 DEF ApInv, SlotInv
<1>12. RunInv'
  BY <1>1, <1>3, <1>6, SlotsAre DEF ApInv, RunInv
<1> QED
  BY <1>7, <1>8, <1>9, <1>10, <1>11, <1>12 DEF ApInv

\* The call at the head of what is left.
LEMMA HeadIs ==
    ASSUME ApInv, todo # << >>
    PROVE  /\ Form \in Forms /\ Head(todo) = todo[1]
           /\ todo[1] = <<"submit", Form>> \/ todo[1] = <<"finish", Form>>
           /\ Head(todo)[1] = "submit" <=> todo[1] = <<"submit", Form>>
           /\ todo \in Seq(Calls) /\ Tail(todo) \in Seq(Calls)
<1>1. todo \in Seq(Calls)
  BY DEF ApInv, ApType
<1>2. Head(todo) = todo[1] /\ todo[1] \in Calls /\ Tail(todo) \in Seq(Calls)
  BY <1>1, TailIs
<1> QED
  BY <1>1, <1>2, CallIs DEF Form

LEMMA AdvancedTyped == ASSUME next_ap \in 0..AP_WRAP - 1 PROVE Advanced \in 0..AP_WRAP - 1
  BY ApAssumption DEF Advanced

LEMMA ReserveKeeps == ASSUME ApInv, Reserve PROVE ApInv'
<1>1. PICK s \in 1..workers : /\ IdleSlot(s) /\ state' = [state EXCEPT ![s] = "RESERVED"]
                               /\ bsp' = [pc |-> "fill", slot |-> s]
  BY DEF Reserve, Reserved
<1>2. /\ bsp.pc = "call" /\ todo # << >> /\ pending[Form] = 0 /\ next_ap' = Advanced
      /\ UNCHANGED <<mailbox, online, ap_slot, ap, job, todo, pending, active, ended, returned>>
  BY DEF Reserve, Submitting, start, slices
<1>3. ApType /\ ApTypeOK /\ BootInv
  BY DEF ApInv, ApType
<1>4. workers \in Nat /\ workers <= CPUS - 1
  BY <1>3, WorkersBounded DEF ApTypeOK, BootInv
<1>5. s \in Aps /\ s \in CpuSlots /\ s # 0 /\ state[s] = "IDLE"
  BY <1>1, <1>4, ApAssumption, SlotsAre DEF Aps, IdleSlot
<1>6. bsp'.pc = "fill" /\ bsp'.slot = s
      /\ bsp' \in [pc : {"start", "wait", "shell", "call", "fill", "local"}, slot : 0..CPUS]
  BY <1>1, <1>5, SlotsAre, ApAssumption
<1>7. \A c \in CpuSlots : state'[c] = IF c = s THEN "RESERVED" ELSE state[c]
  BY <1>1, <1>3, <1>5 DEF ApTypeOK
<1>8. ApType'
  BY <1>1, <1>2, <1>3, <1>5, <1>6, AdvancedTyped DEF ApType, ApTypeOK
<1>9. BootInv'
  BY <1>2, <1>3, <1>6 DEF BootInv
<1>10. GoodTodo(todo, pending, returned)'
  BY <1>2 DEF ApInv
<1>11. CallInv'
  BY <1>2, <1>5, <1>6 DEF CallInv, Form
<1>12. SlotInv'
  <2>1. state'[0] = "IDLE"
    BY <1>5, <1>7, SlotsAre DEF ApInv, SlotInv
  <2>2. ASSUME NEW f \in Forms, pending'[f] # 0
        PROVE  state'[pending'[f]] \in Held /\ job'[pending'[f]].form = f
    <3>1. /\ pending[f] \in CpuSlots /\ state[pending[f]] \in Held
          /\ job[pending[f]].form = f
      BY <2>2, <1>2, <1>3 DEF ApInv, SlotInv, ApTypeOK
    <3>2. pending[f] # s
      BY <3>1, <1>5 DEF Held
    <3> QED
      BY <3>1, <3>2, <1>2, <1>7
  <2>3. ASSUME NEW c \in CpuSlots
        PROVE  /\ state'[c] \in Held => \E f \in Forms : pending'[f] = c
               /\ state'[c] = "RESERVED" <=> bsp'.pc = "fill" /\ bsp'.slot = c
    BY <1>2, <1>6, <1>7 DEF ApInv, SlotInv, Held
  <2>4. \A f, g \in Forms : pending'[f] # 0 /\ pending'[f] = pending'[g] => f = g
    BY <1>2 DEF ApInv, SlotInv
  <2> QED
    BY <2>1, <2>2, <2>3, <2>4 DEF SlotInv
<1>13. RunInv'
  <2>1. ASSUME NEW a \in Aps
        PROVE  /\ state'[a] = "RUNNING" <=> ap'[a] \in {"Form", "Done"}
               /\ active'[a] = IF ap'[a] = "Form" THEN job'[a].form ELSE NONE
               /\ ap'[a] = "Done" \/ state'[a] = "DONE" =>
                    /\ ended'[job'[a].form] \in Reasons
                    /\ job'[a].reason = encode_reason(ended'[job'[a].form])
    BY <1>2, <1>5, <1>7, SlotsAre DEF ApInv, RunInv
  <2>2. active'[0] = NONE
    BY <1>2 DEF ApInv, RunInv
  <2>3. \A f \in Forms : returned'[f] # "None" => returned'[f] = ended'[f]
    BY <1>2 DEF ApInv, RunInv
  <2> QED
    BY <2>1, <2>2, <2>3, <1>6 DEF RunInv
<1> QED
  BY <1>8, <1>9, <1>10, <1>11, <1>12, <1>13 DEF ApInv

LEMMA SubmitKeeps == ASSUME ApInv, Submit PROVE ApInv'
<1> DEFINE s == bsp.slot
           f == Form
<1>1. /\ bsp.pc = "fill"
      /\ job' = [job EXCEPT ![s].form = f]
      /\ state' = [state EXCEPT ![s] = "READY"]
      /\ pending' = [pending EXCEPT ![f] = s]
      /\ todo' = IF Head(todo)[1] = "submit" THEN Tail(todo) ELSE todo
      /\ bsp' = [pc |-> "call", slot |-> 0]
      /\ UNCHANGED <<mailbox, online, ap_slot, ap, next_ap, active, ended, returned>>
  BY DEF Submit, start, slices
<1>2. ApType /\ ApTypeOK /\ BootInv
  BY DEF ApInv, ApType
<1>3. todo # << >> /\ pending[f] = 0 /\ s \in Aps /\ s \in CpuSlots /\ s # 0
  BY <1>1, SlotsAre DEF ApInv, CallInv
<1>4. /\ f \in Forms /\ todo \in Seq(Calls) /\ Tail(todo) \in Seq(Calls)
      /\ todo[1] = <<"submit", f>> \/ todo[1] = <<"finish", f>>
      /\ Head(todo)[1] = "submit" <=> todo[1] = <<"submit", f>>
  BY <1>3, HeadIs
<1>5. state[s] = "RESERVED"
  BY <1>1, <1>3 DEF ApInv, SlotInv
<1> HIDE DEF s, f
<1>6. /\ job' \in [CpuSlots -> [form : Forms \cup {NONE}, reason : 0..4]]
      /\ \A c \in CpuSlots : /\ job'[c].form = IF c = s THEN f ELSE job[c].form
                             /\ job'[c].reason = job[c].reason
  <2>1. job \in [CpuSlots -> [form : Forms \cup {NONE}, reason : 0..4]]
    BY <1>2 DEF ApTypeOK
  <2> DEFINE filled == [job[s] EXCEPT !.form = f]
  <2>2. job' = [job EXCEPT ![s] = filled]
    BY <1>1
  <2>3. filled \in [form : Forms \cup {NONE}, reason : 0..4]
        /\ filled.form = f /\ filled.reason = job[s].reason
    BY <2>1, <1>3, <1>4
  <2> HIDE DEF filled
  <2>4. \A c \in CpuSlots : job'[c] = IF c = s THEN filled ELSE job[c]
    BY <2>1, <2>2, <1>3
  <2>5. job' \in [CpuSlots -> [form : Forms \cup {NONE}, reason : 0..4]]
    BY <2>1, <2>2, <2>3
  <2> QED
    BY <2>3, <2>4, <2>5
<1>7. /\ \A c \in CpuSlots : state'[c] = IF c = s THEN "READY" ELSE state[c]
      /\ \A g \in Forms : pending'[g] = IF g = f THEN s ELSE pending[g]
  BY <1>1, <1>2, <1>3, <1>4 DEF ApTypeOK
<1>8. bsp'.pc = "call" /\ bsp'.slot = 0
      /\ bsp' \in [pc : {"start", "wait", "shell", "call", "fill", "local"}, slot : 0..CPUS]
  BY <1>1, ApAssumption
<1>9. ApType'
  BY <1>1, <1>2, <1>3, <1>4, <1>6, <1>8 DEF ApType, ApTypeOK
<1>10. BootInv'
  BY <1>1, <1>2, <1>8 DEF BootInv
<1>11. GoodTodo(todo, pending, returned)'
  <2>1. pending \in [Forms -> CpuSlots] /\ returned \in [Forms -> Ends]
        /\ GoodTodo(todo, pending, returned)
    BY <1>2 DEF ApType, ApTypeOK, ApInv
  <2>2. CASE todo[1] = <<"submit", f>>
    BY <2>1, <2>2, <1>1, <1>3, <1>4, SubmitHead
  <2>3. CASE todo[1] = <<"finish", f>>
    <3>1. "None" \in Ends /\ todo' = todo
      BY <2>3, <1>1, <1>4 DEF Ends
    <3> QED
      BY <2>1, <2>3, <3>1, <1>1, <1>3, <1>4, FinishHead
  <2> QED
    BY <2>2, <2>3, <1>4
<1>12. CallInv'
  BY <1>8 DEF CallInv
<1>13. SlotInv'
  <2>0. \A g \in Forms : pending[g] \in CpuSlots /\ pending[g] # s
    BY <1>2, <1>3, <1>5 DEF ApInv, SlotInv, Held, ApTypeOK
  <2>1. state'[0] = "IDLE"
    BY <1>3, <1>7, SlotsAre DEF ApInv, SlotInv
  <2>2. \A g, h \in Forms : pending'[g] # 0 /\ pending'[g] = pending'[h] => g = h
    BY <2>0, <1>7 DEF ApInv, SlotInv
  <2>3. ASSUME NEW g \in Forms, pending'[g] # 0
        PROVE  state'[pending'[g]] \in Held /\ job'[pending'[g]].form = g
    <3>1. CASE g = f
      BY <3>1, <1>3, <1>6, <1>7 DEF Held
    <3>2. CASE g # f
      BY <3>2, <2>0, <2>3, <1>6, <1>7 DEF ApInv, SlotInv
    <3> QED
      BY <3>1, <3>2
  <2>4. ASSUME NEW c \in CpuSlots, state'[c] \in Held PROVE \E g \in Forms : pending'[g] = c
    <3>1. CASE c = s
      BY <3>1, <1>4, <1>7
    <3>2. CASE c # s
      <4>1. PICK g \in Forms : pending[g] = c
        BY <3>2, <2>4, <1>7 DEF ApInv, SlotInv
      <4>2. c # 0
        BY <2>1, <2>4 DEF Held
      <4> QED
        BY <4>1, <4>2, <1>3, <1>7
    <3> QED
      BY <3>1, <3>2
  <2>5. \A c \in CpuSlots : state'[c] # "RESERVED"
    BY <1>1, <1>7 DEF ApInv, SlotInv, s
  <2> QED
    BY <2>1, <2>2, <2>3, <2>4, <2>5, <1>8 DEF SlotInv
<1>14. RunInv'
  <2>1. ASSUME NEW a \in Aps
        PROVE  /\ state'[a] = "RUNNING" <=> ap'[a] \in {"Form", "Done"}
               /\ active'[a] = IF ap'[a] = "Form" THEN job'[a].form ELSE NONE
               /\ ap'[a] = "Done" \/ state'[a] = "DONE" =>
                    /\ ended'[job'[a].form] \in Reasons
                    /\ job'[a].reason = encode_reason(ended'[job'[a].form])
    BY <1>1, <1>5, <1>6, <1>7, SlotsAre DEF ApInv, RunInv
  <2>2. active'[0] = NONE
    BY <1>1 DEF ApInv, RunInv
  <2>3. \A g \in Forms : returned'[g] # "None" => returned'[g] = ended'[g]
    BY <1>1 DEF ApInv, RunInv
  <2> QED
    BY <2>1, <2>2, <2>3, <1>8 DEF RunInv
<1> QED
  BY <1>9, <1>10, <1>11, <1>12, <1>13, <1>14 DEF ApInv

LEMMA NoIdleSlotKeeps == ASSUME ApInv, NoIdleSlot PROVE ApInv'
<1>1. /\ bsp.pc = "call" /\ todo # << >> /\ pending[Form] = 0
      /\ next_ap' = IF workers > 0 THEN Advanced ELSE next_ap
      /\ UNCHANGED <<mailbox, online, ap_slot, ap, state, job, pending, ended, returned>>
  BY DEF NoIdleSlot, Submitting, start
<1>2. ApType /\ ApTypeOK /\ BootInv
  BY DEF ApInv, ApType
<1>3. /\ Form \in Forms /\ todo \in Seq(Calls) /\ Tail(todo) \in Seq(Calls)
      /\ todo[1] = <<"submit", Form>> \/ todo[1] = <<"finish", Form>>
      /\ Head(todo)[1] = "submit" <=> todo[1] = <<"submit", Form>>
      /\ Head(todo) = todo[1]
  BY <1>1, HeadIs
<1>4. next_ap' \in 0..AP_WRAP - 1
  BY <1>1, <1>2, AdvancedTyped DEF ApTypeOK
<1>5. CASE Head(todo)[1] = "submit"
  <2>1. todo' = Tail(todo) /\ UNCHANGED <<bsp, active>>
    BY <1>5 DEF NoIdleSlot
  <2>2. ApType'
    BY <2>1, <1>1, <1>2, <1>3, <1>4 DEF ApType, ApTypeOK
  <2>3. BootInv'
    BY <2>1, <1>1, <1>2 DEF BootInv
  <2>4. GoodTodo(todo, pending, returned)'
    <3>1. pending \in [Forms -> CpuSlots] /\ returned \in [Forms -> Ends]
          /\ GoodTodo(todo, pending, returned)
      BY <1>2 DEF ApType, ApTypeOK, ApInv
    <3>2. todo[1] = <<"submit", Form>> /\ 0 \in CpuSlots
      BY <1>3, <1>5, SlotsAre
    <3> QED
      BY <3>1, <3>2, <2>1, <1>1, <1>3, SubmitHead
  <2>5. CallInv' /\ SlotInv'
    BY <2>1, <1>1 DEF ApInv, CallInv, SlotInv
  <2>6. RunInv'
    BY <2>1, <1>1 DEF ApInv, RunInv
  <2> QED
    BY <2>2, <2>3, <2>4, <2>5, <2>6 DEF ApInv
<1>6. CASE Head(todo)[1] # "submit"
  <2>1. /\ bsp' = [bsp EXCEPT !.pc = "local"]
        /\ active' = [active EXCEPT ![0] = Form]
        /\ UNCHANGED todo
    BY <1>6 DEF NoIdleSlot
  <2>2. bsp'.pc = "local" /\ bsp'.slot = bsp.slot
        /\ bsp' \in [pc : {"start", "wait", "shell", "call", "fill", "local"}, slot : 0..CPUS]
    BY <2>1, <1>2 DEF ApTypeOK
  <2>3. active' \in [CpuSlots -> Forms \cup {NONE}] /\ active'[0] = Form
        /\ \A a \in Aps : active'[a] = active[a]
    BY <2>1, <1>2, <1>3, SlotsAre DEF ApTypeOK
  <2>4. ApType'
    BY <2>1, <2>2, <2>3, <1>1, <1>2, <1>4 DEF ApType, ApTypeOK
  <2>5. BootInv'
    BY <2>1, <2>2, <1>1, <1>2 DEF BootInv
  <2>6. GoodTodo(todo, pending, returned)'
    BY <2>1, <1>1 DEF ApInv
  <2>7. CallInv'
    <3>1. Head(todo)[1] = "finish"
      BY <1>3, <1>6
    <3> QED
      BY <3>1, <2>1, <2>2, <1>1 DEF CallInv, Form
  <2>8. SlotInv'
    BY <2>2, <1>1 DEF ApInv, SlotInv
  <2>9. RunInv'
    BY <2>1, <2>2, <2>3, <1>1 DEF ApInv, RunInv, Form
  <2> QED
    BY <2>4, <2>5, <2>6, <2>7, <2>8, <2>9 DEF ApInv
<1> QED
  BY <1>5, <1>6

LEMMA EndLocalSliceKeeps == ASSUME ApInv, EndLocalSlice PROVE ApInv'
<1> DEFINE f == Form
<1>1. PICK reason \in Reasons : /\ ended' = [ended EXCEPT ![f] = reason]
                                /\ returned' = [returned EXCEPT ![f] = reason]
  BY DEF EndLocalSlice
<1>2. /\ bsp.pc = "local"
      /\ active' = [active EXCEPT ![0] = NONE]
      /\ todo' = Tail(todo)
      /\ bsp' = [bsp EXCEPT !.pc = "call"]
      /\ UNCHANGED <<mailbox, online, ap_slot, ap, state, job, next_ap, pending>>
  BY DEF EndLocalSlice, start, jobs
<1>3. ApType /\ ApTypeOK /\ BootInv
  BY DEF ApInv, ApType
<1>4. todo # << >> /\ pending[f] = 0 /\ Head(todo)[1] = "finish"
  BY <1>2 DEF ApInv, CallInv
<1>5. /\ f \in Forms /\ todo \in Seq(Calls) /\ Tail(todo) \in Seq(Calls)
      /\ todo[1] = <<"finish", f>>
  BY <1>4, HeadIs
<1> HIDE DEF f
<1>6. /\ \A g \in Forms : /\ ended'[g] = IF g = f THEN reason ELSE ended[g]
                          /\ returned'[g] = IF g = f THEN reason ELSE returned[g]
      /\ \A c \in CpuSlots : active'[c] = IF c = 0 THEN NONE ELSE active[c]
      /\ ended' \in [Forms -> Ends] /\ returned' \in [Forms -> Ends]
  BY <1>1, <1>2, <1>3, <1>5, SlotsAre DEF ApType, ApTypeOK, Ends
<1>7. bsp'.pc = "call" /\ bsp'.slot = bsp.slot
      /\ bsp' \in [pc : {"start", "wait", "shell", "call", "fill", "local"}, slot : 0..CPUS]
  BY <1>2, <1>3 DEF ApTypeOK
<1>8. ApType'
  BY <1>2, <1>3, <1>5, <1>6, <1>7, SlotsAre DEF ApType, ApTypeOK
<1>9. BootInv'
  BY <1>2, <1>3, <1>7 DEF BootInv
<1>10. GoodTodo(todo, pending, returned)'
  <2>1. /\ pending \in [Forms -> CpuSlots] /\ returned \in [Forms -> Ends]
        /\ GoodTodo(todo, pending, returned) /\ reason \in Ends
    BY <1>3 DEF ApType, ApTypeOK, ApInv, Ends
  <2>2. [pending EXCEPT ![f] = 0] = pending
    BY <2>1, <1>4
  <2>3. GoodTodo(Tail(todo), [pending EXCEPT ![f] = 0], [returned EXCEPT ![f] = reason])
    BY <2>1, <1>4, <1>5, SlotsAre, FinishHead
  <2> QED
    BY <2>2, <2>3, <1>1, <1>2
<1>11. CallInv' /\ SlotInv'
  BY <1>2, <1>7 DEF ApInv, CallInv, SlotInv
<1>12. RunInv'
  <2>1. ASSUME NEW a \in Aps
        PROVE  /\ state'[a] = "RUNNING" <=> ap'[a] \in {"Form", "Done"}
               /\ active'[a] = IF ap'[a] = "Form" THEN job'[a].form ELSE NONE
    BY <1>2, <1>6, SlotsAre DEF ApInv, RunInv
  <2>2. ASSUME NEW a \in Aps, ap'[a] = "Done" \/ state'[a] = "DONE"
        PROVE  /\ ended'[job'[a].form] \in Reasons
               /\ job'[a].reason = encode_reason(ended'[job'[a].form])
    <3>1. state[a] \in Held
      BY <2>2, <1>2 DEF ApInv, RunInv, Held
    <3>2. job[a].form \in Forms /\ job[a].form # f
      BY <3>1, <1>4, RunningIsPending, SlotsAre
    <3> QED
      BY <2>2, <3>2, <1>2, <1>6 DEF ApInv, RunInv
  <2>3. active'[0] = NONE
    BY <1>6, SlotsAre
  <2>4. \A g \in Forms : returned'[g] # "None" => returned'[g] = ended'[g]
    BY <1>6 DEF ApInv, RunInv
  <2> QED
    BY <2>1, <2>2, <2>3, <2>4, <1>7 DEF RunInv
<1> QED
  BY <1>8, <1>9, <1>10, <1>11, <1>12 DEF ApInv

LEMMA JoinKeeps == ASSUME ApInv, Join PROVE ApInv'
<1> DEFINE f == Form
           s == pending[f]
           result == decode_reason(job[s].reason)
<1>1. /\ bsp.pc = "call" /\ todo # << >> /\ s # 0 /\ state[s] = "DONE"
      /\ returned' = [returned EXCEPT ![f] = result]
      /\ state' = [state EXCEPT ![s] = "IDLE"]
      /\ pending' = [pending EXCEPT ![f] = 0]
      /\ todo' = Tail(todo)
      /\ UNCHANGED <<mailbox, online, ap_slot, ap, job, next_ap, bsp, active, ended>>
  BY DEF Join, JobDone, start
<1>2. ApType /\ ApTypeOK /\ BootInv /\ GoodTodo(todo, pending, returned)
  BY DEF ApInv, ApType
<1>3. /\ f \in Forms /\ todo \in Seq(Calls) /\ Tail(todo) \in Seq(Calls)
      /\ todo[1] = <<"submit", f>> \/ todo[1] = <<"finish", f>>
  BY <1>1, HeadIs
<1>4. s \in CpuSlots /\ s \in Aps /\ job[s].form = f
  BY <1>1, <1>2, <1>3, SlotsAre DEF ApTypeOK, ApInv, SlotInv
<1>5. ended[f] \in Reasons /\ result = ended[f]
  <2>1. ended[f] \in Reasons /\ job[s].reason = encode_reason(ended[f])
    BY <1>1, <1>4 DEF ApInv, RunInv
  <2> QED
    BY <2>1, ReasonsDecode
<1> HIDE DEF f, s, result
<1>6. todo[1] = <<"finish", f>>
  <2>1. 1 \in 1..Len(todo)
    BY <1>1, <1>3, TailIs
  <2>2. todo[1] # <<"submit", f>>
    BY <2>1, <1>1, <1>2, <1>3 DEF GoodTodo, s
  <2> QED
    BY <2>2, <1>3
<1>7. /\ \A c \in CpuSlots : state'[c] = IF c = s THEN "IDLE" ELSE state[c]
      /\ \A g \in Forms : /\ pending'[g] = IF g = f THEN 0 ELSE pending[g]
                          /\ returned'[g] = IF g = f THEN result ELSE returned[g]
  BY <1>1, <1>2, <1>3, <1>4 DEF ApType, ApTypeOK
<1>8. ApType'
  <2>1. returned' \in [Forms -> Ends] /\ pending' \in [Forms -> CpuSlots]
        /\ state' \in [CpuSlots -> {"IDLE", "RESERVED", "READY", "RUNNING", "DONE"}]
    BY <1>1, <1>2, <1>3, <1>4, <1>5, SlotsAre DEF ApType, ApTypeOK, Ends
  <2> QED
    BY <2>1, <1>1, <1>2, <1>3 DEF ApType, ApTypeOK
<1>9. BootInv'
  BY <1>1, <1>2 DEF BootInv
<1>10. GoodTodo(todo, pending, returned)'
  <2>1. pending \in [Forms -> CpuSlots] /\ returned \in [Forms -> Ends] /\ result \in Ends
    BY <1>2, <1>5 DEF ApType, ApTypeOK, Ends
  <2>2. GoodTodo(Tail(todo), [pending EXCEPT ![f] = 0], [returned EXCEPT ![f] = result])
    BY <2>1, <1>1, <1>2, <1>3, <1>6, SlotsAre, FinishHead
  <2> QED
    BY <2>2, <1>1
<1>11. CallInv'
  BY <1>1 DEF CallInv
<1>12. SlotInv'
  <2>1. state'[0] = "IDLE"
    BY <1>7, SlotsAre DEF ApInv, SlotInv
  <2>2. \A g, h \in Forms : pending'[g] # 0 /\ pending'[g] = pending'[h] => g = h
    BY <1>7 DEF ApInv, SlotInv
  <2>3. ASSUME NEW g \in Forms, pending'[g] # 0
        PROVE  state'[pending'[g]] \in Held /\ job'[pending'[g]].form = g
    <3>1. g # f /\ pending'[g] = pending[g] /\ pending[g] \in CpuSlots
      BY <2>3, <1>2, <1>7 DEF ApTypeOK
    <3>2. pending[g] # s
      BY <3>1, <1>1, <1>3 DEF ApInv, SlotInv, s
    <3> QED
      BY <2>3, <3>1, <3>2, <1>1, <1>7 DEF ApInv, SlotInv
  <2>4. ASSUME NEW c \in CpuSlots, state'[c] \in Held PROVE \E g \in Forms : pending'[g] = c
    <3>1. c # s /\ state[c] \in Held
      BY <2>4, <1>7 DEF Held
    <3>2. PICK g \in Forms : pending[g] = c
      BY <3>1 DEF ApInv, SlotInv
    <3>3. g # f
      BY <3>1, <3>2 DEF s
    <3> QED
      BY <3>2, <3>3, <1>7
  <2>5. \A c \in CpuSlots : state'[c] = "RESERVED" <=> bsp'.pc = "fill" /\ bsp'.slot = c
    BY <1>1, <1>7 DEF ApInv, SlotInv
  <2> QED
    BY <2>1, <2>2, <2>3, <2>4, <2>5 DEF SlotInv
<1>13. RunInv'
  <2>1. ASSUME NEW a \in Aps
        PROVE  /\ state'[a] = "RUNNING" <=> ap'[a] \in {"Form", "Done"}
               /\ active'[a] = IF ap'[a] = "Form" THEN job'[a].form ELSE NONE
               /\ ap'[a] = "Done" \/ state'[a] = "DONE" =>
                    /\ ended'[job'[a].form] \in Reasons
                    /\ job'[a].reason = encode_reason(ended'[job'[a].form])
    BY <1>1, <1>7, SlotsAre DEF ApInv, RunInv
  <2>2. active'[0] = NONE
    BY <1>1 DEF ApInv, RunInv
  <2>3. \A g \in Forms : returned'[g] # "None" => returned'[g] = ended'[g]
    BY <1>1, <1>5, <1>7 DEF ApInv, RunInv
  <2> QED
    BY <2>1, <2>2, <2>3, <1>1 DEF RunInv
<1> QED
  BY <1>8, <1>9, <1>10, <1>11, <1>12, <1>13 DEF ApInv

LEMMA ReturnKeeps == ASSUME ApInv, Return PROVE ApInv'
<1>1. /\ bsp.pc = "call" /\ todo = << >>
      /\ bsp' = [bsp EXCEPT !.pc = "shell"]
      /\ UNCHANGED <<mailbox, online, ap_slot, ap, state, job, next_ap, todo, pending,
                     active, ended, returned>>
  BY DEF Return, start, jobs, slices
<1>2. ApType /\ ApTypeOK /\ BootInv
  BY DEF ApInv, ApType
<1>3. bsp'.pc = "shell" /\ bsp'.slot = bsp.slot
      /\ bsp' \in [pc : {"start", "wait", "shell", "call", "fill", "local"}, slot : 0..CPUS]
  BY <1>1, <1>2 DEF ApTypeOK
<1>4. ApType'
  BY <1>1, <1>2, <1>3 DEF ApType, ApTypeOK
<1>5. BootInv'
  BY <1>1, <1>2, <1>3 DEF BootInv
<1>6. GoodTodo(todo, pending, returned)'
  BY <1>1 DEF ApInv
<1>7. CallInv'
  BY <1>1, <1>3 DEF CallInv
<1>8. SlotInv' /\ RunInv'
  BY <1>1, <1>3 DEF ApInv, SlotInv, RunInv
<1> QED
  BY <1>4, <1>5, <1>6, <1>7, <1>8 DEF ApInv

LEMMA ApInvariant == ASSUME Late \subseteq {CPUS - 1} PROVE ApSpec => []ApInv
<1>1. ASSUME ApInv, [ApNext]_apVars PROVE ApInv'
  <2>1. CASE UNCHANGED apVars
    <3>1. UNCHANGED <<mailbox, online, ap_slot, ap, state, job, next_ap, bsp, todo, pending,
                      active, ended, returned>>
      BY <2>1 DEF apVars, start, jobs, slices
    <3>2. ApType' /\ BootInv' /\ CallInv'
      BY <1>1, <3>1 DEF ApInv, ApType, ApTypeOK, BootInv, CallInv, Form
    <3>3. GoodTodo(todo, pending, returned)'
      BY <1>1, <3>1 DEF ApInv
    <3>4. SlotInv' /\ RunInv'
      BY <1>1, <3>1 DEF ApInv, SlotInv, RunInv, Form
    <3> QED
      BY <3>2, <3>3, <3>4 DEF ApInv
  <2>2. CASE BspStep
    BY <1>1, <2>2, StartApKeeps, EndWaitKeeps, StartedKeeps, ReserveKeeps, SubmitKeeps,
       NoIdleSlotKeeps, EndLocalSliceKeeps, JoinKeeps, ReturnKeeps DEF BspStep
  <2>3. CASE Command
    BY <1>1, <2>3, CommandKeeps
  <2>4. CASE \E a \in Aps : ApBoot(a) \/ ApRun(a)
    BY <1>1, <2>4, TrampolineKeeps, EntryKeeps, TakeJobKeeps, EndSliceKeeps,
       PublishDoneKeeps DEF ApBoot, ApRun
  <2> QED
    BY <1>1, <2>1, <2>2, <2>3, <2>4 DEF ApNext
<1> QED
  BY <1>1, ApInitInv, PTL DEF ApSpec

-----------------------------------------------------------------------------
(* The theorems.                                                           *)

\* Every processor that came up has a slot and a stack of its own, for any number of
\* processors of which at most the last is late (smp.rs initialize).
THEOREM OwnStacks == ASSUME Late \subseteq {CPUS - 1} PROVE ApSpec => [](ApTypeOK /\ SlotsDistinct)
<1>1. ApInv => ApTypeOK /\ SlotsDistinct
  BY DEF ApInv, ApType, BootInv, SlotsDistinct, Up
<1> QED
  BY <1>1, ApInvariant, PTL

\* No two processors run the same Form (submit_ap_slice, run_ap_work, run_slice).
THEOREM OneCpuPerForm == ASSUME Late \subseteq {CPUS - 1} PROVE ApSpec => []FormOnOneCpu
<1>1. ApInv => FormOnOneCpu
  <2> SUFFICES ASSUME ApInv, NEW c \in CpuSlots, NEW d \in CpuSlots,
                      active[c] # NONE, active[c] = active[d]
               PROVE  c = d
    BY DEF FormOnOneCpu
  <2>1. ASSUME NEW e \in Aps, active[e] # NONE PROVE pending[active[e]] = e
    <3>1. ap[e] = "Form" /\ active[e] = job[e].form /\ state[e] \in Held
      BY <2>1 DEF ApInv, RunInv, Held
    <3> QED
      BY <3>1, RunningIsPending
  <2>2. active[0] # NONE => pending[active[0]] = 0
    BY DEF ApInv, RunInv, CallInv
  <2> QED
    BY <2>1, <2>2, SlotsAre
<1> QED
  BY <1>1, ApInvariant, PTL

\* A command is told how its own slices ended and leaves every slot idle
\* (join_ap_slice, execute-parallel).
THEOREM OwnResults == ASSUME Late \subseteq {CPUS - 1} PROVE ApSpec => []ResultsAreOwn
<1>1. ApInv => ResultsAreOwn
  <2> SUFFICES ASSUME ApInv PROVE ResultsAreOwn
    OBVIOUS
  <2>1. bsp.pc = "shell" => \A s \in CpuSlots : state[s] = "IDLE"
    BY ShellIsIdle DEF ApInv, CallInv
  <2> QED
    BY <2>1 DEF ApInv, RunInv, ResultsAreOwn
<1> QED
  BY <1>1, ApInvariant, PTL

\* What a command runs in parallel is its own: slots and stacks, processors and
\* results, for any number of processors of which at most the last is late.
THEOREM ParallelSlicesAreOwn == ASSUME Late \subseteq {CPUS - 1} PROVE ApSpec => []SlicesAreOwn
<1>1. ApTypeOK /\ SlotsDistinct /\ FormOnOneCpu /\ ResultsAreOwn => SlicesAreOwn
  BY DEF SlicesAreOwn
<1> QED
  BY <1>1, OwnStacks, OneCpuPerForm, OwnResults, PTL
=============================================================================
