----------------------------- MODULE ShellForms -----------------------------
(***************************************************************************)
(* Form contents in ExpFS: chunked blobs (expos-core blob.rs), and the     *)
(* operations of kernel/src/expfs_store.rs that replace the published      *)
(* snapshot: named saves, and blob streams whose writes are private until  *)
(* they are committed against the revision they were opened at.            *)
(*                                                                         *)
(* A commit of the store is one step here, done or failed: module          *)
(* ExpfsStore shows that it is atomic on the disk.  Every snapshot is      *)
(* encoded before it is written, which reads every blob to its length; a   *)
(* read beyond the chunks a blob has is an index panic and stops the       *)
(* kernel.  Bytes are a few letters, a text is a short sequence of them.   *)
(***************************************************************************)
EXTENDS Naturals, Sequences, FiniteSetsExt, Tables

CONSTANTS
    FormNames,              \* names of Forms other than Root
    Texts,                  \* contents a save or a shell command brings
    Patches,                \* contents a stream write brings
    BLOB_CHUNK_BYTES,
    FORM_CONTENT_CAPACITY,
    CFC_CONTENT_CAPACITY,
    MAX_FORMS,
    MAX_BLOB_STREAMS,
    MaxStreamId,            \* bound: streams opened since the boot
    MaxSequence             \* bound: journal sequences published

VARIABLES
    snapshot,     \* the published snapshot
    streams,      \* STREAMS: open blob streams
    nextStreamId, \* NEXT_STREAM_ID
    halted        \* the kernel has panicked

storeVars == <<snapshot, streams, nextStreamId, halted>>

-----------------------------------------------------------------------------
(* Chunked blobs: the chunks' cells, zero where nothing was written, and   *)
(* the length of the content.                                              *)

Zero == "0"
Chunks(length) == (length + BLOB_CHUNK_BYTES - 1) \div BLOB_CHUNK_BYTES

\* Vec::resize_with: grows with zeroed chunks and also shrinks.
Resized(cells, chunks) ==
    [i \in 1..chunks * BLOB_CHUNK_BYTES |->
        IF i <= Len(cells) THEN cells[i] ELSE Zero]

FromBytes(bytes) ==
    [cells |-> Resized(bytes, Chunks(Len(bytes))), len |-> Len(bytes)]

BlobWrite(blob, offset, bytes) ==
    LET end == offset + Len(bytes)
        cells == Resized(blob.cells, Chunks(end))
    IN  [cells |-> [i \in DOMAIN cells |->
                      IF i \in offset + 1..end THEN bytes[i - offset] ELSE cells[i]],
         len |-> Max({blob.len, end})]

\* A read of the bytes up to the end position indexes chunks that exist.
Readable(blob, end) == end <= Len(blob.cells)
Holds(blob) == Readable(blob, blob.len)
ToVec(blob) == SubSeq(blob.cells, 1, blob.len)

-----------------------------------------------------------------------------
(* Snapshots.                                                              *)

StoredForm(fin, name, kind, life, revision, content) ==
    [fin |-> fin, name |-> name, kind |-> kind, life |-> life,
     revision |-> revision, content |-> content]

EmptySnapshot ==
    [exists |-> FALSE, graph |-> FALSE, forms |-> EmptyTable,
     next_fin |-> 2, sequence |-> 1]

Named(forms, name) == {i \in DOMAIN forms : forms[i].name = name}
WithFin(forms, fin) == {i \in DOMAIN forms : forms[i].fin = fin}
First(slots) == {i \in slots : \A j \in slots : i <= j}

validate_snapshot(next) ==
    /\ \A i \in DOMAIN next.forms : next.forms[i].content.len <= FORM_CONTENT_CAPACITY
    /\ MapThenSumSet(LAMBDA i : next.forms[i].content.len, DOMAIN next.forms)
         <= CFC_CONTENT_CAPACITY

\* What an open stream knows of the published Form: it copied it, someone has
\* replaced it since, or the shell has published its own tables since.
Seen(stream, next, by) ==
    IF by = "shell" \/ stream.seen = "tables" THEN "tables"
    ELSE IF \E i \in WithFin(snapshot.forms, stream.form) :
              i \in DOMAIN next.forms /\ next.forms[i] = snapshot.forms[i]
         THEN stream.seen ELSE "replaced"

\* commit_locked: the encoding panics, the write fails or the snapshot is
\* published.  `left' is the table of streams without the committing one.
commit_locked(next, ok, by, left) ==
    IF \A i \in DOMAIN next.forms : Holds(next.forms[i].content)
    THEN /\ snapshot' = IF ok THEN [next EXCEPT !.exists = TRUE] ELSE snapshot
         /\ streams' = IF ok THEN [s \in DOMAIN left |->
                                     [left[s] EXCEPT !.seen = Seen(left[s], next, by)]]
                       ELSE left
         /\ UNCHANGED <<nextStreamId, halted>>
    ELSE /\ halted' = TRUE
         /\ streams' = left
         /\ UNCHANGED <<snapshot, nextStreamId>>

-----------------------------------------------------------------------------
(* Named saves: the editor, Notes, the desktop and application state.      *)

\* Mutant: a save keeps the revision of the Form it replaces.
MutantSameRevision(name, kind, bytes, i) ==
    LET old == snapshot.forms
    IN  [snapshot EXCEPT
           !.forms = Put(old, i,
               StoredForm(IF i \in DOMAIN old THEN old[i].fin ELSE snapshot.next_fin,
                          name, kind, "Active",
                          IF i \in DOMAIN old THEN old[i].revision ELSE 1,
                          FromBytes(bytes))),
           !.next_fin = IF i \in DOMAIN old THEN @ ELSE @ + 1,
           !.sequence = @ + 1]

\* The snapshot with the named Form created or revised, and its slot.  A save
\* makes a fresh Form record: the lifecycle is Active again.
Saved(name, kind, bytes, i) ==
    LET old == snapshot.forms
    IN  [snapshot EXCEPT
           !.forms = Put(old, i,
               StoredForm(IF i \in DOMAIN old THEN old[i].fin ELSE snapshot.next_fin,
                          name, kind, "Active",
                          IF i \in DOMAIN old THEN old[i].revision + 1 ELSE 1,
                          FromBytes(bytes))),
           !.next_fin = IF i \in DOMAIN old THEN @ ELSE @ + 1,
           !.sequence = @ + 1]

SaveSlot(name) ==
    IF Named(snapshot.forms, name) # {} THEN First(Named(snapshot.forms, name))
    ELSE FirstFree(snapshot.forms, MAX_FORMS)

CanSave(name, kind, bytes, i) ==
    /\ Len(bytes) <= FORM_CONTENT_CAPACITY
    /\ i \in SaveSlot(name)
    /\ i \in DOMAIN snapshot.forms => snapshot.forms[i].kind = kind
    /\ validate_snapshot(Saved(name, kind, bytes, i))

\* save_text_form, save_data_form and save_executable_form.
SaveNamedForm(name, kind, bytes) ==
    /\ ~halted /\ snapshot.sequence < MaxSequence
    /\ \E i \in SaveSlot(name) :
         /\ CanSave(name, kind, bytes, i)
         /\ \E ok \in BOOLEAN :
              commit_locked(Saved(name, kind, bytes, i), ok, "save", streams)

-----------------------------------------------------------------------------
(* Blob streams of native Forms.                                           *)

OpenBlobStream(fin, writable) ==
    /\ ~halted /\ snapshot.exists /\ nextStreamId <= MaxStreamId
    /\ \E i \in First(WithFin(snapshot.forms, fin)),
          s \in FirstFree(streams, MAX_BLOB_STREAMS) :
         streams' = Put(streams, s,
                        [id |-> nextStreamId, form |-> fin, writable |-> writable,
                         base |-> snapshot.forms[i].revision,
                         content |-> snapshot.forms[i].content, seen |-> "current"])
    /\ nextStreamId' = nextStreamId + 1
    /\ UNCHANGED <<snapshot, halted>>

\* A read copies min(count, len - offset) bytes from the offset on.
ReadBlobStream(s, offset, count) ==
    LET blob == streams[s].content IN
    /\ ~halted
    /\ halted' = (offset < blob.len /\ ~Readable(blob, Min({offset + count, blob.len})))
    /\ UNCHANGED <<snapshot, streams, nextStreamId>>

WriteBlobStream(s, offset, bytes) ==
    /\ ~halted /\ streams[s].writable
    /\ offset + Len(bytes) <= FORM_CONTENT_CAPACITY
    /\ streams' = [streams EXCEPT ![s].content = BlobWrite(@, offset, bytes)]
    /\ UNCHANGED <<snapshot, nextStreamId, halted>>

AbortBlobStream(s) ==
    /\ ~halted
    /\ streams' = Take(streams, s)
    /\ UNCHANGED <<snapshot, nextStreamId, halted>>

Unrevised(stream, i) == snapshot.forms[i].revision = stream.base

WithStream(stream, i) ==
    [snapshot EXCEPT !.forms[i].revision = @ + 1,
                     !.forms[i].content = stream.content,
                     !.sequence = @ + 1]

\* The slot is freed first, whatever the outcome.
CommitBlobStream(s) ==
    LET stream == streams[s]
        target == First(WithFin(snapshot.forms, stream.form))
        CanCommit(i) == /\ stream.writable /\ Unrevised(stream, i)
                        /\ validate_snapshot(WithStream(stream, i))
    IN  /\ ~halted /\ snapshot.sequence < MaxSequence
        /\ \/ /\ \A i \in target : ~CanCommit(i)
              /\ streams' = Take(streams, s)
              /\ UNCHANGED <<snapshot, nextStreamId, halted>>
           \/ \E i \in target :
                /\ CanCommit(i)
                /\ \E ok \in BOOLEAN :
                     commit_locked(WithStream(stream, i), ok, "stream", Take(streams, s))

StreamStep ==
    \/ \E i \in DOMAIN snapshot.forms, writable \in BOOLEAN :
         OpenBlobStream(snapshot.forms[i].fin, writable)
    \/ \E s \in DOMAIN streams :
         \/ \E offset \in 0..FORM_CONTENT_CAPACITY - 1 :
              \/ ReadBlobStream(s, offset, FORM_CONTENT_CAPACITY)
              \/ \E bytes \in Patches : WriteBlobStream(s, offset, bytes)
         \/ AbortBlobStream(s)
         \/ CommitBlobStream(s)

SaveStep ==
    \E name \in FormNames, kind \in {"Data", "Executable"}, bytes \in Texts :
       SaveNamedForm(name, kind, bytes)

\* commit_system_records: settings and accounts, with the Forms as they are.
CommitSystemRecords ==
    /\ ~halted /\ snapshot.sequence < MaxSequence
    /\ \E ok \in BOOLEAN :
         commit_locked([snapshot EXCEPT !.sequence = @ + 1], ok, "records", streams)

StoreInit ==
    /\ snapshot = EmptySnapshot
    /\ streams = EmptyTable
    /\ nextStreamId = 1
    /\ halted = FALSE

-----------------------------------------------------------------------------
(* Properties.                                                             *)

\* A stream whose Form has been replaced by a save or by another stream is
\* refused when it commits: the published revision is no longer its base
\* (commit_blob_stream).  The shell's own commits are the exception: they
\* publish the revisions of its tables.
StaleStreamsRefused ==
    \A s \in DOMAIN streams : streams[s].seen = "replaced" =>
       \A i \in WithFin(snapshot.forms, streams[s].form) :
          ~Unrevised(streams[s], i)

-----------------------------------------------------------------------------
(* The Form registry of the shell (kernel/src/shell.rs): a copy of the     *)
(* snapshot taken at boot, changed by commands and written back as a whole *)
(* by commit_action, next to the saves and streams above.                  *)
(*                                                                         *)
(* A command that the session, its Handles or the operation budget refuse  *)
(* changes nothing and is not a step.  Reclaiming may also be refused for  *)
(* relationships and Handles, which are not part of this module.  Commands *)
(* about Dimensions, Handles, relationships and policies change no Form    *)
(* and end in the same commit_action: CommitTables stands for them.        *)

CONSTANTS FormBytesLimit,  \* soft limit of Resource::FormBytes
          Space, Newline   \* bytes: append separates two texts unless a line ends

VARIABLE registry  \* [forms, next_fin, sequence, used, stage, failed]

shellFormVars == <<storeVars, registry>>

RootFin == 1
\* An entry of the registry: the Form and its text.
Entry(fin, name, kind, life, revision, text) ==
    [fin |-> fin, name |-> name, kind |-> kind, life |-> life,
     revision |-> revision, text |-> text]
BuiltIn == Put(EmptyTable, 1, Entry(RootFin, "Root", "Root", "Active", 1, <<>>))

LoadedTables(stored) == Entry(stored.fin, stored.name, stored.kind, stored.life,
                        stored.revision, ToVec(stored.content))
Stored(entry) == StoredForm(entry.fin, entry.name, entry.kind, entry.life,
                            entry.revision, FromBytes(entry.text))

NoStage == [name |-> "", ready |-> FALSE]
Used(forms) == MapThenSumSet(LAMBDA i : Len(forms[i].text), DOMAIN forms)

\* Forms that Genesis or an application saved before the shell's first commit
\* are put into free slots next to the built-in ones, in their order.
Merged ==
    [i \in 1..1 + Cardinality(DOMAIN snapshot.forms) |->
        IF i = 1 THEN BuiltIn[1]
        ELSE LoadedTables(snapshot.forms[CHOOSE j \in DOMAIN snapshot.forms :
                Cardinality({k \in DOMAIN snapshot.forms : k <= j}) = i - 1])]

\* Shell::new
ShellNew(failed) ==
    LET forms == IF snapshot.graph
                 THEN [i \in DOMAIN snapshot.forms |-> LoadedTables(snapshot.forms[i])]
                 ELSE [i \in DOMAIN Merged \cap 1..MAX_FORMS |-> Merged[i]]
    IN  [forms |-> forms, next_fin |-> snapshot.next_fin,
         sequence |-> snapshot.sequence, used |-> Used(forms),
         stage |-> NoStage, failed |-> failed]

-----------------------------------------------------------------------------
(* commit_action: the snapshot the tables give, and its publication.       *)

NextSequence(next) ==
    IF snapshot.exists /\ next.sequence + 1 <= snapshot.sequence
    THEN snapshot.sequence + 1 ELSE next.sequence + 1

TablesSnapshot(next) ==
    [exists |-> TRUE, graph |-> TRUE,
     forms |-> [i \in DOMAIN next.forms |-> Stored(next.forms[i])],
     next_fin |-> next.next_fin, sequence |-> NextSequence(next)]

\* The tables are changed whether or not the commit succeeds.
CommitAction(next) ==
    /\ ~halted /\ snapshot.sequence < MaxSequence /\ next.sequence < MaxSequence
    /\ \E ok \in BOOLEAN :
         LET published == ok /\ validate_snapshot(TablesSnapshot(next)) IN
         /\ commit_locked(TablesSnapshot(next), published, "shell", streams)
         /\ registry' = [next EXCEPT
              !.sequence = IF published THEN NextSequence(next) ELSE @ + 1,
              !.failed = @ \/ ~published]

-----------------------------------------------------------------------------
(* Commands.                                                               *)

\* KernelControls::resize_form_content
CanResize(old, new) == new >= old => registry.used + new - old <= FormBytesLimit
Resize(old, new) == registry.used + new - old

Editable(i) == registry.forms[i].kind # "Root"
Absent(name) == Named(registry.forms, name) = {}

\* The registry with a new Form of revision 1 in the slot.
NewForm(i, name, kind, text) ==
    [registry EXCEPT
       !.forms = Put(@, i, Entry(registry.next_fin, name, kind, "Active", 1, text)),
       !.next_fin = @ + 1,
       !.used = Resize(0, Len(text))]

MkForm(name, kind) ==
    /\ Absent(name)
    /\ \E i \in FirstFree(registry.forms, MAX_FORMS) :
         CommitAction(NewForm(i, name, kind, <<>>))

\* The registry with the text of a Form replaced.
Rewritten(i, text) ==
    [registry EXCEPT !.forms[i].text = text, !.forms[i].revision = @ + 1,
                     !.used = Resize(Len(registry.forms[i].text), Len(text))]

Rewrite(i, text) ==
    /\ registry.forms[i].life = "Active"
    /\ Len(text) <= FORM_CONTENT_CAPACITY  \* MAX_CONTENT
    /\ CanResize(Len(registry.forms[i].text), Len(text))
    /\ CommitAction(Rewritten(i, text))

\* write, append (with a separator) and writehex (at the start or the end).
WriteContent(i, text) == Rewrite(i, text)
AppendContent(i, text) ==
    LET old == registry.forms[i].text IN
    Rewrite(i, old \o (IF old # <<>> /\ old[Len(old)] # Newline
                       THEN <<Space>> ELSE <<>>) \o text)
WriteHex(i, offset, text) ==
    /\ offset \in {0, Len(registry.forms[i].text)}
    /\ Rewrite(i, SubSeq(registry.forms[i].text, 1, offset) \o text)

MoveForm(i, name) ==
    /\ Absent(name)
    /\ CommitAction([registry EXCEPT !.forms[i].name = name,
                                     !.forms[i].revision = @ + 1])

CopyForm(i, name) ==
    LET source == registry.forms[i] IN
    /\ Absent(name) /\ CanResize(0, Len(source.text))
    /\ \E j \in FirstFree(registry.forms, MAX_FORMS) :
         CommitAction(NewForm(j, name, source.kind, source.text))

\* retire, delete, activate and recover.
SetLifecycle(i, life) ==
    /\ Editable(i)
    /\ CommitAction([registry EXCEPT !.forms[i].life = life,
                                     !.forms[i].revision = @ + 1])

\* The release is expected to succeed: ContentAccounted is what makes it so.
Reclaim(i) ==
    LET length == Len(registry.forms[i].text) IN
    /\ Editable(i) /\ registry.forms[i].life = "Retired"
    /\ CommitAction([registry EXCEPT !.forms = Take(@, i), !.used = Resize(length, 0)])

CommitTables == CommitAction(registry)

-----------------------------------------------------------------------------
(* Native packages: a private stage, then a save of an executable Form.    *)

\* Nothing is reserved for the stage.
NativeBegin(name) ==
    /\ ~halted /\ registry.stage = NoStage
    /\ \A i \in Named(registry.forms, name) :
         registry.forms[i].kind = "Executable" /\ registry.forms[i].life = "Active"
    /\ Absent(name) => Free(registry.forms, MAX_FORMS) # {}
    /\ registry' = [registry EXCEPT !.stage = [name |-> name, ready |-> FALSE]]
    /\ UNCHANGED storeVars

\* The last chunk of the announced bytes has been written.
NativeWrite ==
    /\ ~halted /\ registry.stage # NoStage /\ ~registry.stage.ready
    /\ registry' = [registry EXCEPT !.stage.ready = TRUE]
    /\ UNCHANGED storeVars

\* The stage is dropped: abort, or a commit that is refused because it is
\* incomplete, its digest or image is wrong, or the budget is spent.
NativeDrop ==
    /\ ~halted /\ registry.stage # NoStage
    /\ registry' = [registry EXCEPT !.stage = NoStage]
    /\ UNCHANGED storeVars

\* "native stage reserved a Form slot" is expected of the table.
NativeSlot == IF Absent(registry.stage.name) THEN FirstFree(registry.forms, MAX_FORMS)
              ELSE First(Named(registry.forms, registry.stage.name))

\* The store decides the FIN and the revision; the shell takes over both, the
\* next FIN and the sequence, and keeps the rest of its tables.
NativeCommit(image) ==
    LET name == registry.stage.name IN
    /\ ~halted /\ registry.stage.ready
    /\ \/ /\ NativeSlot = {}
          /\ halted' = TRUE
          /\ UNCHANGED <<snapshot, streams, nextStreamId, registry>>
       \/ \E index \in NativeSlot, i \in SaveSlot(name) :
            LET old == IF Absent(name) THEN 0 ELSE Len(registry.forms[index].text)
                next == Saved(name, "Executable", image, i)
            IN  /\ CanResize(old, Len(image))
                /\ CanSave(name, "Executable", image, i)
                /\ SaveNamedForm(name, "Executable", image)
                /\ registry' = IF snapshot' = snapshot
                     THEN [registry EXCEPT !.stage = NoStage]
                     ELSE [registry EXCEPT
                            !.forms = Put(@, index, Entry(next.forms[i].fin, name,
                                "Executable", "Active", next.forms[i].revision, image)),
                            !.used = Resize(old, Len(image)),
                            !.next_fin = next.next_fin, !.sequence = next.sequence,
                            !.stage = NoStage]

-----------------------------------------------------------------------------
RegistryStep ==
    \/ CommitTables
    \/ \E name \in FormNames :
         \/ \E kind \in {"Data", "Executable"} : MkForm(name, kind)
         \/ \E i \in DOMAIN registry.forms : MoveForm(i, name) \/ CopyForm(i, name)
         \/ NativeBegin(name)
    \/ \E i \in DOMAIN registry.forms :
         \/ \E text \in Texts \ {<<>>} :
              \/ WriteContent(i, text)
              \/ AppendContent(i, text)
              \/ \E offset \in 0..FORM_CONTENT_CAPACITY : WriteHex(i, offset, text)
         \/ \E life \in {"Active", "Recoverable", "Retired"} : SetLifecycle(i, life)
         \/ Reclaim(i)
    \/ NativeWrite
    \/ NativeDrop
    \/ \E image \in Texts \ {<<>>} : NativeCommit(image)

\* A boot reads the snapshot back and starts without streams.
Reboot ==
    /\ registry' = ShellNew(registry.failed)
    /\ streams' = EmptyTable
    /\ nextStreamId' = 1
    /\ halted' = FALSE
    /\ UNCHANGED snapshot

ShellFormsInit ==
    /\ StoreInit
    /\ registry = ShellNew(FALSE)

ShellFormsNext ==
    \/ (SaveStep \/ CommitSystemRecords \/ StreamStep) /\ UNCHANGED registry
    \/ RegistryStep
    \/ Reboot

ShellFormsSpec == ShellFormsInit /\ [][ShellFormsNext]_shellFormVars

-----------------------------------------------------------------------------
(* Properties.                                                             *)

\* Resource::FormBytes is charged exactly the bytes of the registry, through
\* writes, copies, native installs and failed commits, so that the release
\* reclaim expects never fails (resize_form_content).
ContentAccounted == registry.used = Used(registry.forms)

\* Two Forms of one snapshot have the same FIN only after a commit of the
\* shell has failed and its next FIN went back to the store's
\* (commit_action, commit_native_package).
FinsDistinct ==
    ~registry.failed =>
       \A forms \in {snapshot.forms, registry.forms} : \A i, j \in DOMAIN forms :
          i # j => forms[i].fin # forms[j].fin

\* The published sequence never goes back, whoever publishes: two snapshots
\* with one sequence would be told apart by nothing (commit).
SequenceGrows ==
    [][snapshot' # snapshot => snapshot'.sequence > snapshot.sequence]_shellFormVars

\* Forms keep their identity and their accounts while commands, saves and
\* streams replace the snapshot, each with a later sequence.
FormsSound == [](ContentAccounted /\ FinsDistinct /\ StaleStreamsRefused) /\ SequenceGrows
=============================================================================
