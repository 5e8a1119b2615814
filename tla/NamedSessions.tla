--------------------------- MODULE NamedSessions ---------------------------
(***************************************************************************)
(* Named, single-writer sessions over the session store and their SQLite    *)
(* persistence: crates/toktier/src/session.rs, Tokenizer::lookup of         *)
(* runtime.rs, and crates/toktier-store-sqlite.                             *)
(*                                                                         *)
(* An action is one critical section of the mutex around SessionStoreState; *)
(* an operation that ends in persist() writes the database inside it.  The  *)
(* store core is what it promises (SessionStore checks it): a table of      *)
(* sessions, each a text and a revision, with eviction of the least         *)
(* recently used one.  A record, its sidecar and its recovery binding are   *)
(* the text and the revision they describe.  A SQLite transaction commits   *)
(* as a whole or not at all; a crash may come between any two actions.      *)
(***************************************************************************)
EXTENDS Integers, Sequences, FiniteSets, Functions, SequencesExt

CONSTANTS
    Client,         \* threads, each with at most one Session object
    Name,           \* session names
    Char,           \* what a delta may be
    Durable,        \* TRUE with RuntimeBuilder::home(): a database is used
    SaveMayFail,    \* TRUE if SQLite may fail to commit
    EngineMayFail,  \* TRUE if the encoder may return an error
    MaxSessions,    \* StoreConfig.max_sessions
    MaxText,        \* bound: length of a text
    MaxRevision,    \* bound: revision of a session
    MaxHandle,      \* bound: handles given out by one process
    MaxStarts       \* bound: process starts

ASSUME ConfigAssumption ==
    /\ MaxSessions \in Nat \ {0} /\ MaxText \in Nat /\ MaxRevision \in Nat
    /\ MaxHandle \in Nat /\ MaxStarts \in Nat /\ Name # {}
    /\ Durable \in BOOLEAN /\ SaveMayFail \in BOOLEAN /\ EngineMayFail \in BOOLEAN

VARIABLES
    proc,    \* [phase, starts]: the process
    file,    \* the database file: [kind, sessions, names, transcripts]
    state,   \* SessionStoreState of the process
    client,  \* per client: its Session object
    acked    \* per name: the text of the last operation that returned Ok, as
             \* a set with at most one element (not in the program)

vars == <<proc, file, state, client, acked>>

Text == UNION {[1..n -> Char] : n \in 0..MaxText}
NoHandle == 0

-----------------------------------------------------------------------------
(* The store core, as operators on a SessionStoreState. *)

Bind(f, x, v) == [y \in DOMAIN f \cup {x} |-> IF y = x THEN v ELSE f[y]]
Unbind(f, x) == Restrict(f, DOMAIN f \ {x})

EmptyState ==
    [sessions |-> <<>>, lru |-> <<>>, next |-> 1, names |-> <<>>, leased |-> {},
     transcripts |-> <<>>, fault |-> FALSE]

IsLive(st, h) == h \in DOMAIN st.sessions

Touched(st, h) == [st EXCEPT !.lru = Append(Remove(@, h), h)]

\* evict
Evicted(st, h) == [st EXCEPT !.sessions = Unbind(@, h), !.lru = Remove(@, h)]

\* evict_for_capacity
WithRoom(st) ==
    IF Len(st.lru) < MaxSessions THEN st ELSE Evicted(st, Head(st.lru))

Inserted(st, text) ==
    [st EXCEPT !.sessions = Bind(@, st.next, [text |-> text, rev |-> 0]),
               !.lru = Append(@, st.next),
               !.next = @ + 1]

\* put
Stored(st, text) == Inserted(WithRoom(st), text)

\* fork: the source is touched first, and may still be the one evicted.
Forked(st, h) == Inserted(WithRoom(Touched(st, h)), st.sessions[h].text)

\* append_patch
Grown(st, h, delta) ==
    LET t == Touched(st, h)
    IN  [t EXCEPT !.sessions[h] = [text |-> @.text \o delta, rev |-> @.rev + 1]]

\* names.insert, and transcripts.insert when the sessions are durable.
Named(st, n, h, text) ==
    [st EXCEPT !.names = Bind(@, n, h),
               !.transcripts = IF Durable THEN Bind(@, n, text) ELSE @]

-----------------------------------------------------------------------------
(* The database. *)

NoFile == [kind |-> "absent", sessions |-> <<>>, names |-> <<>>, transcripts |-> <<>>]

\* save_named_inner: every name needs a live handle and a transcript of the
\* length the content digest says.
Savable(st) ==
    /\ DOMAIN st.transcripts = DOMAIN st.names
    /\ \A n \in DOMAIN st.names :
        /\ IsLive(st, st.names[n])
        /\ Len(st.transcripts[n]) = Len(st.sessions[st.names[n]].text)

\* Fault: the operation returns before the transaction is committed.
NotWritten(st) == file

Written(st) ==
    IF Durable THEN [kind |-> "saved", sessions |-> st.sessions,
                     names |-> st.names, transcripts |-> st.transcripts]
    ELSE file

\* Fault: a failed save leaves the store usable.
Unsealed(st) == st

Sealed(st) == [st EXCEPT !.fault = TRUE]

\* persist: either the state is saved and the operation succeeds, or the save
\* fails, the mutation stays in memory and the store is sealed.
Persist(st, succeeds, fails) ==
    \/ /\ ~Durable \/ Savable(st)
       /\ state' = st
       /\ file' = Written(st)
       /\ succeeds
    \/ /\ Durable /\ (SaveMayFail \/ ~Savable(st))
       /\ state' = Sealed(st)
       /\ UNCHANGED file
       /\ fails

\* load_named_recoverable: the binding must describe the record.
Loadable(f) ==
    /\ f.kind = "saved"
    /\ \A n \in DOMAIN f.names :
        /\ f.names[n] \in DOMAIN f.sessions
        /\ f.transcripts[n] = f.sessions[f.names[n]].text

\* The rows are loaded in the order of their handles and get new ones from 1.
Renumbered(f, h) == Cardinality({x \in DOMAIN f.sessions : x <= h})

\* Names are bound again to the handles of this process.
Rebound(f) == [n \in DOMAIN f.names |-> Renumbered(f, f.names[n])]

Loaded(f) ==
    LET row(i) == CHOOSE h \in DOMAIN f.sessions : Renumbered(f, h) = i
        handles == {Renumbered(f, h) : h \in DOMAIN f.sessions}
    IN  [sessions |-> [i \in handles |-> f.sessions[row(i)]],
         lru |-> [i \in 1..Cardinality(handles) |-> i],
         next |-> Cardinality(DOMAIN f.sessions) + 1,
         names |-> Rebound(f),
         leased |-> {},
         transcripts |-> f.transcripts,
         fault |-> FALSE]

-----------------------------------------------------------------------------
(* Process start: SessionStoreState::new. *)

NoSession == [pc |-> "none", name |-> CHOOSE n \in Name : TRUE, handle |-> NoHandle,
              rev |-> 0, want |-> <<>>, prefix |-> 0]

Started(phase) == proc' = [phase |-> phase, starts |-> proc.starts + 1]

\* An empty or missing file becomes a database with tables and no rows; an
\* in-memory store needs no file.
StartFresh ==
    /\ proc.phase = "down" /\ proc.starts < MaxStarts
    /\ file.kind = "absent"
    /\ Started(IF Durable THEN "created" ELSE "up")
    /\ file' = IF Durable THEN [file EXCEPT !.kind = "schema"] ELSE file
    /\ state' = EmptyState
    /\ UNCHANGED <<client, acked>>

\* The first persist: a failure is returned to the builder.
FirstSave ==
    /\ proc.phase = "created"
    /\ Persist(EmptyState, proc' = [proc EXCEPT !.phase = "up"],
                           proc' = [proc EXCEPT !.phase = "down"])
    /\ UNCHANGED <<client, acked>>

StartLoad ==
    /\ proc.phase = "down" /\ proc.starts < MaxStarts
    /\ Loadable(file)
    /\ Started("up")
    /\ state' = Loaded(file)
    /\ UNCHANGED <<file, client, acked>>

StartRefused ==
    /\ proc.phase = "down" /\ proc.starts < MaxStarts
    /\ file.kind # "absent" /\ ~Loadable(file)
    /\ Started("refused")
    /\ UNCHANGED <<file, state, client, acked>>

\* The process ends, in order or not: nothing is saved on the way out.
Crash ==
    /\ proc.phase # "down" /\ proc.starts < MaxStarts
    /\ proc' = [proc EXCEPT !.phase = "down"]
    /\ state' = EmptyState
    /\ client' = [c \in Client |-> NoSession]
    /\ acked' = IF Durable THEN acked ELSE [n \in Name |-> {}]
    /\ UNCHANGED file

-----------------------------------------------------------------------------
(* Operations on a session. *)

Healthy == proc.phase = "up" /\ ~state.fault
RoomForHandle == state.next <= MaxHandle

Keep == UNCHANGED <<proc, client, acked>>

\* Client c goes on with the Session object cl, and the texts of name n are
\* now told to be those of told.
Ack(c, cl, n, told) ==
    /\ client' = [client EXCEPT ![c] = cl]
    /\ acked' = [acked EXCEPT ![n] = told]
    /\ UNCHANGED proc

Writer(c) == client[c].pc = "open" /\ Healthy

\* Fault: the lease is not looked at.
LeaseFreeAlways(n) == TRUE

LeaseFree(n) == n \notin state.leased

Open(c, n) ==
    LET h == IF n \in DOMAIN state.names THEN state.names[n] ELSE NoHandle IN
    /\ client[c].pc = "none" /\ Healthy
    /\ LeaseFree(n)
    /\ h # NoHandle => IsLive(state, h)
    /\ state' = [state EXCEPT !.leased = @ \cup {n}]
    /\ client' = [client EXCEPT ![c] =
                    [pc |-> "open", name |-> n, handle |-> h, want |-> <<>>, prefix |-> 0,
                     rev |-> IF h = NoHandle THEN 0 ELSE state.sessions[h].rev]]
    /\ UNCHANGED <<proc, file, acked>>

\* The name is bound to a session that is gone: revision() fails after the
\* lease was taken.
OpenDangling(n) ==
    /\ Healthy
    /\ LeaseFree(n)
    /\ n \in DOMAIN state.names /\ ~IsLive(state, state.names[n])
    /\ state' = [state EXCEPT !.leased = @ \cup {n}]
    /\ UNCHANGED file /\ Keep

\* The Session object after put gave it a new session.
Reseeded(c, h) == [client[c] EXCEPT !.handle = h, !.rev = 0]

Seed(c, t) ==
    LET n == client[c].name
        st == Named(Stored(state, t), n, state.next, t)
    IN  /\ Writer(c) /\ RoomForHandle
        /\ client[c].handle = NoHandle
        /\ Persist(st, Ack(c, Reseeded(c, state.next), n, {t}), Keep)

\* put fails after it made room.
SeedFails(c) ==
    /\ Writer(c) /\ EngineMayFail
    /\ client[c].handle = NoHandle
    /\ state' = WithRoom(state)
    /\ UNCHANGED file /\ Keep

\* The gates of append_patch.
MayAppend(c) ==
    /\ Writer(c)
    /\ IsLive(state, client[c].handle)
    /\ client[c].rev = state.sessions[client[c].handle].rev

Appended(c, delta, cl) ==
    LET n == client[c].name
        h == client[c].handle
        st == Grown(state, h, delta)
        text == st.sessions[h].text
        saved == IF Durable THEN [st EXCEPT !.transcripts[n] = @ \o delta] ELSE st
    IN  /\ Len(text) <= MaxText /\ st.sessions[h].rev <= MaxRevision
        /\ Persist(saved, Ack(c, [cl EXCEPT !.rev = @ + 1], n, {text}), Keep)

AppendDelta(c, delta) ==
    /\ MayAppend(c)
    /\ Appended(c, delta, client[c])

AppendFails(c) ==
    /\ MayAppend(c) /\ EngineMayFail
    /\ state' = Touched(state, client[c].handle)
    /\ UNCHANGED file /\ Keep

\* encode_transcript: the stored text is a prefix of t; the lock is dropped.
CheckTranscript(c, t) ==
    /\ Writer(c)
    /\ IsLive(state, client[c].handle)
    /\ IsPrefix(state.sessions[client[c].handle].text, t)
    /\ client' = [client EXCEPT ![c].pc = "extend",
                    ![c].want = t,
                    ![c].prefix = Len(state.sessions[client[c].handle].text)]
    /\ UNCHANGED <<proc, file, state, acked>>

\* Then the rest of t is appended, and the row is read in a third critical
\* section; after an error the call returns.
ExtendTranscript(c) ==
    LET cl == [client[c] EXCEPT !.pc = "reading", !.want = <<>>, !.prefix = 0]
        delta == SubSeq(client[c].want, client[c].prefix + 1, Len(client[c].want))
    IN
    /\ client[c].pc = "extend" /\ Healthy
    /\ IsLive(state, client[c].handle)
    /\ client[c].rev = state.sessions[client[c].handle].rev
    /\ Appended(c, delta, cl)

EncodeReturns(c) ==
    client' = [client EXCEPT ![c].pc = "open", ![c].want = <<>>, ![c].prefix = 0]

ExtendFails(c) ==
    /\ client[c].pc = "extend"
    /\ ~Healthy \/ ~IsLive(state, client[c].handle) \/ EngineMayFail
    /\ state' = IF Healthy /\ IsLive(state, client[c].handle)
                THEN Touched(state, client[c].handle) ELSE state
    /\ EncodeReturns(c)
    /\ UNCHANGED <<proc, file, acked>>

ReadTranscript(c) ==
    /\ client[c].pc = "reading"
    /\ state' = IF Healthy /\ IsLive(state, client[c].handle)
                THEN Touched(state, client[c].handle) ELSE state
    /\ EncodeReturns(c)
    /\ UNCHANGED <<proc, file, acked>>

\* snapshot: shared_all_ids touches the session.
Snapshot(c) ==
    /\ Writer(c)
    /\ IsLive(state, client[c].handle)
    /\ state' = Touched(state, client[c].handle)
    /\ UNCHANGED file /\ Keep

\* overwrite evicts the old session before the new one is encoded.
Overwrite(c, t) ==
    LET n == client[c].name
        st == Named(Stored(Evicted(state, client[c].handle), t), n, state.next, t)
    IN  /\ Writer(c) /\ RoomForHandle
        /\ Persist(st, Ack(c, Reseeded(c, state.next), n, {t}), Keep)

OverwriteFails(c) ==
    /\ Writer(c) /\ EngineMayFail
    /\ state' = WithRoom(Evicted(state, client[c].handle))
    /\ UNCHANGED file /\ Keep

\* Fault: the copy is said to continue the revisions of its source.
ForkRevisionOfSource(h) == state.sessions[h].rev

ForkRevision(h) == 0

\* fork: a new Session object, which client d takes.
Fork(c, d, n) ==
    LET h == client[c].handle
        text == state.sessions[h].text
        st == Named(Forked(state, h), n, state.next, text)
        leased == [st EXCEPT !.leased = @ \cup {n}]
    IN  /\ Writer(c) /\ RoomForHandle
        /\ client[d].pc = "none"
        /\ n \notin DOMAIN state.names /\ LeaseFree(n)
        /\ IsLive(state, h)
        /\ Persist(leased,
                   Ack(d, [pc |-> "open", name |-> n, handle |-> state.next,
                           rev |-> ForkRevision(h), want |-> <<>>, prefix |-> 0], n, {text}),
                   Keep)

\* delete: when the save fails the Session is dropped all the same.
Delete(c) ==
    LET n == client[c].name
        st == Evicted(state, client[c].handle)
    IN  /\ Writer(c)
        /\ Persist([st EXCEPT !.names = Unbind(@, n),
                              !.transcripts = Unbind(@, n),
                              !.leased = @ \ {n}],
                   Ack(c, NoSession, n, {}),
                   /\ client' = [client EXCEPT ![c].pc = "dropped"]
                   /\ UNCHANGED <<proc, acked>>)

\* close and drop.
Release(c) ==
    /\ client[c].pc \in {"open", "dropped"}
    /\ state' = [state EXCEPT !.leased = @ \ {client[c].name}]
    /\ client' = [client EXCEPT ![c] = NoSession]
    /\ UNCHANGED <<proc, file, acked>>

-----------------------------------------------------------------------------
(* Tokenizer::lookup: a temporary session takes a slot of the store and is    *)
(* evicted again, unless completing the stream fails.                         *)

\* Something was stored that a lookup can hit.
SomethingStored == state.next > 1

Lookup ==
    /\ Healthy /\ RoomForHandle /\ SomethingStored
    /\ state' = [WithRoom(state) EXCEPT !.next = @ + 1]
    /\ UNCHANGED file /\ Keep

LookupFails(t) ==
    /\ Healthy /\ RoomForHandle /\ SomethingStored
    /\ EngineMayFail
    /\ state' = Stored(state, t)
    /\ UNCHANGED file /\ Keep

-----------------------------------------------------------------------------
Init ==
    /\ proc = [phase |-> "down", starts |-> 0]
    /\ file = NoFile
    /\ state = EmptyState
    /\ client = [c \in Client |-> NoSession]
    /\ acked = [n \in Name |-> {}]

Operation(c) ==
    \/ \E n \in Name : Open(c, n)
    \/ \E t \in Text : Seed(c, t) \/ Overwrite(c, t) \/ CheckTranscript(c, t)
    \/ SeedFails(c) \/ OverwriteFails(c) \/ AppendFails(c)
    \/ \E x \in Char : AppendDelta(c, <<x>>)
    \/ ExtendTranscript(c) \/ ExtendFails(c) \/ ReadTranscript(c) \/ Snapshot(c)
    \/ \E d \in Client, n \in Name : Fork(c, d, n)
    \/ Delete(c) \/ Release(c)

Next ==
    \/ StartFresh \/ FirstSave \/ StartLoad \/ StartRefused \/ Crash
    \/ \E n \in Name : OpenDangling(n)
    \/ \E c \in Client : Operation(c)
    \/ Lookup
    \/ \E t \in Text : LookupFails(t)

Spec == Init /\ [][Next]_vars

-----------------------------------------------------------------------------
(* Properties. *)

FileText(n) == IF n \in DOMAIN file.names THEN {file.transcripts[n]} ELSE {}
IsWriter(c) == client[c].pc \in {"open", "extend", "reading"}

\* What an operation of a durable session reported as done survives a crash at
\* any point, a failed save of a later operation, and the restart; what it
\* reported as failed is not in the database.
AckedSurvives == Durable => \A n \in Name : FileText(n) = acked[n]

\* While the store is not sealed, memory and database agree on every named
\* session that is live: text, revision and recovery transcript, so that the
\* next incremental append after a restart continues the same stream.
MemoryMatchesFile ==
    Durable /\ Healthy =>
        \A n \in DOMAIN state.names :
            LET h == state.names[n] IN
            IsLive(state, h) =>
                /\ n \in DOMAIN file.names
                /\ state.sessions[h] = file.sessions[file.names[n]]
                /\ state.transcripts[n] = state.sessions[h].text

\* One writer per name: no two Session objects have one name, each holds the
\* lease of its name, and names never share a session, also after the handles
\* were given out again by a restart.
SingleWriter ==
    /\ \A c, d \in Client :
        c # d /\ IsWriter(c) /\ IsWriter(d) => client[c].name # client[d].name
    /\ \A c \in Client :
        IsWriter(c) /\ ~state.fault => client[c].name \in state.leased
    /\ \A m, n \in DOMAIN state.names :
        m # n => state.names[m] # state.names[n]

\* The writer is never behind: while the store is healthy, the revision a
\* Session expects is the revision of its session, so that an append is never
\* refused as a conflict, and what encode_transcript appends after it dropped
\* the lock continues the text it compared.
WriterCurrent ==
    Healthy => \A c \in Client :
        IsWriter(c) /\ IsLive(state, client[c].handle) =>
            /\ client[c].rev = state.sessions[client[c].handle].rev
            /\ state.names[client[c].name] = client[c].handle
            /\ client[c].pc = "extend" =>
                state.sessions[client[c].handle].text = SubSeq(client[c].want, 1, client[c].prefix)

=============================================================================
