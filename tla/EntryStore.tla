----------------------------- MODULE EntryStore -----------------------------
(***************************************************************************)
(* NativeEntryStore of crates/toktier-routing-core/src/entry_store.rs: named *)
(* and content-addressed entries over a native SessionStore, a byte budget  *)
(* on resident texts, and a directory with one record and one recovery      *)
(* binding per entry, a derived index and a metadata file.                  *)
(*                                                                         *)
(* A call runs under the mutex of its process (toktier-py NativeRuntime), so *)
(* it meets no other call; it meets crashes and the file operations of other *)
(* processes between its own reads and writes of the directory.  Those are  *)
(* the steps of this module: one read, one temporary file, one rename.      *)
(*                                                                         *)
(* The ids a session returns are named by the text they encode.  A session  *)
(* is its lineage, the texts of its revisions; the record hash is chained   *)
(* over the revisions, so it is the lineage too.  A sealed record holds no  *)
(* plaintext for its stable prefix: whoever reads one may compare hashes and *)
(* lengths, and asks the caller's text for the rest.                        *)
(***************************************************************************)
EXTENDS Integers, Sequences, FiniteSets, SequencesExt

CONSTANTS
    Process,        \* processes that open the directory
    SessionId,      \* names callers give
    Letter,         \* characters of a text
    Text,           \* texts callers ask for
    Digest(_),      \* the truncated digest of a text, the key of the index
    NameRank(_),    \* the order of entry names
    Persistent,     \* is there a directory
    Budget,         \* cache_budget_bytes
    AutoMin,        \* AUTO_MIN_BYTES
    MaxAuto,        \* MAX_AUTO_ENTRIES
    MaxSessions,    \* NATIVE_MAX_SESSIONS
    SealAt,         \* length from which the native store seals a prefix
    MaxCalls,       \* bound: calls of all processes
    MaxFaults,      \* bound: crashes, engine errors, failed writes, lost files
    None

ASSUME EntryAssumption ==
    /\ Text \subseteq Seq(Letter) \ {<<>>}
    /\ Budget \in Nat /\ AutoMin \in Nat /\ SealAt \in Nat
    /\ MaxAuto \in Nat \ {0} /\ MaxSessions \in Nat \ {0, 1}
    /\ Persistent \in BOOLEAN
    /\ MaxCalls \in Nat /\ MaxFaults \in Nat
    /\ None \notin Seq(Letter) \cup Nat

SName(id) == <<"s", id>>
AName(t) == <<"a", Digest(t)>>
Name == {SName(id) : id \in SessionId} \cup {AName(t) : t \in Text}

\* Names are strings, and strings are totally ordered.
ASSUME RankAssumption ==
    \A n, o \in Name : NameRank(n) \in Int /\ (NameRank(n) = NameRank(o) => n = o)

\* None stands for what is not there: it is no record, binding or index.
ASSUME NoneAssumption ==
    LET row == [len : Nat, dig : {Digest(t) : t \in Text}] IN
    /\ None \notin [lineage : Seq(Text), sealed : BOOLEAN]
    /\ None \notin [hash : Seq(Text), row : row, text : Text]
    /\ \A names \in SUBSET Name : None \notin [names -> row]

VARIABLES
    up,      \* is the store of a process open
    mem,     \* the store of a process: entries, lru, index, native sessions
    call,    \* the call a process is in, and the answer of its last one
    disk,    \* the directory: metadata, index, records, bindings
    tmp,     \* temporary files, by process and target
    calls,
    faults

vars == <<up, mem, call, disk, tmp, calls, faults>>

-----------------------------------------------------------------------------
(* The native session store, as far as the entries see it. *)

Row(t) == [len |-> Len(t), dig |-> Digest(t)]
Without(f, X) == [y \in DOMAIN f \ X |-> f[y]]
With(f, x, v) == [y \in DOMAIN f \cup {x} |-> IF y = x THEN v ELSE f[y]]

\* The members of X in a list, in its order.
Among(s, X) ==
    LET kept[i \in 0..Len(s)] == IF i = 0 THEN <<>>
                                ELSE IF s[i] \in X THEN Append(kept[i - 1], s[i])
                                ELSE kept[i - 1]
    IN  kept[Len(s)]
Unlisted(s, X) == Among(s, ToSet(s) \ X)
Touched(s, x) == Append(Unlisted(s, {x}), x)

Live(s, h) == h \in DOMAIN s.sessions
SessionText(s, h) == Last(s.sessions[h])

\* Handles are never reused: an entry may still hold the handle of a session
\* the native store has evicted.
FreshHandle(s) ==
    LET taken == DOMAIN s.sessions \cup {s.entries[n].handle : n \in DOMAIN s.entries}
    IN  CHOOSE h \in 0..Cardinality(taken) : h \notin taken

\* evict, of each of these handles
EvictSessions(s, H) ==
    [s EXCEPT !.sessions = Without(@, H), !.recent = Unlisted(@, H)]

\* last_used of all_ids and append; recent lists the handles by it.
Used(s, h) == [s EXCEPT !.recent = Touched(@, h)]

\* evict_for_capacity: put and fork make room before the engine call that
\* may still fail.
MakeRoom(s) ==
    IF Cardinality(DOMAIN s.sessions) < MaxSessions THEN s
    ELSE EvictSessions(s, {Head(s.recent)})

\* insert_session
InsertSession(s, lineage) ==
    LET h == FreshHandle(s)
    IN  [MakeRoom(s) EXCEPT !.sessions = With(@, h, lineage), !.recent = Append(@, h)]

\* What export_session and export_recovery_binding write.
RecordOf(lineage) == [lineage |-> lineage, sealed |-> Len(Last(lineage)) >= SealAt]
BindingOf(lineage) == [hash |-> lineage, row |-> Row(Last(lineage)), text |-> Last(lineage)]

-----------------------------------------------------------------------------
(* Entries in memory. *)

Resident(s, n) == s.entries[n].text # None /\ s.entries[n].handle # None

ResidentNames(s) == {n \in DOMAIN s.entries : s.entries[n].text # None}

Bytes(s, names) == SumFunction([n \in names |-> s.entries[n].row.len])

\* resident_bytes
ResidentBytes(s) == Bytes(s, ResidentNames(s))

TouchEntry(s, n) == [s EXCEPT !.lru = Touched(@, n)]

Forget(s, names) ==
    [s EXCEPT !.entries = Without(@, names), !.index = Without(@, names),
              !.lru = Unlisted(@, names)]

FreeHandles(s, names) ==
    EvictSessions(s, {s.entries[n].handle : n \in names \cap DOMAIN s.entries} \ {None})

\* Fault: the native session of a dropped entry stays.
DropKeepsSession(s, names) == Forget(s, names)

\* drop_entry, of each of these names
DropEntries(s, names) == Forget(FreeHandles(s, names), names)

\* evict_entry, of each: only a directory can bring an entry back.
EvictEntries(s, names) ==
    LET freed == FreeHandles(s, names)
        cold(n) == [s.entries[n] EXCEPT !.text = None, !.handle = None]
    IN  IF Persistent
        THEN [freed EXCEPT !.entries =
                [n \in DOMAIN @ |-> IF n \in names THEN cold(n) ELSE @[n]]]
        ELSE Forget(freed, names)

\* Fault: the entry being served is never a victim.
EvictButPin(s, pin) ==
    LET resident == ResidentNames(s)
        order == Among(s.lru, resident \ {pin})
        victims(k) == {order[i] : i \in 1..k}
        enough == {k \in 0..Len(order) : Bytes(s, resident \ victims(k)) <= Budget}
        count == IF enough = {} THEN Len(order)
                 ELSE CHOOSE k \in enough : \A j \in enough : k <= j
    IN  EvictEntries(s, victims(count))

\* evict_over_budget: residents in lru order, the pinned one last, until what
\* is left fits.
EvictOverBudget(s, pin) ==
    LET resident == ResidentNames(s)
        others == Among(s.lru, resident \ {pin})
        order == IF pin \in resident THEN Append(others, pin) ELSE others
        victims(k) == {order[i] : i \in 1..k}
        enough == {k \in 0..Len(order) : Bytes(s, resident \ victims(k)) <= Budget}
        count == CHOOSE k \in enough : \A j \in enough : k <= j
    IN  EvictEntries(s, victims(count))

IsAuto(n) == n[1] = "a"
AutoVictims(s) ==
    LET autos == Among(s.lru, {n \in DOMAIN s.entries : IsAuto(n)})
    IN  IF Len(autos) > MaxAuto THEN SubSeq(autos, 1, Len(autos) - MaxAuto) ELSE <<>>

-----------------------------------------------------------------------------
(* What a call leaves to the directory, in the order it does it. *)

Removal(kind, n) == [op |-> "remove", kind |-> kind, name |-> n, val |-> None]
Write(kind, n, v) == [op |-> "write", kind |-> kind, name |-> n, val |-> v]

\* persist_index
IndexWrite(s) == Write("index", None, s.index)

\* Fault: the binding is written once, with the first record.
FirstBindingOnly(s, n) ==
    LET h == s.entries[n].handle
    IN  IF h = None \/ ~Live(s, h) THEN <<>>
        ELSE <<Write("rec", n, RecordOf(s.sessions[h]))>>
             \o (IF Len(s.sessions[h]) > 1 THEN <<>>
                 ELSE <<Write("bind", n, BindingOf(s.sessions[h]))>>)

\* persist_entry
EntryWrites(s, n) ==
    LET h == s.entries[n].handle
    IN  IF h = None \/ ~Live(s, h) THEN <<>>
        ELSE <<Write("rec", n, RecordOf(s.sessions[h])),
               Write("bind", n, BindingOf(s.sessions[h]))>>

\* remove_file of both files of each victim of the cap, in order
CapRemovals(victims) ==
    [i \in 1..2 * Len(victims) |->
        IF i % 2 = 1 THEN Removal("rec", victims[(i + 1) \div 2])
        ELSE Removal("bind", victims[i \div 2])]

\* The result of a call's work in memory.
Done(s, writes, out) ==
    [mem |-> s, writes |-> IF Persistent THEN writes ELSE <<>>, out |-> out]
Answered(s, out) == Done(s, <<>>, out)

\* The end of write_entry, encode_auto and adopt_fork: a new entry over the
\* session h, the cap on auto entries, the files, the budget.
Publish(s, n, t, h, out) ==
    LET new == [text |-> t, handle |-> h, rev |-> Len(s.sessions[h]) - 1, row |-> Row(t)]
        listed == TouchEntry([s EXCEPT !.entries = With(@, n, new),
                                       !.index = With(@, n, Row(t))], n)
        victims == AutoVictims(listed)
        capped == DropEntries(listed, ToSet(victims))
    IN  Done(EvictOverBudget(capped, n),
             CapRemovals(victims) \o EntryWrites(capped, n) \o <<IndexWrite(capped)>>,
             out)

\* write_entry: the old session goes first, so a failed put drops the entry.
WriteEntry(s, n, t, eng) ==
    LET freed == FreeHandles(s, {n})
        put == InsertSession(freed, <<t>>)
    IN  IF eng.put THEN Publish(put, n, t, FreshHandle(freed), t)
        ELSE Answered(DropEntries(MakeRoom(freed), {n}), None)

\* entry_ids: a session the native store has evicted drops its entry.
EntryIds(s, n) ==
    LET h == s.entries[n].handle
    IN  IF Live(s, h) THEN Answered(EvictOverBudget(Used(s, h), n), SessionText(s, h))
        ELSE Answered(EvictOverBudget(DropEntries(s, {n}), n), None)

\* append_entry: the expected revision is the one the entry carries.
AppendEntry(s, n, t, eng) ==
    LET e == s.entries[n]
        delta == SubSeq(t, Len(e.text) + 1, Len(t))
        lineage == Append(s.sessions[e.handle], SessionText(s, e.handle) \o delta)
        grown == [Used(s, e.handle) EXCEPT
                    !.sessions[e.handle] = lineage,
                    !.entries[n] = [e EXCEPT !.text = e.text \o delta, !.rev = Len(lineage) - 1,
                                             !.row = Row(Last(lineage))],
                    !.index = With(@, n, Row(Last(lineage)))]
    IN  IF Live(s, e.handle) /\ e.rev = Len(s.sessions[e.handle]) - 1 /\ eng.append
        THEN Done(EvictOverBudget(grown, n),
                  EntryWrites(grown, n) \o <<IndexWrite(grown)>>, Last(lineage))
        ELSE Answered(DropEntries(s, {n}), None)

\* encode_session once the entry, if there is one, is resident.
SessionAnswer(s, n, t, eng) ==
    IF n \notin DOMAIN s.entries THEN WriteEntry(s, n, t, eng)
    ELSE LET stored == s.entries[n].text
             touched == TouchEntry(s, n)
         IN  IF stored = t THEN EntryIds(touched, n)
             ELSE IF IsPrefix(stored, t) THEN AppendEntry(touched, n, t, eng)
             ELSE WriteEntry(touched, n, t, eng)

\* encode_auto after the index served nothing.
AutoMiss(s, t, eng) ==
    IF Len(t) < AutoMin THEN Answered(s, None)
    ELSE IF ~eng.put THEN Answered(MakeRoom(s), None)
    ELSE LET h == FreshHandle(s)
             put == InsertSession(s, <<t>>)
             clear == IF AName(t) \in DOMAIN put.entries THEN DropEntries(put, {AName(t)}) ELSE put
         IN  Publish(clear, AName(t), t, h, t)

\* serve_extension over a named session: a fork grows, the session does not.
ForkAnswer(s, n, t, eng) ==
    LET e == s.entries[n]
        h == FreshHandle(s)
        delta == SubSeq(t, Len(e.text) + 1, Len(t))
        source == SessionText(s, e.handle)
        forked == InsertSession(Used(s, e.handle), <<source, source \o delta>>)
        clear == IF AName(t) \in DOMAIN forked.entries
                 THEN DropEntries(forked, {AName(t)}) ELSE forked
    IN  IF ~Live(s, e.handle) THEN Answered(s, None)
        ELSE IF ~eng.append THEN Answered(MakeRoom(Used(s, e.handle)), None)
        ELSE IF Len(t) < AutoMin THEN Answered(EvictSessions(forked, {h}), source \o delta)
        ELSE Publish(clear, AName(t), t, h, source \o delta)

\* serve_from_index for a resident candidate that is a prefix of t; a lookup
\* that comes back empty is a miss.
AutoAnswer(s, n, t, eng) ==
    LET touched == TouchEntry(s, n)
        served == IF s.entries[n].text = t THEN EntryIds(touched, n)
                  ELSE IF IsAuto(n) THEN AppendEntry(touched, n, t, eng)
                  ELSE ForkAnswer(touched, n, t, eng)
    IN  IF served.out # None THEN served ELSE AutoMiss(served.mem, t, eng)

\* query_digests and the candidates of serve_from_index, longest first.
Candidates(s, t) ==
    LET hits == {n \in DOMAIN s.index :
                    /\ s.index[n].len \in 1..Len(t)
                    /\ s.index[n].dig = Digest(SubSeq(t, 1, s.index[n].len))}
        before(n, o) == \/ s.index[n].len > s.index[o].len
                        \/ s.index[n].len = s.index[o].len /\ NameRank(n) < NameRank(o)
    IN  SetToSortSeq(hits, before)

-----------------------------------------------------------------------------
(* Recovery from the directory. *)

\* Fault: only the lengths are compared.
BindingFits(raw, b, candidate) ==
    b # None /\ b.row.len <= Len(candidate) /\ b.row.len = Len(Last(raw.lineage))

\* import_session: an unsealed record carries its whole text.
\* import_session_with_binding_candidate: a sealed one needs the binding of
\* this very record and a candidate that starts with the bound text.
BindingHolds(raw, b, candidate) ==
    /\ b # None
    /\ b.row.len <= Len(candidate)
    /\ b.hash = raw.lineage
    /\ b.row.len = Len(Last(raw.lineage))
    /\ b.text = SubSeq(candidate, 1, b.row.len)
    /\ b.row = Row(SubSeq(candidate, 1, b.row.len))

\* resident, once its record is accepted for the text t.
Recovered(s, n, raw, t) ==
    [InsertSession(s, raw.lineage) EXCEPT
        !.entries[n] = [text |-> t, handle |-> FreshHandle(s),
                        rev |-> Len(raw.lineage) - 1, row |-> Row(t)],
        !.index = With(@, n, Row(t))]

\* rebuild_index: a sealed record without its own binding is skipped.
RebuildIndex(d) ==
    LET owned(n) == /\ d.bind[n] # None
                    /\ d.bind[n].hash = d.rec[n].lineage
                    /\ d.bind[n].row.len = Len(Last(d.rec[n].lineage))
        known == {n \in Name : d.rec[n] # None /\ (d.rec[n].sealed => owned(n))}
    IN  [n \in known |-> IF d.rec[n].sealed THEN d.bind[n].row
                         ELSE Row(Last(d.rec[n].lineage))]

-----------------------------------------------------------------------------
(* Steps of a process. *)

EmptyStore == [entries |-> <<>>, lru |-> <<>>, index |-> <<>>, sessions |-> <<>>,
               recent |-> <<>>]
EmptyDisk == [meta |-> FALSE, index |-> None, rec |-> [n \in Name |-> None],
              bind |-> [n \in Name |-> None]]
NoCall == [pc |-> "idle", lookup |-> FALSE, name |-> None, text |-> None,
           todo |-> <<>>, raw |-> None, writes |-> <<>>, out |-> None]

Init ==
    /\ up = [p \in Process |-> FALSE]
    /\ mem = [p \in Process |-> EmptyStore]
    /\ call = [p \in Process |-> NoCall]
    /\ disk = EmptyDisk
    /\ tmp = {}
    /\ calls = 0 /\ faults = 0

At(p, pc) == call[p].pc = pc
MayFault == faults < MaxFaults

\* What the engine calls of a step return; an error of theirs is a fault.
Works == [append |-> TRUE, put |-> TRUE]
EngineResult == [append : BOOLEAN, put : BOOLEAN]
EngineReturns(eng) ==
    /\ eng # Works => MayFault
    /\ faults' = IF eng = Works THEN faults ELSE faults + 1

\* The store after a call's work, and the files it still has to write.
Finish(p, res) ==
    /\ mem' = [mem EXCEPT ![p] = res.mem]
    /\ call' = [call EXCEPT ![p] =
                    [@ EXCEPT !.pc = IF res.writes = <<>> THEN "idle" ELSE "files",
                              !.writes = res.writes, !.out = res.out, !.todo = <<>>]]

Begin(p, c) ==
    /\ up[p] /\ At(p, "idle") /\ calls < MaxCalls
    /\ calls' = calls + 1
    /\ call' = [call EXCEPT ![p] = c]
    /\ UNCHANGED <<up, mem, disk, tmp, faults>>

\* encode_session: an entry the store knows but does not hold is read first.
EncodeSession(p, id, t) ==
    LET n == SName(id)
        absent == n \in DOMAIN mem[p].entries /\ ~Resident(mem[p], n)
    IN  Begin(p, [NoCall EXCEPT !.pc = IF absent THEN "record" ELSE "serve",
                                !.name = n, !.text = t])

Serve(p) ==
    /\ At(p, "serve")
    /\ \E eng \in EngineResult :
        /\ EngineReturns(eng)
        /\ Finish(p, SessionAnswer(mem[p], call[p].name, call[p].text, eng))
    /\ UNCHANGED <<up, disk, tmp, calls>>

\* encode_auto: the candidates of the index are listed once.
EncodeAuto(p, t) ==
    Begin(p, [NoCall EXCEPT !.pc = "scan", !.lookup = TRUE, !.text = t,
                            !.todo = Candidates(mem[p], t)])

\* The candidates are used up: a miss.
ScanEnds(p) ==
    /\ At(p, "scan") /\ call[p].todo = <<>>
    /\ \E eng \in EngineResult :
        /\ EngineReturns(eng)
        /\ Finish(p, AutoMiss(mem[p], call[p].text, eng))
    /\ UNCHANGED <<up, disk, tmp, calls>>

\* The next candidate is resident and a prefix of the text, byte for byte.
ScanHits(p) ==
    LET n == Head(call[p].todo) IN
    /\ At(p, "scan") /\ call[p].todo # <<>>
    /\ n \in DOMAIN mem[p].entries /\ Resident(mem[p], n)
    /\ IsPrefix(mem[p].entries[n].text, call[p].text)
    /\ \E eng \in EngineResult :
        /\ EngineReturns(eng)
        /\ Finish(p, AutoAnswer(mem[p], n, call[p].text, eng))
    /\ UNCHANGED <<up, disk, tmp, calls>>

\* The next candidate is read, or only its digest agreed: collision_rejects.
ScanNext(p) ==
    LET n == Head(call[p].todo)
        absent == n \in DOMAIN mem[p].entries /\ ~Resident(mem[p], n)
    IN
    /\ At(p, "scan") /\ call[p].todo # <<>>
    /\ ~(n \in DOMAIN mem[p].entries /\ Resident(mem[p], n)
            /\ IsPrefix(mem[p].entries[n].text, call[p].text))
    /\ call' = [call EXCEPT ![p] =
            [@ EXCEPT !.pc = IF absent THEN "record" ELSE "scan", !.name = n,
                      !.todo = Tail(call[p].todo)]]
    /\ mem' = [mem EXCEPT ![p].index =
                    IF n \in DOMAIN mem[p].entries THEN @ ELSE Without(@, {n})]
    /\ UNCHANGED <<up, disk, tmp, calls, faults>>

\* resident is done: a named call serves its session, a lookup looks at the
\* candidate again or at the next one.
Resume(p, s, recovered) ==
    /\ mem' = [mem EXCEPT ![p] = s]
    /\ call' = [call EXCEPT ![p] =
            [@ EXCEPT !.pc = IF call[p].lookup THEN "scan" ELSE "serve", !.raw = None,
                      !.todo = IF call[p].lookup /\ recovered
                               THEN <<call[p].name>> \o call[p].todo ELSE call[p].todo]]

\* resident reads the record; its import encodes the tail again.
ReadRecord(p) ==
    LET n == call[p].name
        raw == disk.rec[n]
    IN
    /\ At(p, "record")
    /\ IF raw # None /\ raw.sealed
       THEN /\ call' = [call EXCEPT ![p] = [@ EXCEPT !.pc = "binding", !.raw = raw]]
            /\ UNCHANGED <<mem, faults>>
       ELSE \E eng \in EngineResult :
            /\ EngineReturns(eng)
            /\ IF raw # None /\ eng.put
               THEN Resume(p, Recovered(mem[p], n, raw, Last(raw.lineage)), TRUE)
               ELSE Resume(p, DropEntries(mem[p], {n}), FALSE)
    /\ UNCHANGED <<up, disk, tmp, calls>>

\* resident reads the binding of the record it has read before.
ReadBinding(p) ==
    LET n == call[p].name
        raw == call[p].raw
        b == disk.bind[n]
    IN
    /\ At(p, "binding")
    /\ \E eng \in EngineResult :
        /\ EngineReturns(eng)
        /\ IF BindingHolds(raw, b, call[p].text) /\ eng.put
           THEN Resume(p, Recovered(mem[p], n, raw, SubSeq(call[p].text, 1, b.row.len)), TRUE)
           ELSE Resume(p, DropEntries(mem[p], {n}), FALSE)
    /\ UNCHANGED <<up, disk, tmp, calls>>

-----------------------------------------------------------------------------
(* The directory: open, atomic_write, and what can happen to it. *)

\* open, open_directory: without metadata the directory is fresh.  A second
\* process on the directory is a fault, as the facade's contract has it.
Open(p) ==
    LET shared == \E q \in Process : up[q] \/ ~At(q, "idle") IN
    /\ ~up[p] /\ At(p, "idle")
    /\ shared => MayFault
    /\ faults' = IF shared THEN faults + 1 ELSE faults
    /\ call' = [call EXCEPT ![p] =
            IF ~Persistent \/ disk.meta THEN [NoCall EXCEPT !.pc = "load"]
            ELSE [NoCall EXCEPT !.pc = "files", !.writes = <<Write("meta", None, TRUE)>>]]
    /\ UNCHANGED <<up, mem, disk, tmp, calls>>

\* The order a BTreeMap keeps its names in.
InOrder(names) ==
    LET place == 1..Cardinality(names) IN
    CHOOSE f \in [place -> names] :
        \A i, j \in place : i < j => NameRank(f[i]) < NameRank(f[j])

\* load_or_rebuild_index: every entry starts out of memory.
Load(p) ==
    LET index == IF ~Persistent THEN <<>>
                 ELSE IF disk.index # None THEN disk.index ELSE RebuildIndex(disk)
        cold(n) == [text |-> None, handle |-> None, rev |-> 0, row |-> index[n]]
        lost == Persistent /\ disk.index = None
        s == [EmptyStore EXCEPT
                !.index = index, !.entries = [n \in DOMAIN index |-> cold(n)],
                !.lru = InOrder(DOMAIN index)]
    IN
    /\ At(p, "load")
    /\ up' = [up EXCEPT ![p] = TRUE]
    /\ mem' = [mem EXCEPT ![p] = s]
    /\ call' = [call EXCEPT ![p] =
            IF lost THEN [@ EXCEPT !.pc = "files", !.writes = <<IndexWrite(s)>>]
            ELSE [@ EXCEPT !.pc = "idle"]]
    /\ UNCHANGED <<disk, tmp, calls, faults>>

FileOf(p) == Head(call[p].writes)
TmpOf(p) == <<p, FileOf(p).kind, FileOf(p).name>>

Stored(d, w, v) ==
    CASE w.kind = "meta" -> [d EXCEPT !.meta = v]
      [] w.kind = "index" -> [d EXCEPT !.index = v]
      [] w.kind = "rec" -> [d EXCEPT !.rec[w.name] = v]
      [] OTHER -> [d EXCEPT !.bind[w.name] = v]

\* The call after a file: the rest of its files, the load of an open, or home.
NextFile(p, rest) ==
    call' = [call EXCEPT ![p] =
        [@ EXCEPT !.writes = rest,
                  !.pc = IF rest # <<>> THEN "files" ELSE IF up[p] THEN "idle" ELSE "load"]]

\* drop_entry with remove_file.
RemoveFile(p) ==
    /\ At(p, "files") /\ FileOf(p).op = "remove"
    /\ disk' = Stored(disk, FileOf(p), None)
    /\ NextFile(p, Tail(call[p].writes))
    /\ UNCHANGED <<up, mem, tmp, calls, faults>>

\* atomic_write: create_new of the temporary file, and its bytes.
CreateTmp(p) ==
    /\ At(p, "files") /\ FileOf(p).op = "write" /\ TmpOf(p) \notin tmp
    /\ tmp' = tmp \cup {TmpOf(p)}
    /\ call' = [call EXCEPT ![p].pc = "rename"]
    /\ UNCHANGED <<up, mem, disk, calls, faults>>

Rename(p) ==
    /\ At(p, "rename")
    /\ disk' = Stored(disk, FileOf(p), FileOf(p).val)
    /\ tmp' = tmp \ {TmpOf(p)}
    /\ NextFile(p, Tail(call[p].writes))
    /\ UNCHANGED <<up, mem, calls, faults>>

\* A failed write: of the metadata it fails the open, of a record it skips
\* the binding, and it is only counted otherwise.  A temporary file left by a
\* crash under the same process id fails the next write of its target once.
WriteFails(p) ==
    LET rest == Tail(call[p].writes) IN
    /\ \/ At(p, "files") /\ FileOf(p).op = "write"
       \/ At(p, "rename")
    /\ LET left == At(p, "files") /\ TmpOf(p) \in tmp IN
       /\ left \/ MayFault
       /\ faults' = IF left THEN faults ELSE faults + 1
    /\ tmp' = tmp \ {TmpOf(p)}
    /\ IF FileOf(p).kind = "meta" THEN call' = [call EXCEPT ![p] = NoCall]
       ELSE NextFile(p, IF FileOf(p).kind = "rec" THEN Tail(rest) ELSE rest)
    /\ UNCHANGED <<up, mem, disk, calls>>

\* The process ends at any point; it may come back under the same id or not.
Crash(p) ==
    /\ MayFault
    /\ up[p] \/ ~At(p, "idle")
    /\ faults' = faults + 1
    /\ up' = [up EXCEPT ![p] = FALSE]
    /\ mem' = [mem EXCEPT ![p] = EmptyStore]
    /\ call' = [call EXCEPT ![p] = NoCall]
    /\ tmp' \in {tmp, {f \in tmp : f[1] # p}}
    /\ UNCHANGED <<disk, calls>>

\* A derived or private file is deleted or no longer decodes.
LoseFile ==
    /\ MayFault /\ faults' = faults + 1
    /\ \/ disk.index # None /\ disk' = [disk EXCEPT !.index = None]
       \/ \E n \in Name : disk.rec[n] # None /\ disk' = [disk EXCEPT !.rec[n] = None]
       \/ \E n \in Name : disk.bind[n] # None /\ disk' = [disk EXCEPT !.bind[n] = None]
    /\ UNCHANGED <<up, mem, call, tmp, calls>>

ProcessStep(p) ==
    \/ Open(p) \/ Load(p)
    \/ \E t \in Text : EncodeAuto(p, t) \/ \E id \in SessionId : EncodeSession(p, id, t)
    \/ Serve(p) \/ ScanEnds(p) \/ ScanHits(p) \/ ScanNext(p)
    \/ ReadRecord(p) \/ ReadBinding(p)
    \/ RemoveFile(p) \/ CreateTmp(p) \/ Rename(p) \/ WriteFails(p) \/ Crash(p)

Next == LoseFile \/ \E p \in Process : ProcessStep(p)

Spec == Init /\ [][Next]_vars
-----------------------------------------------------------------------------
(* Properties. *)

\* Whatever the files say and whenever the process died, a call that answers
\* from the store answers with the ids of the text it was asked for; every
\* other case is a miss and a full encode (facade.md, "anything that fails is
\* a miss, never a wrong answer").
ServedExact ==
    \A p \in Process : call[p].out # None => call[p].out = call[p].text

\* Between calls the entries, the lru and the index name the same entries,
\* every native session belongs to exactly one entry (none is leaked), and a
\* resident entry whose session is alive has its text and revision.
EntriesAccounted ==
    \A p \in Process : up[p] /\ At(p, "idle") =>
        LET s == mem[p] IN
        /\ DOMAIN s.entries = DOMAIN s.index
        /\ ToSet(s.lru) = DOMAIN s.entries /\ IsInjective(s.lru)
        /\ \A h \in DOMAIN s.sessions :
                Cardinality({n \in DOMAIN s.entries : s.entries[n].handle = h}) = 1
        /\ \A n \in DOMAIN s.entries :
                LET e == s.entries[n] IN
                /\ e.row = s.index[n]
                /\ e.handle # None /\ Live(s, e.handle) =>
                        /\ e.text = SessionText(s, e.handle)
                        /\ e.rev = Len(s.sessions[e.handle]) - 1

\* A named call that answered leaves no more resident bytes than the budget,
\* also when the entry it served is larger than the budget by itself and when
\* a lookup before it has made entries resident.
BudgetRestored ==
    \A p \in Process :
        up[p] /\ At(p, "idle") /\ ~call[p].lookup /\ call[p].out # None
            => ResidentBytes(mem[p]) <= Budget

\* As long as no file was lost, no write failed and no second process came,
\* whatever a store knows is in its directory in a form that a restart accepts
\* for the text of that entry: record and binding of one revision, and a row
\* of the index that proposes it.
KnownIsRecoverable ==
    faults = 0 /\ Persistent =>
        \A p \in Process : up[p] /\ At(p, "idle") =>
            \A n \in DOMAIN mem[p].entries :
                /\ disk.rec[n] # None
                /\ LET t == Last(disk.rec[n].lineage) IN
                   /\ mem[p].index[n] = Row(t)
                   /\ disk.index # None /\ n \in DOMAIN disk.index
                   /\ disk.index[n] = Row(t)
                   /\ disk.rec[n].sealed => BindingHolds(disk.rec[n], disk.bind[n], t)

=============================================================================
