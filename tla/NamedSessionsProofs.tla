------------------------ MODULE NamedSessionsProofs ------------------------
(***************************************************************************)
(* Proofs about NamedSessions: what a durable operation acknowledged is in  *)
(* the database, a healthy store agrees with it, and every name has one     *)
(* writer whose revision is current.                                        *)
(***************************************************************************)
EXTENDS NamedSessions, FiniteSetTheorems, TLAPS

SessionType == [text : Seq(Char), rev : Nat]
ClientType ==
    [pc : {"none", "open", "extend", "reading", "dropped"}, name : Name,
     handle : Nat, rev : Nat, want : Seq(Char), prefix : Nat]

IsStateRecord(st) ==
    st = [sessions |-> st.sessions, lru |-> st.lru, next |-> st.next,
          names |-> st.names, leased |-> st.leased,
          transcripts |-> st.transcripts, fault |-> st.fault]

\* A table of sessions whose handles are all below next.
GoodTable(ss, next) ==
    /\ ss = [h \in DOMAIN ss |-> ss[h]]
    /\ DOMAIN ss \subseteq 1..(next - 1)
    /\ \A h \in DOMAIN ss : ss[h] \in SessionType

\* Names denote distinct handles that were given out; durable sessions have
\* transcripts, which are the texts of the live ones.
GoodNames(ss, names, transcripts, next) ==
    /\ names = [n \in DOMAIN names |-> names[n]]
    /\ DOMAIN names \subseteq Name
    /\ \A n \in DOMAIN names : names[n] \in 1..(next - 1)
    /\ \A m, n \in DOMAIN names : names[m] = names[n] => m = n
    /\ transcripts = [n \in DOMAIN transcripts |-> transcripts[n]]
    /\ DOMAIN transcripts = IF Durable THEN DOMAIN names ELSE {}
    /\ Durable => \A n \in DOMAIN names :
        /\ transcripts[n] \in Seq(Char)
        /\ names[n] \in DOMAIN ss => transcripts[n] = ss[names[n]].text

GoodState(st) ==
    /\ IsStateRecord(st)
    /\ st.next \in Nat \ {0}
    /\ st.leased \subseteq Name
    /\ st.fault \in BOOLEAN
    /\ GoodTable(st.sessions, st.next)
    /\ GoodNames(st.sessions, st.names, st.transcripts, st.next)

\* A database: either without rows, or one a start can load.
GoodFile(f) ==
    /\ f = [kind |-> f.kind, sessions |-> f.sessions, names |-> f.names,
            transcripts |-> f.transcripts]
    /\ ~Durable \/ f.kind # "saved" => DOMAIN f.names = {}
    /\ \E next \in Nat \ {0} :
        /\ GoodTable(f.sessions, next)
        /\ GoodNames(f.sessions, f.names, f.transcripts, next)
    /\ \A n \in DOMAIN f.names : f.names[n] \in DOMAIN f.sessions

-----------------------------------------------------------------------------
(* The operators on the state. *)

\* st2 is st with some sessions gone.
Shrunk(st, st2) ==
    /\ IsStateRecord(st2)
    /\ st2.next = st.next /\ st2.names = st.names /\ st2.leased = st.leased
    /\ st2.transcripts = st.transcripts /\ st2.fault = st.fault
    /\ st2.sessions = [h \in DOMAIN st2.sessions |-> st.sessions[h]]
    /\ DOMAIN st2.sessions \subseteq DOMAIN st.sessions

\* Losing sessions keeps the names good.
LEMMA NamesShrink ==
    ASSUME NEW ss, NEW names, NEW transcripts, NEW next,
           GoodNames(ss, names, transcripts, next),
           NEW ss2, \A h \in DOMAIN ss2 : h \in DOMAIN ss /\ ss2[h] = ss[h]
    PROVE  GoodNames(ss2, names, transcripts, next)
<1>1. \A n \in DOMAIN names : names[n] \in DOMAIN ss2 =>
        names[n] \in DOMAIN ss /\ ss2[names[n]] = ss[names[n]]
  OBVIOUS
<1> QED
  BY <1>1 DEF GoodNames

\* Losing sessions keeps a state good.
LEMMA ShrunkGood ==
    ASSUME NEW st, NEW st2, GoodState(st), Shrunk(st, st2)
    PROVE  GoodState(st2)
<1>1. \A h \in DOMAIN st2.sessions : st2.sessions[h] = st.sessions[h]
  BY DEF Shrunk
<1>2. GoodTable(st2.sessions, st2.next)
  BY <1>1 DEF GoodState, GoodTable, Shrunk
<1>3. GoodNames(st2.sessions, st2.names, st2.transcripts, st2.next)
  <2>1. \A h \in DOMAIN st2.sessions :
          h \in DOMAIN st.sessions /\ st2.sessions[h] = st.sessions[h]
    BY <1>1 DEF Shrunk
  <2>2. GoodNames(st2.sessions, st.names, st.transcripts, st.next)
    BY <2>1, NamesShrink DEF GoodState
  <2> QED
    BY <2>2 DEF Shrunk
<1> QED
  BY <1>2, <1>3 DEF GoodState, Shrunk

\* Losing sessions twice is losing sessions.
LEMMA ShrunkTwice ==
    ASSUME NEW a, NEW b, NEW c, Shrunk(a, b), Shrunk(b, c)
    PROVE  Shrunk(a, c)
<1>1. \A h \in DOMAIN b.sessions : b.sessions[h] = a.sessions[h]
  BY DEF Shrunk
<1>2. c.sessions = [h \in DOMAIN c.sessions |-> a.sessions[h]]
  BY <1>1 DEF Shrunk
<1> QED
  BY <1>2 DEF Shrunk

\* Touching a session loses none.
LEMMA TouchedShrinks ==
    ASSUME NEW st, NEW h, GoodState(st)
    PROVE  Shrunk(st, Touched(st, h)) /\ Touched(st, h).sessions = st.sessions
<1> DEFINE q == Append(Remove(st.lru, h), h)
<1>1. Touched(st, h) = [st EXCEPT !.lru = q]
  BY DEF Touched
<1> HIDE DEF q
<1> QED
  BY <1>1 DEF GoodState, GoodTable, IsStateRecord, Shrunk

\* evict loses one session.
LEMMA EvictedShrinks ==
    ASSUME NEW st, NEW h, GoodState(st)
    PROVE  Shrunk(st, Evicted(st, h))
<1> DEFINE q == Remove(st.lru, h)
           ss == [x \in DOMAIN st.sessions \ {h} |-> st.sessions[x]]
<1>1. Evicted(st, h) = [st EXCEPT !.sessions = ss, !.lru = q]
  BY DEF Evicted, Unbind, Restrict
<1> HIDE DEF q
<1>2. DOMAIN ss \subseteq DOMAIN st.sessions /\ ss = [x \in DOMAIN ss |-> st.sessions[x]]
  OBVIOUS
<1> HIDE DEF ss
<1>3. /\ Evicted(st, h).sessions = ss /\ Evicted(st, h).next = st.next
      /\ Evicted(st, h).names = st.names /\ Evicted(st, h).leased = st.leased
      /\ Evicted(st, h).transcripts = st.transcripts /\ Evicted(st, h).fault = st.fault
      /\ IsStateRecord(Evicted(st, h))
  BY <1>1 DEF GoodState, IsStateRecord
<1> QED
  BY <1>2, <1>3 DEF Shrunk

\* So does making room.
LEMMA WithRoomShrinks ==
    ASSUME NEW st, GoodState(st)
    PROVE  Shrunk(st, WithRoom(st))
<1>1. Shrunk(st, st)
  BY DEF GoodState, GoodTable, Shrunk
<1> QED
  BY <1>1, EvictedShrinks DEF WithRoom

\* st2 is st with the session of text t under the next handle, and maybe some
\* sessions gone.
Added(st, st2, t) ==
    /\ IsStateRecord(st2)
    /\ st2.next = st.next + 1 /\ st2.names = st.names /\ st2.leased = st.leased
    /\ st2.transcripts = st.transcripts /\ st2.fault = st.fault
    /\ st2.sessions = [h \in DOMAIN st2.sessions |-> st2.sessions[h]]
    /\ st.next \in DOMAIN st2.sessions
    /\ st2.sessions[st.next] = [text |-> t, rev |-> 0]
    /\ \A h \in DOMAIN st2.sessions \ {st.next} :
        h \in DOMAIN st.sessions /\ st2.sessions[h] = st.sessions[h]

\* Adding a session keeps a state good: no name denotes the new handle yet.
LEMMA AddedGood ==
    ASSUME NEW st, NEW st2, NEW t \in Seq(Char), GoodState(st), Added(st, st2, t)
    PROVE  GoodState(st2)
<1>1. st2.next \in Nat \ {0} /\ st2.next = st.next + 1 /\ st.next \in Nat \ {0}
  BY DEF GoodState, Added
<1>2. GoodTable(st2.sessions, st2.next)
  <2>1. [text |-> t, rev |-> 0] \in SessionType
    BY DEF SessionType
  <2>2. \A h \in DOMAIN st2.sessions : h \in 1..(st2.next - 1) /\ st2.sessions[h] \in SessionType
    BY <1>1, <2>1, SMTT(30) DEF Added, GoodState, GoodTable
  <2> QED
    BY <2>2 DEF Added, GoodTable
<1>3. GoodNames(st2.sessions, st2.names, st2.transcripts, st2.next)
  <2>1. GoodNames(st.sessions, st.names, st.transcripts, st.next)
    BY DEF GoodState
  <2>2. \A n \in DOMAIN st.names : /\ st.names[n] \in 1..(st2.next - 1)
                                   /\ st.names[n] # st.next
    BY <1>1, <2>1 DEF GoodNames
  <2>3. \A n \in DOMAIN st.names : st.names[n] \in DOMAIN st2.sessions =>
          /\ st.names[n] \in DOMAIN st.sessions
          /\ st2.sessions[st.names[n]] = st.sessions[st.names[n]]
    BY <2>2 DEF Added
  <2>4. GoodNames(st2.sessions, st.names, st.transcripts, st2.next)
    BY <2>1, <2>2, <2>3 DEF GoodNames
  <2> QED
    BY <2>4 DEF Added
<1> QED
  BY <1>1, <1>2, <1>3 DEF GoodState, Added

\* insert_session adds one.
LEMMA InsertedAdds ==
    ASSUME NEW st, NEW t, GoodState(st)
    PROVE  Added(st, Inserted(st, t), t)
<1> DEFINE v == [text |-> t, rev |-> 0]
           ss == [y \in DOMAIN st.sessions \cup {st.next} |->
                    IF y = st.next THEN v ELSE st.sessions[y]]
           q == Append(st.lru, st.next)
<1>1. Inserted(st, t) = [st EXCEPT !.sessions = ss, !.lru = q, !.next = st.next + 1]
  BY DEF Inserted, Bind, GoodState, IsStateRecord
<1>2. /\ ss = [h \in DOMAIN ss |-> ss[h]] /\ st.next \in DOMAIN ss /\ ss[st.next] = v
      /\ \A h \in DOMAIN ss \ {st.next} : h \in DOMAIN st.sessions /\ ss[h] = st.sessions[h]
  OBVIOUS
<1> HIDE DEF ss, q
<1>3. /\ Inserted(st, t).sessions = ss /\ Inserted(st, t).next = st.next + 1
      /\ Inserted(st, t).names = st.names /\ Inserted(st, t).leased = st.leased
      /\ Inserted(st, t).transcripts = st.transcripts /\ Inserted(st, t).fault = st.fault
      /\ IsStateRecord(Inserted(st, t))
  BY <1>1 DEF GoodState, IsStateRecord
<1> QED
  BY <1>2, <1>3 DEF Added

\* Losing sessions before one is added is part of adding.
LEMMA AddedAfterShrunk ==
    ASSUME NEW a, NEW b, NEW c, NEW t, Shrunk(a, b), Added(b, c, t)
    PROVE  Added(a, c, t)
<1>1. \A h \in DOMAIN b.sessions : h \in DOMAIN a.sessions /\ b.sessions[h] = a.sessions[h]
  BY DEF Shrunk
<1> QED
  BY <1>1 DEF Shrunk, Added

\* put adds a session.
LEMMA StoredAdds ==
    ASSUME NEW st, NEW t, GoodState(st)
    PROVE  Added(st, Stored(st, t), t)
<1>1. Shrunk(st, WithRoom(st)) /\ GoodState(WithRoom(st))
  BY WithRoomShrinks, ShrunkGood
<1> QED
  BY <1>1, InsertedAdds, AddedAfterShrunk DEF Stored

\* fork adds a copy.
LEMMA ForkedAdds ==
    ASSUME NEW st, NEW h, GoodState(st)
    PROVE  Added(st, Forked(st, h), st.sessions[h].text)
<1>1. Shrunk(st, Touched(st, h)) /\ GoodState(Touched(st, h))
  BY TouchedShrinks, ShrunkGood
<1>2. /\ Shrunk(Touched(st, h), WithRoom(Touched(st, h)))
      /\ GoodState(WithRoom(Touched(st, h)))
  BY <1>1, WithRoomShrinks, ShrunkGood
<1>3. Shrunk(st, WithRoom(Touched(st, h)))
  BY <1>1, <1>2, ShrunkTwice
<1> QED
  BY <1>2, <1>3, InsertedAdds, AddedAfterShrunk DEF Forked

\* The fields of a state in which a name was bound.
LEMMA NamedFields ==
    ASSUME NEW st, NEW n, NEW h, NEW text, GoodState(st)
    PROVE  LET st2 == Named(st, n, h, text) IN
           /\ IsStateRecord(st2)
           /\ st2.sessions = st.sessions /\ st2.next = st.next
           /\ st2.leased = st.leased /\ st2.fault = st.fault
           /\ st2.names = Bind(st.names, n, h)
           /\ st2.transcripts = IF Durable THEN Bind(st.transcripts, n, text)
                                ELSE st.transcripts
<1> DEFINE a == Bind(st.names, n, h)
           b == IF Durable THEN Bind(st.transcripts, n, text) ELSE st.transcripts
<1>1. Named(st, n, h, text) = [st EXCEPT !.names = a, !.transcripts = b]
  BY DEF Named
<1> HIDE DEF a, b
<1>2. LET st2 == Named(st, n, h, text) IN
      /\ IsStateRecord(st2)
      /\ st2.sessions = st.sessions /\ st2.next = st.next
      /\ st2.leased = st.leased /\ st2.fault = st.fault
      /\ st2.names = a /\ st2.transcripts = b
  BY <1>1 DEF GoodState, IsStateRecord
<1> QED
  BY <1>2 DEF a, b

\* Binding a name to a live session no other name denotes keeps a state good.
LEMMA NamedGood ==
    ASSUME NEW st, NEW n \in Name, NEW h \in DOMAIN st.sessions, GoodState(st),
           \A m \in DOMAIN st.names \ {n} : st.names[m] # h
    PROVE  GoodState(Named(st, n, h, st.sessions[h].text))
<1> DEFINE text == st.sessions[h].text
           st2 == Named(st, n, h, text)
           a == Bind(st.names, n, h)
           b == IF Durable THEN Bind(st.transcripts, n, text) ELSE st.transcripts
<1>1. /\ IsStateRecord(st2) /\ st2.sessions = st.sessions /\ st2.next = st.next
      /\ st2.leased = st.leased /\ st2.fault = st.fault
      /\ st2.names = a /\ st2.transcripts = b
  BY NamedFields
<1>2. GoodNames(st.sessions, st.names, st.transcripts, st.next) /\ GoodTable(st.sessions, st.next)
  BY DEF GoodState
<1>3. text \in Seq(Char) /\ h \in 1..(st.next - 1)
  BY <1>2 DEF GoodTable, SessionType
<1>4. /\ a = [y \in DOMAIN a |-> a[y]] /\ DOMAIN a = DOMAIN st.names \cup {n}
      /\ a[n] = h /\ \A y \in DOMAIN st.names \ {n} : a[y] = st.names[y]
  BY DEF Bind
<1>5. /\ b = [y \in DOMAIN b |-> b[y]]
      /\ DOMAIN b = IF Durable THEN DOMAIN a ELSE {}
      /\ Durable => b[n] = text /\ \A y \in DOMAIN st.names \ {n} : b[y] = st.transcripts[y]
  <2>1. CASE Durable
    <3>1. b = Bind(st.transcripts, n, text) /\ DOMAIN st.transcripts = DOMAIN st.names
      BY <2>1, <1>2 DEF GoodNames
    <3>2. /\ b = [y \in DOMAIN b |-> b[y]] /\ DOMAIN b = DOMAIN st.transcripts \cup {n}
          /\ b[n] = text
          /\ \A y \in DOMAIN st.transcripts \ {n} : b[y] = st.transcripts[y]
      BY <3>1 DEF Bind
    <3> HIDE DEF a, b, text
    <3> QED
      BY <3>1, <3>2, <2>1, <1>4
  <2>2. CASE ~Durable
    BY <2>2, <1>2 DEF GoodNames
  <2> QED
    BY <2>1, <2>2
<1> HIDE DEF a, b
<1>6. \A m \in DOMAIN a : m \in Name /\ a[m] \in 1..(st.next - 1)
  BY <1>2, <1>3, <1>4 DEF GoodNames
<1>7. \A l, m \in DOMAIN a : a[l] = a[m] => l = m
  BY <1>2, <1>4 DEF GoodNames
<1>8. Durable => \A m \in DOMAIN a :
        /\ b[m] \in Seq(Char)
        /\ a[m] \in DOMAIN st.sessions => b[m] = st.sessions[a[m]].text
  BY <1>2, <1>3, <1>4, <1>5 DEF GoodNames
<1>9. GoodNames(st.sessions, a, b, st.next)
  BY <1>4, <1>5, <1>6, <1>7, <1>8 DEF GoodNames
<1> QED
  BY <1>1, <1>2, <1>9 DEF GoodState

\* append_patch and its transcript.
GrownSaved(st, h, n, delta) ==
    IF Durable THEN [Grown(st, h, delta) EXCEPT !.transcripts[n] = @ \o delta]
    ELSE Grown(st, h, delta)

\* The session and the transcript after it, kept folded in the lemmas below.
Longer(s, delta) == [text |-> s.text \o delta, rev |-> s.rev + 1]
Joined(t, delta) == t \o delta

\* st2 is st after an append of delta to the session h of name n.
AppendedTo(st, st2, h, n, delta) ==
    /\ IsStateRecord(st2)
    /\ st2.next = st.next /\ st2.names = st.names
    /\ st2.leased = st.leased /\ st2.fault = st.fault
    /\ st2.sessions = [st.sessions EXCEPT ![h] = Longer(st.sessions[h], delta)]
    /\ st2.transcripts = IF Durable THEN [st.transcripts EXCEPT ![n] = Joined(@, delta)]
                         ELSE st.transcripts
    /\ Grown(st, h, delta).sessions = st2.sessions

\* append_patch and its transcript do that.
LEMMA GrownFields ==
    ASSUME NEW st, NEW h, NEW n, NEW delta, GoodState(st),
           h \in DOMAIN st.sessions, n \in DOMAIN st.names
    PROVE  AppendedTo(st, GrownSaved(st, h, n, delta), h, n, delta)
<1> DEFINE v == Longer(st.sessions[h], delta)
           ss == [st.sessions EXCEPT ![h] = v]
           tr == [st.transcripts EXCEPT ![n] = Joined(@, delta)]
           t == Touched(st, h)
<1>1. Shrunk(st, t) /\ t.sessions = st.sessions
  BY TouchedShrinks
<1>2. Grown(st, h, delta) = [t EXCEPT !.sessions = ss]
  BY <1>1 DEF Grown, Shrunk, IsStateRecord, Longer
<1> HIDE DEF ss, t
<1>3. LET g == Grown(st, h, delta) IN
      /\ IsStateRecord(g) /\ g.sessions = ss
      /\ g.next = st.next /\ g.names = st.names /\ g.leased = st.leased
      /\ g.transcripts = st.transcripts /\ g.fault = st.fault
  BY <1>1, <1>2 DEF Shrunk, IsStateRecord
<1> DEFINE g == Grown(st, h, delta)
<1>4. CASE Durable
  <2>1. GrownSaved(st, h, n, delta) = [g EXCEPT !.transcripts = tr]
    BY <1>3, <1>4 DEF GrownSaved, IsStateRecord, Joined
  <2> HIDE DEF g, tr
  <2>2. LET s2 == GrownSaved(st, h, n, delta) IN
        /\ IsStateRecord(s2) /\ s2.sessions = g.sessions
        /\ s2.next = g.next /\ s2.names = g.names /\ s2.leased = g.leased
        /\ s2.transcripts = tr /\ s2.fault = g.fault
    BY <2>1, <1>3 DEF IsStateRecord, g
  <2> QED
    BY <2>2, <1>3, <1>4 DEF g, ss, tr, AppendedTo
<1>5. CASE ~Durable
  BY <1>5, <1>3 DEF GrownSaved, ss, AppendedTo
<1> QED
  BY <1>4, <1>5

\* Appending to the session of a name keeps a state good.
LEMMA GrownGood ==
    ASSUME NEW st, NEW h \in DOMAIN st.sessions, NEW n \in DOMAIN st.names,
           st.names[n] = h, NEW delta \in Seq(Char), GoodState(st)
    PROVE  GoodState(GrownSaved(st, h, n, delta))
<1> DEFINE st2 == GrownSaved(st, h, n, delta)
           v == Longer(st.sessions[h], delta)
           ss == [st.sessions EXCEPT ![h] = v]
           tr == st2.transcripts
<1>1. /\ IsStateRecord(st2) /\ st2.next = st.next /\ st2.names = st.names
      /\ st2.leased = st.leased /\ st2.fault = st.fault
      /\ st2.sessions = ss
      /\ Durable => tr = [st.transcripts EXCEPT ![n] = Joined(@, delta)]
      /\ ~Durable => tr = st.transcripts
  <2>1. AppendedTo(st, st2, h, n, delta)
    BY GrownFields
  <2> HIDE DEF st2
  <2> QED
    BY <2>1 DEF AppendedTo
<1>2. GoodNames(st.sessions, st.names, st.transcripts, st.next) /\ GoodTable(st.sessions, st.next)
  BY DEF GoodState
<1>3. st.sessions[h] \in SessionType
  BY <1>2 DEF GoodTable
<1>4. v \in SessionType /\ v.text = st.sessions[h].text \o delta /\ v.text \in Seq(Char)
  BY <1>3 DEF SessionType, Longer
<1>5. /\ ss = [x \in DOMAIN ss |-> ss[x]] /\ DOMAIN ss = DOMAIN st.sessions
      /\ ss[h] = v /\ \A x \in DOMAIN ss \ {h} : ss[x] = st.sessions[x]
  BY <1>2 DEF GoodTable
<1> HIDE DEF ss, v
<1>6. GoodTable(ss, st.next)
  BY <1>2, <1>4, <1>5 DEF GoodTable
<1>7. /\ tr = [x \in DOMAIN tr |-> tr[x]] /\ DOMAIN tr = DOMAIN st.transcripts
      /\ Durable => /\ tr[n] = Joined(st.transcripts[n], delta)
                    /\ \A x \in DOMAIN st.names \ {n} : tr[x] = st.transcripts[x]
  <2> HIDE DEF st2
  <2> QED
    BY <1>1, <1>2 DEF GoodNames
<1> HIDE DEF tr, st2
<1>8. Durable => tr[n] = v.text
  BY <1>2, <1>4, <1>7 DEF GoodNames, Joined
<1>9. Durable => \A m \in DOMAIN st.names :
        /\ tr[m] \in Seq(Char)
        /\ st.names[m] \in DOMAIN ss => tr[m] = ss[st.names[m]].text
  <2> SUFFICES ASSUME Durable, NEW m \in DOMAIN st.names
               PROVE  /\ tr[m] \in Seq(Char)
                      /\ st.names[m] \in DOMAIN ss => tr[m] = ss[st.names[m]].text
    OBVIOUS
  <2>1. CASE m = n
    BY <2>1, <1>4, <1>5, <1>8
  <2>2. CASE m # n
    <3>1. st.names[m] # h
      BY <2>2, <1>2 DEF GoodNames
    <3> QED
      BY <3>1, <2>2, <1>2, <1>5, <1>7 DEF GoodNames
  <2> QED
    BY <2>1, <2>2
<1>10. GoodNames(ss, st.names, tr, st.next)
  BY <1>2, <1>7, <1>9 DEF GoodNames
<1> QED
  BY <1>1, <1>6, <1>10 DEF GoodState, tr, st2

-----------------------------------------------------------------------------
(* Saving and loading. *)

\* What a save writes can be loaded.
LEMMA WrittenGood ==
    ASSUME NEW st, GoodState(st), Durable, Savable(st)
    PROVE  GoodFile(Written(st))
<1> DEFINE f == Written(st)
<1>1. f = [kind |-> "saved", sessions |-> st.sessions, names |-> st.names,
           transcripts |-> st.transcripts]
  BY DEF Written
<1>2. /\ f = [kind |-> f.kind, sessions |-> f.sessions, names |-> f.names,
              transcripts |-> f.transcripts]
      /\ f.kind = "saved" /\ f.sessions = st.sessions /\ f.names = st.names
      /\ f.transcripts = st.transcripts
  BY <1>1
<1> HIDE DEF f
<1>3. \A n \in DOMAIN f.names : f.names[n] \in DOMAIN f.sessions
  BY <1>2 DEF Savable, IsLive
<1>4. /\ GoodTable(f.sessions, st.next) /\ st.next \in Nat \ {0}
      /\ GoodNames(f.sessions, f.names, f.transcripts, st.next)
  BY <1>2 DEF GoodState
<1> QED
  BY <1>2, <1>3, <1>4 DEF GoodFile, f

\* New handles are positive, at most the number of rows, and different.
LEMMA RenumberedFacts ==
    ASSUME NEW f, GoodFile(f)
    PROVE  /\ Cardinality(DOMAIN f.sessions) \in Nat
           /\ \A h \in DOMAIN f.sessions :
                Renumbered(f, h) \in 1..Cardinality(DOMAIN f.sessions)
           /\ \A g, h \in DOMAIN f.sessions :
                Renumbered(f, g) = Renumbered(f, h) => g = h
<1> DEFINE D == DOMAIN f.sessions
           Upto(h) == {x \in D : x <= h}
<1>1. PICK next \in Nat \ {0} : D \subseteq 1..(next - 1)
  BY DEF GoodFile, GoodTable
<1>2. IsFiniteSet(1..(next - 1))
  BY FS_Interval
<1>3. IsFiniteSet(D) /\ D \subseteq Nat
  BY <1>1, <1>2, FS_Subset
<1>4. Cardinality(D) \in Nat
  BY <1>3, FS_CardinalityType
<1> HIDE DEF D
<1>5. \A h \in D : /\ IsFiniteSet(Upto(h)) /\ Cardinality(Upto(h)) \in Nat
                   /\ Cardinality(Upto(h)) <= Cardinality(D)
                   /\ Cardinality(Upto(h)) # 0
  <2> TAKE h \in D
  <2>1. Upto(h) \in SUBSET D /\ h \in Upto(h)
    BY <1>3
  <2> HIDE DEF Upto
  <2>2. IsFiniteSet(Upto(h)) /\ Cardinality(Upto(h)) <= Cardinality(D)
    BY <2>1, <1>3, FS_Subset
  <2>3. Cardinality(Upto(h)) \in Nat
    BY <2>2, FS_CardinalityType
  <2>4. Cardinality(Upto(h)) # 0
    BY <2>1, <2>2, FS_EmptySet
  <2> QED
    BY <2>2, <2>3, <2>4
<1>6. \A g, h \in D : g < h => Cardinality(Upto(g)) # Cardinality(Upto(h))
  <2> SUFFICES ASSUME NEW g \in D, NEW h \in D, g < h
               PROVE  Cardinality(Upto(g)) # Cardinality(Upto(h))
    OBVIOUS
  <2>0. h <= h /\ ~(h <= g) /\ \A x \in D : x <= g => x <= h
    BY <1>3
  <2>1. Upto(g) \in SUBSET Upto(h) /\ h \in Upto(h) /\ h \notin Upto(g)
    BY <2>0
  <2>2. IsFiniteSet(Upto(h))
    BY <1>5
  <2> HIDE DEF Upto
  <2> QED
    BY <2>1, <2>2, FS_Subset
<1>7. \A h \in D : Renumbered(f, h) = Cardinality(Upto(h))
  BY DEF Renumbered, D
<1> HIDE DEF Upto
<1>8. \A h \in D : Renumbered(f, h) \in 1..Cardinality(D)
  BY <1>4, <1>5, <1>7
<1>9. \A g, h \in D : Renumbered(f, g) = Renumbered(f, h) => g = h
  <2> SUFFICES ASSUME NEW g \in D, NEW h \in D, g # h
               PROVE  Cardinality(Upto(g)) # Cardinality(Upto(h))
    BY <1>7
  <2>1. g < h \/ h < g
    BY <1>3
  <2> QED
    BY <2>1, <1>6
<1> QED
  BY <1>4, <1>8, <1>9 DEF D

\* Loading gives a good state with the names, transcripts and sessions saved.
LEMMA LoadedGood ==
    ASSUME NEW f, GoodFile(f)
    PROVE  LET st == Loaded(f) IN
           /\ GoodState(st)
           /\ st.leased = {} /\ st.fault = FALSE
           /\ st.transcripts = f.transcripts /\ DOMAIN st.names = DOMAIN f.names
           /\ \A n \in DOMAIN f.names :
                st.sessions[st.names[n]] = f.sessions[f.names[n]]
<1> DEFINE D == DOMAIN f.sessions
           R(h) == Renumbered(f, h)
           row(i) == CHOOSE h \in D : R(h) = i
           handles == {R(h) : h \in D}
           ss == [i \in handles |-> f.sessions[row(i)]]
           q == [i \in 1..Cardinality(handles) |-> i]
           nx == Cardinality(D) + 1
           a == [n \in DOMAIN f.names |-> R(f.names[n])]
           st == Loaded(f)
<1>1. st = [sessions |-> ss, lru |-> q, next |-> nx, names |-> a, leased |-> {},
            transcripts |-> f.transcripts, fault |-> FALSE]
  BY DEF Loaded, Rebound
<1>2. /\ Cardinality(D) \in Nat /\ \A h \in D : R(h) \in 1..Cardinality(D)
      /\ \A g, h \in D : R(g) = R(h) => g = h
  BY RenumberedFacts
<1>3. PICK next \in Nat \ {0} :
        GoodTable(f.sessions, next) /\ GoodNames(f.sessions, f.names, f.transcripts, next)
  BY DEF GoodFile
<1>4. \A n \in DOMAIN f.names : f.names[n] \in D
  BY DEF GoodFile
<1> HIDE DEF R, nx, q, st
<1>5. \A h \in D : R(h) \in handles /\ ss[R(h)] = f.sessions[h]
  <2> TAKE h \in D
  <2>1. row(R(h)) = h
    BY <1>2
  <2> QED
    BY <2>1
<1>6. ss = [i \in DOMAIN ss |-> ss[i]] /\ DOMAIN ss = handles
  OBVIOUS
<1>7. \A i \in handles : i \in 1..(nx - 1) /\ ss[i] \in SessionType
  <2> SUFFICES ASSUME NEW h \in D PROVE R(h) \in 1..(nx - 1) /\ ss[R(h)] \in SessionType
    OBVIOUS
  <2> QED
    BY <1>2, <1>3, <1>5 DEF GoodTable, nx
<1> HIDE DEF ss, handles
<1>8. GoodTable(ss, nx) /\ nx \in Nat \ {0}
  BY <1>2, <1>6, <1>7 DEF GoodTable, nx
<1>9. /\ a = [n \in DOMAIN a |-> a[n]] /\ DOMAIN a = DOMAIN f.names
      /\ \A n \in DOMAIN f.names : a[n] = R(f.names[n]) /\ ss[a[n]] = f.sessions[f.names[n]]
  BY <1>4, <1>5
<1> HIDE DEF a, D
<1>10. GoodNames(ss, a, f.transcripts, nx)
  <2>1. \A n \in DOMAIN a : a[n] \in 1..(nx - 1)
    BY <1>2, <1>4, <1>9 DEF nx
  <2>2. \A m, n \in DOMAIN a : a[m] = a[n] => m = n
    BY <1>2, <1>3, <1>4, <1>9 DEF GoodNames
  <2>3. Durable => \A n \in DOMAIN a :
          f.transcripts[n] \in Seq(Char) /\ f.transcripts[n] = ss[a[n]].text
    BY <1>3, <1>4, <1>9 DEF GoodNames, D
  <2> QED
    BY <2>1, <2>2, <2>3, <1>3, <1>9 DEF GoodNames
<1>11. /\ IsStateRecord(st) /\ st.sessions = ss /\ st.next = nx /\ st.names = a
       /\ st.leased = {} /\ st.transcripts = f.transcripts /\ st.fault = FALSE
  BY <1>1 DEF IsStateRecord
<1>12. GoodState(st)
  BY <1>8, <1>10, <1>11 DEF GoodState
<1> QED
  BY <1>9, <1>11, <1>12 DEF st

-----------------------------------------------------------------------------
(* The inductive invariant. *)

\* Session objects exist in a running process only, one for a name at most,
\* and a writer holds its lease.
ClientsInv ==
    /\ client \in [Client -> ClientType]
    /\ proc.phase # "up" => \A c \in Client : client[c].pc = "none"
    /\ \A c \in Client : client[c].pc = "dropped" => state.fault
    /\ \A c, d \in Client :
        c # d /\ client[c].pc # "none" /\ client[d].pc # "none"
            => client[c].name # client[d].name
    /\ \A c \in Client : IsWriter(c) => client[c].name \in state.leased

\* The Session object cl describes the session of its name in st.
WriterOk(cl, st) ==
    /\ cl.handle = NoHandle => cl.name \notin DOMAIN st.names
    /\ cl.handle # NoHandle => cl.name \in DOMAIN st.names /\ st.names[cl.name] = cl.handle
    /\ cl.handle \in DOMAIN st.sessions => cl.rev = st.sessions[cl.handle].rev
    /\ cl.pc = "extend" /\ cl.handle \in DOMAIN st.sessions =>
        st.sessions[cl.handle].text = SubSeq(cl.want, 1, cl.prefix)

WritersInv == Healthy => \A c \in Client : IsWriter(c) => WriterOk(client[c], state)

\* Until the store is sealed, the database has the names and transcripts of the
\* memory, and the sessions that are still live.
MemoryInv ==
    Durable /\ Healthy =>
        /\ state.transcripts = file.transcripts
        /\ DOMAIN state.names = DOMAIN file.names
        /\ \A n \in DOMAIN state.names : state.names[n] \in DOMAIN state.sessions =>
            state.sessions[state.names[n]] = file.sessions[file.names[n]]

AckedInv ==
    /\ acked \in [Name -> SUBSET Seq(Char)]
    /\ Durable => \A n \in Name : FileText(n) = acked[n]

ProcInv ==
    /\ proc \in [phase : {"down", "created", "up", "refused"}, starts : Nat]
    /\ proc.phase = "created" => DOMAIN file.names = {}

IInv ==
    /\ GoodState(state) /\ GoodFile(file)
    /\ ProcInv /\ ClientsInv /\ WritersInv /\ MemoryInv /\ AckedInv

-----------------------------------------------------------------------------
(* Steps that leave names and database alone. *)

\* Sessions may be gone, and sessions no name denotes may be new.
Benign(st, st2) ==
    /\ GoodState(st2)
    /\ st2.names = st.names /\ st2.leased = st.leased
    /\ st2.transcripts = st.transcripts /\ st2.fault = st.fault
    /\ \A h \in DOMAIN st2.sessions :
        h < st.next => h \in DOMAIN st.sessions /\ st2.sessions[h] = st.sessions[h]

\* A Session object that is the same, or whose call has returned.
Calmer(cl, cl2) ==
    \/ cl2 = cl
    \/ /\ cl.pc \in {"extend", "reading"}
       /\ cl2 = [cl EXCEPT !.pc = "open", !.want = <<>>, !.prefix = 0]

\* Losing sessions is benign.
LEMMA ShrunkBenign ==
    ASSUME NEW st, NEW st2, GoodState(st), Shrunk(st, st2)
    PROVE  Benign(st, st2)
<1>1. GoodState(st2)
  BY ShrunkGood
<1> QED
  BY <1>1 DEF Benign, Shrunk

\* Adding a session without a name is benign.
LEMMA AddedBenign ==
    ASSUME NEW st, NEW st2, NEW t \in Seq(Char), GoodState(st), Added(st, st2, t)
    PROVE  Benign(st, st2)
<1>1. GoodState(st2) /\ st.next \in Nat /\ ~(st.next < st.next)
  BY AddedGood DEF GoodState
<1> QED
  BY <1>1 DEF Benign, Added

\* A writer stays right over a benign change.
LEMMA BenignWriter ==
    ASSUME NEW st, NEW st2, NEW cl \in ClientType, NEW cl2,
           GoodState(st), Benign(st, st2), Calmer(cl, cl2), WriterOk(cl, st)
    PROVE  WriterOk(cl2, st2)
<1>1. cl2.handle = cl.handle /\ cl2.name = cl.name /\ cl2.rev = cl.rev
      /\ (cl2.pc = "extend" => cl2 = cl)
  BY DEF Calmer, ClientType
<1>2. cl.handle \in DOMAIN st2.sessions =>
        /\ cl.handle \in DOMAIN st.sessions
        /\ st2.sessions[cl.handle] = st.sessions[cl.handle]
  <2>1. GoodNames(st.sessions, st.names, st.transcripts, st.next) /\ st.next \in Nat \ {0}
    BY DEF GoodState
  <2>2. GoodTable(st2.sessions, st2.next) /\ st2.next \in Nat \ {0}
    BY DEF Benign, GoodState
  <2>3. CASE cl.handle = NoHandle
    BY <2>2, <2>3 DEF GoodTable, NoHandle
  <2>4. CASE cl.handle # NoHandle
    <3>1. cl.handle \in 1..(st.next - 1)
      BY <2>1, <2>4 DEF WriterOk, GoodNames
    <3> QED
      BY <3>1, <2>1 DEF Benign
  <2> QED
    BY <2>3, <2>4
<1> QED
  BY <1>1, <1>2 DEF WriterOk, Benign

\* A benign step preserves the invariant.
LEMMA QuietStep ==
    ASSUME IInv, Benign(state, state'), UNCHANGED <<proc, file, acked>>,
           client' \in [Client -> ClientType],
           \A c \in Client : Calmer(client[c], client'[c])
    PROVE  IInv'
<1>1. \A c \in Client : /\ client[c] \in ClientType /\ client'[c].name = client[c].name
                        /\ \/ client'[c].pc = client[c].pc
                           \/ /\ client'[c].pc = "open"
                              /\ client[c].pc \in {"extend", "reading"}
  <2> TAKE c \in Client
  <2>1. client[c] \in ClientType
    BY DEF IInv, ClientsInv
  <2>2. Calmer(client[c], client'[c])
    OBVIOUS
  <2>3. CASE client'[c] = client[c]
    BY <2>1, <2>3
  <2>4. CASE client'[c] # client[c]
    BY <2>1, <2>2, <2>4 DEF Calmer, ClientType
  <2> QED
    BY <2>3, <2>4
<1>2. \A c \in Client : IsWriter(c)' => IsWriter(c)
  BY <1>1 DEF IsWriter
<1>3. Healthy' = Healthy
  BY DEF Benign, Healthy
<1>4. GoodState(state') /\ GoodFile(file') /\ ProcInv' /\ AckedInv'
  BY DEF IInv, ProcInv, AckedInv, Benign, FileText
<1>5. ClientsInv'
  <2>1. \A c \in Client : client'[c].pc # "none" <=> client[c].pc # "none"
    BY <1>1
  <2>2. \A c \in Client : client'[c].pc = "dropped" <=> client[c].pc = "dropped"
    BY <1>1
  <2> QED
    BY <1>1, <1>2, <2>1, <2>2 DEF IInv, ClientsInv, Benign
<1>6. WritersInv'
  BY <1>1, <1>2, <1>3, BenignWriter DEF WritersInv, IInv
<1>7. MemoryInv'
  <2> SUFFICES ASSUME Durable, Healthy, NEW n \in DOMAIN state.names,
                      state.names[n] \in DOMAIN state'.sessions
               PROVE  state'.sessions[state.names[n]] = file.sessions[file.names[n]]
    BY <1>3 DEF MemoryInv, Benign, IInv
  <2>1. state.names[n] \in 1..(state.next - 1) /\ state.next \in Nat
    BY DEF IInv, GoodState, GoodNames
  <2> QED
    BY <2>1 DEF MemoryInv, Benign, IInv
<1> QED
  BY <1>4, <1>5, <1>6, <1>7 DEF IInv

-----------------------------------------------------------------------------
(* Steps that save. *)

\* st2 is st with another session, or none, under the name n, or with a longer
\* one; the other names keep theirs or lose them.
ChangedAt(st, st2, n) ==
    /\ GoodState(st2) /\ st2.fault = FALSE
    /\ DOMAIN st2.names \ {n} = DOMAIN st.names \ {n}
    /\ \A m \in DOMAIN st.names \ {n} :
        /\ st2.names[m] = st.names[m]
        /\ Durable => st2.transcripts[m] = st.transcripts[m]
        /\ st.names[m] \in DOMAIN st2.sessions =>
            /\ st.names[m] \in DOMAIN st.sessions
            /\ st2.sessions[st.names[m]] = st.sessions[st.names[m]]
    /\ \A m \in st.leased \ {n} : m \in st2.leased

\* What is told of name n after st was saved.
ToldOf(st, n) == IF n \in DOMAIN st.names THEN {st.transcripts[n]} ELSE {}

\* A writer of another name does not notice the change.
LEMMA OtherWriter ==
    ASSUME NEW st, NEW st2, NEW n, NEW cl \in ClientType, cl.name # n,
           GoodState(st), ChangedAt(st, st2, n), WriterOk(cl, st)
    PROVE  WriterOk(cl, st2)
<1>1. GoodTable(st2.sessions, st2.next) /\ st2.next \in Nat \ {0}
  BY DEF ChangedAt, GoodState
<1>2. CASE cl.handle = NoHandle
  <2>1. cl.handle \notin DOMAIN st2.sessions
    BY <1>1, <1>2 DEF GoodTable, NoHandle
  <2>2. cl.name \notin DOMAIN st2.names
    BY <1>2 DEF WriterOk, ChangedAt
  <2> QED
    BY <1>2, <2>1, <2>2 DEF WriterOk
<1>3. CASE cl.handle # NoHandle
  <2>1. cl.name \in DOMAIN st.names \ {n} /\ st.names[cl.name] = cl.handle
    BY <1>3 DEF WriterOk
  <2>2. cl.name \in DOMAIN st2.names /\ st2.names[cl.name] = cl.handle
    BY <2>1 DEF ChangedAt
  <2>3. cl.handle \in DOMAIN st2.sessions =>
          cl.handle \in DOMAIN st.sessions /\ st2.sessions[cl.handle] = st.sessions[cl.handle]
    BY <2>1 DEF ChangedAt
  <2> QED
    BY <1>3, <2>2, <2>3 DEF WriterOk
<1> QED
  BY <1>2, <1>3

\* An operation on name n by client c whose save succeeds preserves the
\* invariant: memory and database are the same, and what is told is saved.
LEMMA SavedStep ==
    ASSUME IInv, Healthy, NEW st, NEW c \in Client, NEW cl \in ClientType,
           NEW n \in Name, NEW told \in SUBSET Seq(Char),
           ChangedAt(state, st, n),
           ~Durable \/ Savable(st), state' = st, file' = Written(st),
           Ack(c, cl, n, told),
           Durable => told = ToldOf(st, n),
           cl.pc \in {"none", "open", "reading"},
           cl.pc # "none" => cl.name = n /\ n \in st.leased /\ WriterOk(cl, st),
           \A d \in Client \ {c} : client[d].pc # "none" => client[d].name # n
    PROVE  IInv'
<1>1. /\ client' = [client EXCEPT ![c] = cl] /\ acked' = [acked EXCEPT ![n] = told]
      /\ proc' = proc /\ proc.phase = "up" /\ client \in [Client -> ClientType]
      /\ GoodState(st) /\ st.fault = FALSE
  BY DEF Ack, Healthy, ChangedAt, IInv, ClientsInv
<1>2. client' \in [Client -> ClientType] /\ client'[c] = cl
      /\ \A d \in Client \ {c} : client'[d] = client[d]
  BY <1>1
<1>3. ClientsInv'
  <2>1. \A d \in Client : client'[d].pc = "dropped" => state'.fault
    <3> TAKE d \in Client
    <3>1. CASE d = c
      BY <3>1, <1>2
    <3>2. CASE d # c
      BY <3>2, <1>2 DEF IInv, ClientsInv, Healthy
    <3> QED
      BY <3>1, <3>2
  <2>2. \A d, e \in Client :
          d # e /\ client'[d].pc # "none" /\ client'[e].pc # "none"
            => client'[d].name # client'[e].name
    <3> TAKE d, e \in Client
    <3>1. CASE d = c /\ e # c
      BY <3>1, <1>2
    <3>2. CASE e = c /\ d # c
      BY <3>2, <1>2
    <3>3. CASE d # c /\ e # c
      BY <3>3, <1>2 DEF IInv, ClientsInv
    <3> QED
      BY <3>1, <3>2, <3>3
  <2>3. \A d \in Client : IsWriter(d)' => client'[d].name \in state'.leased
    <3> TAKE d \in Client
    <3>1. CASE d = c
      BY <3>1, <1>2 DEF IsWriter
    <3>2. CASE d # c
      <4>1. IsWriter(d)' => IsWriter(d) /\ client[d].name # n /\ client[d].name \in state.leased
        BY <3>2, <1>2 DEF IsWriter, IInv, ClientsInv
      <4> QED
        BY <4>1, <3>2, <1>2 DEF ChangedAt
    <3> QED
      BY <3>1, <3>2
  <2> QED
    BY <1>1, <1>2, <2>1, <2>2, <2>3 DEF ClientsInv
<1>4. WritersInv'
  <2> SUFFICES ASSUME NEW d \in Client, IsWriter(d)' PROVE WriterOk(client'[d], st)
    BY DEF WritersInv
  <2>1. CASE d = c
    BY <2>1, <1>2 DEF IsWriter
  <2>2. CASE d # c
    <3>1. IsWriter(d) /\ client'[d] = client[d] /\ client[d].name # n
      BY <2>2, <1>2 DEF IsWriter
    <3>2. WriterOk(client[d], state) /\ client[d] \in ClientType /\ GoodState(state)
      BY <3>1, <1>1 DEF IInv, WritersInv
    <3> QED
      BY <3>1, <3>2, OtherWriter
  <2> QED
    BY <2>1, <2>2
<1>5. CASE Durable
  <2>1. /\ file'.sessions = st.sessions /\ file'.names = st.names
        /\ file'.transcripts = st.transcripts
    BY <1>5 DEF Written
  <2>2. GoodFile(file')
    BY <1>1, <1>5, WrittenGood
  <2>3. MemoryInv'
    BY <2>1 DEF MemoryInv
  <2>4. \A m \in Name : FileText(m)' = acked'[m]
    <3> TAKE m \in Name
    <3>1. CASE m = n
      BY <3>1, <2>1, <1>1, <1>5 DEF FileText, ToldOf, IInv, AckedInv
    <3>2. CASE m # n
      <4>1. acked'[m] = FileText(m)
        BY <3>2, <1>1, <1>5 DEF IInv, AckedInv
      <4>2. DOMAIN state.names = DOMAIN file.names /\ state.transcripts = file.transcripts
        BY <1>5 DEF IInv, MemoryInv
      <4>3. m \in DOMAIN st.names <=> m \in DOMAIN state.names
        BY <3>2 DEF ChangedAt
      <4>4. m \in DOMAIN state.names => st.transcripts[m] = state.transcripts[m]
        BY <3>2, <1>5 DEF ChangedAt
      <4> QED
        BY <4>1, <4>2, <4>3, <4>4, <2>1 DEF FileText
    <3> QED
      BY <3>1, <3>2
  <2>5. AckedInv'
    BY <1>1, <2>4 DEF IInv, AckedInv
  <2> QED
    BY <1>1, <1>3, <1>4, <2>2, <2>3, <2>5 DEF IInv, ProcInv
<1>6. CASE ~Durable
  <2>1. file' = file
    BY <1>6 DEF Written
  <2>2. AckedInv' /\ MemoryInv'
    BY <1>1, <1>6 DEF IInv, AckedInv, MemoryInv
  <2> QED
    BY <1>1, <1>3, <1>4, <2>1, <2>2 DEF IInv, ProcInv
<1> QED
  BY <1>5, <1>6

\* A sealed state is as good as the state was.
LEMMA SealedGood ==
    ASSUME NEW st, GoodState(st)
    PROVE  GoodState(Sealed(st)) /\ Sealed(st).leased = st.leased /\ Sealed(st).fault = TRUE
<1> DEFINE yes == TRUE
<1>0. Sealed(st) = [st EXCEPT !.fault = yes]
  BY DEF Sealed
<1> HIDE DEF yes
<1>1. /\ IsStateRecord(Sealed(st)) /\ Sealed(st).sessions = st.sessions
      /\ Sealed(st).next = st.next /\ Sealed(st).names = st.names
      /\ Sealed(st).leased = st.leased /\ Sealed(st).transcripts = st.transcripts
      /\ Sealed(st).fault = yes
  BY <1>0 DEF GoodState, IsStateRecord
<1>2. yes \in BOOLEAN /\ yes = TRUE
  BY DEF yes
<1> QED
  BY <1>1, <1>2 DEF GoodState

\* An operation whose save fails preserves the invariant: the store is sealed
\* and the database is what it was.
LEMMA SealedStep ==
    ASSUME IInv, Healthy, NEW st, GoodState(st), state' = Sealed(st),
           UNCHANGED <<file, proc, acked>>,
           client' \in [Client -> ClientType],
           \A c \in Client : /\ client'[c].name = client[c].name
                             /\ client'[c].pc # "none" <=> client[c].pc # "none",
           \A c \in Client : IsWriter(c)' => IsWriter(c) /\ client[c].name \in st.leased
    PROVE  IInv'
<1>1. GoodState(state') /\ state'.leased = st.leased /\ state'.fault = TRUE
  BY SealedGood
<1>2. proc.phase = "up" /\ ~Healthy'
  BY <1>1 DEF Healthy
<1>3. ClientsInv'
  BY <1>1, <1>2 DEF ClientsInv, IInv
<1>4. WritersInv' /\ MemoryInv'
  BY <1>2 DEF WritersInv, MemoryInv
<1>5. AckedInv' /\ ProcInv' /\ GoodFile(file')
  BY DEF AckedInv, ProcInv, IInv, FileText
<1> QED
  BY <1>1, <1>3, <1>4, <1>5 DEF IInv

-----------------------------------------------------------------------------
(* Starts and crashes. *)

\* The state of a new store is good, and saves as an empty database.
LEMMA EmptyGood ==
    /\ GoodState(EmptyState) /\ Savable(EmptyState)
    /\ EmptyState.fault = FALSE /\ DOMAIN EmptyState.names = {}
    /\ EmptyState.transcripts = EmptyState.names
<1> DEFINE e == << >>
           no == FALSE
           none == {}
<1>1. DOMAIN e = {} /\ e = [x \in DOMAIN e |-> e[x]]
  OBVIOUS
<1>2. EmptyState = [sessions |-> e, lru |-> e, next |-> 1, names |-> e, leased |-> none,
                    transcripts |-> e, fault |-> no]
  BY DEF EmptyState
<1> HIDE DEF e, no, none
<1>3. /\ IsStateRecord(EmptyState) /\ EmptyState.sessions = e /\ EmptyState.next = 1
      /\ EmptyState.names = e /\ EmptyState.leased = none /\ EmptyState.transcripts = e
      /\ EmptyState.fault = no
  BY <1>2 DEF IsStateRecord
<1>4. no \in BOOLEAN /\ no = FALSE /\ none \subseteq Name
  BY DEF no, none
<1>5. GoodTable(e, 1) /\ GoodNames(e, e, e, 1)
  BY <1>1 DEF GoodTable, GoodNames
<1>6. Savable(EmptyState)
  BY <1>1, <1>3 DEF Savable
<1> QED
  BY <1>1, <1>3, <1>4, <1>5, <1>6 DEF GoodState

\* A Session slot that is not used.
LEMMA NoSessionType == NoSession \in ClientType /\ NoSession.pc = "none"
<1>1. (CHOOSE n \in Name : TRUE) \in Name
  BY ConfigAssumption
<1>2. << >> \in Seq(Char)
  OBVIOUS
<1> QED
  BY <1>1, <1>2 DEF NoSession, ClientType, NoHandle

\* Without Session objects the invariant is about store and database.
LEMMA IdleStep ==
    ASSUME IInv, GoodState(state'), GoodFile(file'), ProcInv', MemoryInv', AckedInv',
           client' \in [Client -> ClientType], \A c \in Client : client'[c].pc = "none"
    PROVE  IInv'
<1>1. \A c \in Client : ~IsWriter(c)'
  BY DEF IsWriter
<1> QED
  BY <1>1 DEF IInv, ClientsInv, WritersInv

\* The invariant holds at first.
LEMMA InitInv ==
    ASSUME Init PROVE IInv
<1> DEFINE e == << >>
<1>1. DOMAIN e = {} /\ e = [x \in DOMAIN e |-> e[x]]
  OBVIOUS
<1>2. GoodState(state)
  BY EmptyGood DEF Init
<1>3. file = [kind |-> "absent", sessions |-> e, names |-> e, transcripts |-> e]
  BY DEF Init, NoFile
<1> HIDE DEF e
<1>4. /\ file = [kind |-> file.kind, sessions |-> file.sessions, names |-> file.names,
                 transcripts |-> file.transcripts]
      /\ file.sessions = e /\ file.names = e /\ file.transcripts = e
  BY <1>3
<1>5. GoodTable(e, 1) /\ GoodNames(e, e, e, 1)
  BY <1>1 DEF GoodTable, GoodNames
<1>6. GoodFile(file)
  BY <1>1, <1>4, <1>5 DEF GoodFile
<1>7. client \in [Client -> ClientType] /\ \A c \in Client : client[c].pc = "none"
  BY NoSessionType DEF Init
<1>8. ClientsInv /\ WritersInv
  BY <1>7 DEF ClientsInv, WritersInv, IsWriter
<1>9. proc \in [phase : {"down", "created", "up", "refused"}, starts : Nat]
      /\ proc.phase = "down"
  BY DEF Init
<1>10. ProcInv /\ MemoryInv
  BY <1>9 DEF ProcInv, MemoryInv, Healthy
<1>11. AckedInv
  BY <1>1, <1>4 DEF Init, AckedInv, FileText
<1> QED
  BY <1>2, <1>6, <1>8, <1>10, <1>11 DEF IInv

\* A start on an empty file leaves no names in memory or database.
LEMMA StartFreshInv ==
    ASSUME IInv, StartFresh PROVE IInv'
<1>1. client' \in [Client -> ClientType] /\ \A c \in Client : client'[c].pc = "none"
  BY DEF StartFresh, IInv, ClientsInv
<1>2. /\ file'.names = file.names /\ file'.sessions = file.sessions
      /\ file'.transcripts = file.transcripts /\ file'.kind # "saved"
      /\ file' = [kind |-> file'.kind, sessions |-> file'.sessions, names |-> file'.names,
                  transcripts |-> file'.transcripts]
  <2>1. file = [kind |-> file.kind, sessions |-> file.sessions, names |-> file.names,
                transcripts |-> file.transcripts]
    BY DEF IInv, GoodFile
  <2>2. file' = file \/ file' = [file EXCEPT !.kind = "schema"]
    BY DEF StartFresh
  <2>3. file.kind = "absent"
    BY DEF StartFresh
  <2> QED
    BY <2>1, <2>2, <2>3
<1>3. DOMAIN file.names = {}
  BY DEF StartFresh, IInv, GoodFile
<1>4. GoodFile(file')
  BY <1>2, <1>3 DEF IInv, GoodFile
<1>5. GoodState(state')
  BY EmptyGood DEF StartFresh
<1>6. proc' \in [phase : {"down", "created", "up", "refused"}, starts : Nat]
      /\ (Durable => proc'.phase = "created")
  BY DEF StartFresh, Started, IInv, ProcInv
<1>7. ProcInv' /\ MemoryInv'
  BY <1>2, <1>3, <1>6 DEF ProcInv, MemoryInv, Healthy
<1>8. AckedInv'
  BY <1>2 DEF StartFresh, IInv, AckedInv, FileText
<1> QED
  BY <1>1, <1>4, <1>5, <1>7, <1>8, IdleStep

\* The first save writes an empty database, or the start fails.
LEMMA FirstSaveInv ==
    ASSUME IInv, FirstSave PROVE IInv'
<1>1. client' \in [Client -> ClientType] /\ \A c \in Client : client'[c].pc = "none"
  BY DEF FirstSave, IInv, ClientsInv
<1>2. DOMAIN file.names = {} /\ proc.phase = "created" /\ acked' = acked
  BY DEF FirstSave, IInv, ProcInv
<1>3. CASE /\ state' = EmptyState /\ file' = Written(EmptyState)
           /\ proc' = [proc EXCEPT !.phase = "up"]
  <2>1. proc' \in [phase : {"down", "created", "up", "refused"}, starts : Nat]
        /\ proc'.phase = "up"
    BY <1>3 DEF IInv, ProcInv
  <2>2. CASE Durable
    <3>1. GoodFile(file')
      BY <1>3, <2>2, EmptyGood, WrittenGood
    <3>2. /\ file'.names = EmptyState.names /\ file'.transcripts = EmptyState.transcripts
      BY <1>3, <2>2 DEF Written
    <3>3. MemoryInv' /\ ProcInv'
      BY <1>3, <2>1, <3>2, EmptyGood DEF MemoryInv, ProcInv
    <3>4. AckedInv'
      BY <1>2, <3>2, EmptyGood DEF IInv, AckedInv, FileText
    <3> QED
      BY <1>1, <1>3, <3>1, <3>3, <3>4, EmptyGood, IdleStep
  <2>3. CASE ~Durable
    <3>1. file' = file
      BY <1>3, <2>3 DEF Written
    <3>2. MemoryInv' /\ ProcInv' /\ AckedInv' /\ GoodFile(file')
      BY <1>2, <2>1, <2>3, <3>1 DEF IInv, MemoryInv, ProcInv, AckedInv
    <3> QED
      BY <1>1, <1>3, <3>2, EmptyGood, IdleStep
  <2> QED
    BY <2>2, <2>3
<1>4. CASE state' = Sealed(EmptyState) /\ file' = file /\ proc' = [proc EXCEPT !.phase = "down"]
  <2>1. proc' \in [phase : {"down", "created", "up", "refused"}, starts : Nat]
        /\ proc'.phase = "down"
    BY <1>4 DEF IInv, ProcInv
  <2>2. GoodState(state')
    BY <1>4, EmptyGood, SealedGood
  <2>3. MemoryInv' /\ ProcInv'
    BY <2>1 DEF MemoryInv, ProcInv, Healthy
  <2>4. AckedInv' /\ GoodFile(file')
    BY <1>2, <1>4 DEF IInv, AckedInv, FileText
  <2> QED
    BY <1>1, <2>2, <2>3, <2>4, IdleStep
<1> QED
  BY <1>3, <1>4 DEF FirstSave, Persist

\* A start loads what the database has.
LEMMA StartLoadInv ==
    ASSUME IInv, StartLoad PROVE IInv'
<1>1. client' \in [Client -> ClientType] /\ \A c \in Client : client'[c].pc = "none"
  BY DEF StartLoad, IInv, ClientsInv
<1>2. GoodFile(file) /\ file' = file /\ state' = Loaded(file) /\ acked' = acked
  BY DEF StartLoad, IInv
<1>3. /\ GoodState(state')
      /\ state'.transcripts = file.transcripts /\ DOMAIN state'.names = DOMAIN file.names
      /\ \A n \in DOMAIN file.names :
           state'.sessions[state'.names[n]] = file.sessions[file.names[n]]
  BY <1>2, LoadedGood
<1>4. proc' \in [phase : {"down", "created", "up", "refused"}, starts : Nat]
      /\ proc'.phase = "up"
  BY DEF StartLoad, Started, IInv, ProcInv
<1>5. MemoryInv' /\ ProcInv'
  BY <1>2, <1>3, <1>4 DEF MemoryInv, ProcInv
<1>6. AckedInv'
  BY <1>2 DEF IInv, AckedInv, FileText
<1> QED
  BY <1>1, <1>2, <1>3, <1>5, <1>6, IdleStep

\* A refused start changes nothing.
LEMMA StartRefusedInv ==
    ASSUME IInv, StartRefused PROVE IInv'
<1>1. client' \in [Client -> ClientType] /\ \A c \in Client : client'[c].pc = "none"
  BY DEF StartRefused, IInv, ClientsInv
<1>2. proc' \in [phase : {"down", "created", "up", "refused"}, starts : Nat]
      /\ proc'.phase = "refused"
  BY DEF StartRefused, Started, IInv, ProcInv
<1>3. MemoryInv' /\ ProcInv'
  BY <1>2 DEF MemoryInv, ProcInv, Healthy
<1>4. GoodState(state') /\ GoodFile(file') /\ AckedInv'
  BY DEF StartRefused, IInv, AckedInv, FileText
<1> QED
  BY <1>1, <1>3, <1>4, IdleStep

\* A crash forgets the memory and the Session objects, not the database.
LEMMA CrashInv ==
    ASSUME IInv, Crash PROVE IInv'
<1>1. client' \in [Client -> ClientType] /\ \A c \in Client : client'[c].pc = "none"
  BY NoSessionType DEF Crash
<1>2. proc' \in [phase : {"down", "created", "up", "refused"}, starts : Nat]
      /\ proc'.phase = "down"
  BY DEF Crash, IInv, ProcInv
<1>3. MemoryInv' /\ ProcInv'
  BY <1>2 DEF MemoryInv, ProcInv, Healthy
<1>4. GoodState(state') /\ GoodFile(file')
  BY EmptyGood DEF Crash, IInv
<1>5. AckedInv'
  BY DEF Crash, IInv, AckedInv, FileText
<1> QED
  BY <1>1, <1>3, <1>4, <1>5, IdleStep

-----------------------------------------------------------------------------
(* Leases. *)

\* Another set of leases within Name keeps a state good.
LEMMA LeasedGood ==
    ASSUME NEW st, GoodState(st), NEW s \in SUBSET Name
    PROVE  LET st2 == [st EXCEPT !.leased = s] IN
           /\ GoodState(st2) /\ st2.leased = s
           /\ st2.sessions = st.sessions /\ st2.names = st.names /\ st2.fault = st.fault
           /\ st2.transcripts = st.transcripts /\ st2.next = st.next
<1> DEFINE st2 == [st EXCEPT !.leased = s]
<1>1. /\ IsStateRecord(st2) /\ st2.leased = s /\ st2.sessions = st.sessions
      /\ st2.names = st.names /\ st2.fault = st.fault
      /\ st2.transcripts = st.transcripts /\ st2.next = st.next
  BY DEF GoodState, IsStateRecord
<1> HIDE DEF st2
<1>2. GoodState(st2)
  BY <1>1 DEF GoodState
<1> QED
  BY <1>1, <1>2 DEF st2

\* What a lease step leaves alone.
LEMMA LeaseStep ==
    ASSUME IInv, NEW s \in SUBSET Name, state' = [state EXCEPT !.leased = s],
           UNCHANGED <<proc, file, acked>>, ClientsInv',
           \A c \in Client : IsWriter(c)' /\ Healthy => WriterOk(client'[c], state)
    PROVE  IInv'
<1>1. /\ GoodState(state') /\ state'.sessions = state.sessions
      /\ state'.names = state.names /\ state'.fault = state.fault
      /\ state'.transcripts = state.transcripts
  BY LeasedGood DEF IInv
<1>2. Healthy' = Healthy
  BY <1>1 DEF Healthy
<1>3. WritersInv'
  BY <1>1, <1>2 DEF WritersInv, WriterOk
<1>4. MemoryInv'
  BY <1>1, <1>2 DEF IInv, MemoryInv
<1>5. GoodFile(file') /\ ProcInv' /\ AckedInv'
  BY DEF IInv, ProcInv, AckedInv, FileText
<1> QED
  BY <1>1, <1>3, <1>4, <1>5 DEF IInv

\* No Session object has a name whose lease is free.
LEMMA FreeName ==
    ASSUME IInv, Healthy, NEW n \in Name, LeaseFree(n)
    PROVE  \A c \in Client : client[c].pc # "none" => client[c].name # n
<1> SUFFICES ASSUME NEW c \in Client, client[c].pc # "none" PROVE client[c].name # n
  OBVIOUS
<1>1. client[c].pc # "dropped"
  BY DEF IInv, ClientsInv, Healthy
<1>2. IsWriter(c)
  BY <1>1 DEF IInv, ClientsInv, ClientType, IsWriter
<1> QED
  BY <1>2 DEF IInv, ClientsInv, LeaseFree

\* open takes a free lease and reads the handle and the revision of the name.
LEMMA OpenInv ==
    ASSUME IInv, NEW c \in Client, NEW n \in Name, Open(c, n) PROVE IInv'
<1> DEFINE h == IF n \in DOMAIN state.names THEN state.names[n] ELSE NoHandle
           r == IF h = NoHandle THEN 0 ELSE state.sessions[h].rev
           cl == [pc |-> "open", name |-> n, handle |-> h, want |-> <<>>, prefix |-> 0,
                  rev |-> r]
           s == state.leased \cup {n}
<1>1. /\ Healthy /\ LeaseFree(n) /\ (h # NoHandle => IsLive(state, h))
      /\ state' = [state EXCEPT !.leased = s] /\ client' = [client EXCEPT ![c] = cl]
      /\ proc' = proc /\ file' = file /\ acked' = acked
  BY DEF Open
<1>2. n \in DOMAIN state.names => h # NoHandle
  BY DEF IInv, GoodState, GoodNames, NoHandle
<1>2a. h \in Nat
  BY DEF IInv, GoodState, GoodNames, NoHandle
<1>3. r \in Nat
  <2>1. h \in DOMAIN state.sessions => state.sessions[h].rev \in Nat
    BY DEF IInv, GoodState, GoodTable, SessionType
  <2> QED
    BY <2>1, <1>1 DEF IsLive
<1>4. n \in DOMAIN state.names => h = state.names[n]
  OBVIOUS
<1>5. n \notin DOMAIN state.names => h = NoHandle
  OBVIOUS
<1>6. h # NoHandle => r = state.sessions[h].rev
  OBVIOUS
<1>7. NoHandle \notin DOMAIN state.sessions
  BY DEF IInv, GoodState, GoodTable, NoHandle
<1> HIDE DEF h, r, s
<1>8. cl \in ClientType /\ cl.pc = "open" /\ cl.name = n /\ cl.handle = h /\ cl.rev = r
  BY <1>2a, <1>3 DEF ClientType
<1> HIDE DEF cl
<1>9. WriterOk(cl, state)
  BY <1>2, <1>2a, <1>4, <1>5, <1>6, <1>7, <1>8 DEF WriterOk
<1>10. s \in SUBSET Name /\ n \in s /\ state.leased \subseteq s
  BY DEF s, IInv, GoodState
<1>11. \A d \in Client : client[d].pc # "none" => client[d].name # n
  BY <1>1, FreeName
<1>12. /\ client' \in [Client -> ClientType] /\ client'[c] = cl
       /\ \A d \in Client \ {c} : client'[d] = client[d]
  BY <1>1, <1>8 DEF IInv, ClientsInv
<1>13. state'.leased = s /\ state'.fault = state.fault
  BY <1>1, <1>10, LeasedGood DEF IInv
<1>14. ClientsInv'
  <2>1. \A d \in Client : client'[d].pc = "dropped" => state'.fault
    BY <1>8, <1>12, <1>13 DEF IInv, ClientsInv
  <2>2. \A d, e \in Client :
          d # e /\ client'[d].pc # "none" /\ client'[e].pc # "none"
            => client'[d].name # client'[e].name
    <3> TAKE d, e \in Client
    <3>1. CASE d = c /\ e # c
      BY <3>1, <1>8, <1>11, <1>12
    <3>2. CASE e = c /\ d # c
      BY <3>2, <1>8, <1>11, <1>12
    <3>3. CASE d # c /\ e # c
      BY <3>3, <1>12 DEF IInv, ClientsInv
    <3> QED
      BY <3>1, <3>2, <3>3
  <2>3. \A d \in Client : IsWriter(d)' => client'[d].name \in state'.leased
    BY <1>8, <1>10, <1>12, <1>13 DEF IInv, ClientsInv, IsWriter
  <2> QED
    BY <1>1, <1>12, <2>1, <2>2, <2>3 DEF ClientsInv, Healthy
<1>15. \A d \in Client : IsWriter(d)' /\ Healthy => WriterOk(client'[d], state)
  <2> TAKE d \in Client
  <2>1. CASE d = c
    BY <2>1, <1>9, <1>12
  <2>2. CASE d # c
    BY <2>2, <1>12 DEF IInv, WritersInv, IsWriter
  <2> QED
    BY <2>1, <2>2
<1> QED
  BY <1>1, <1>10, <1>14, <1>15, LeaseStep

\* open of a name whose session is gone keeps the lease and makes no Session.
LEMMA OpenDanglingInv ==
    ASSUME IInv, NEW n \in Name, OpenDangling(n) PROVE IInv'
<1> DEFINE s == state.leased \cup {n}
<1>1. /\ state' = [state EXCEPT !.leased = s]
      /\ proc' = proc /\ file' = file /\ acked' = acked /\ client' = client
  BY DEF OpenDangling, Keep
<1>2. s \in SUBSET Name /\ state.leased \subseteq s
  BY DEF IInv, GoodState
<1> HIDE DEF s
<1>3. state'.leased = s /\ state'.fault = state.fault
  BY <1>1, <1>2, LeasedGood DEF IInv
<1>4. ClientsInv'
  BY <1>1, <1>2, <1>3 DEF IInv, ClientsInv, IsWriter
<1>5. \A d \in Client : IsWriter(d)' /\ Healthy => WriterOk(client'[d], state)
  BY <1>1 DEF IInv, WritersInv, IsWriter
<1> QED
  BY <1>1, <1>2, <1>4, <1>5, LeaseStep

\* close and drop give the lease back.
LEMMA ReleaseInv ==
    ASSUME IInv, NEW c \in Client, Release(c) PROVE IInv'
<1> DEFINE n == client[c].name
           s == state.leased \ {n}
<1>1. /\ state' = [state EXCEPT !.leased = s] /\ client' = [client EXCEPT ![c] = NoSession]
      /\ proc' = proc /\ file' = file /\ acked' = acked /\ client[c].pc # "none"
  BY DEF Release
<1>2. s \in SUBSET Name
  BY DEF IInv, GoodState
<1>3. \A d \in Client \ {c} : client[d].pc # "none" => client[d].name # n
  BY <1>1 DEF IInv, ClientsInv
<1>4. /\ client' \in [Client -> ClientType] /\ client'[c].pc = "none"
      /\ \A d \in Client \ {c} : client'[d] = client[d]
  BY <1>1, NoSessionType DEF IInv, ClientsInv
<1>5. state'.leased = s /\ state'.fault = state.fault
  BY <1>1, <1>2, LeasedGood DEF IInv
<1>6. ClientsInv'
  <2>1. \A d \in Client : client'[d].pc # "none" => d # c /\ client'[d] = client[d]
    BY <1>4
  <2>2. \A d \in Client : IsWriter(d)' => client'[d].name \in state'.leased
    <3> SUFFICES ASSUME NEW d \in Client, IsWriter(d)' PROVE client'[d].name \in state'.leased
      OBVIOUS
    <3>1. d # c /\ client'[d] = client[d] /\ client[d].pc # "none" /\ IsWriter(d)
      BY <2>1 DEF IsWriter
    <3> QED
      BY <3>1, <1>3, <1>5 DEF IInv, ClientsInv
  <2> QED
    BY <1>1, <1>4, <1>5, <2>1, <2>2 DEF IInv, ClientsInv
<1>7. \A d \in Client : IsWriter(d)' /\ Healthy => WriterOk(client'[d], state)
  <2> SUFFICES ASSUME NEW d \in Client, IsWriter(d)', Healthy PROVE WriterOk(client'[d], state)
    OBVIOUS
  <2>1. d # c
    BY <1>4 DEF IsWriter
  <2> QED
    BY <2>1, <1>4 DEF IInv, WritersInv, IsWriter
<1> QED
  BY <1>1, <1>2, <1>6, <1>7, LeaseStep

-----------------------------------------------------------------------------
(* Operations that leave names and database alone. *)

\* A text is a sequence of characters.
LEMMA TextSeq == \A t \in Text : t \in Seq(Char)
<1> SUFFICES ASSUME NEW n \in 0..MaxText, NEW t \in [1..n -> Char] PROVE t \in Seq(Char)
  BY DEF Text
<1> QED
  BY ConfigAssumption

\* A writer's Session object is right, and the store is good.
LEMMA WriterFacts ==
    ASSUME IInv, Healthy, NEW c \in Client, IsWriter(c)
    PROVE  /\ GoodState(state) /\ client[c] \in ClientType /\ WriterOk(client[c], state)
           /\ client[c].name \in state.leased /\ client[c].name \in Name
           /\ \A d \in Client \ {c} : client[d].pc # "none" => client[d].name # client[c].name
<1>1. GoodState(state) /\ client[c] \in ClientType /\ WriterOk(client[c], state)
  BY DEF IInv, ClientsInv, WritersInv
<1>2. client[c].pc # "none"
  BY DEF IsWriter
<1> QED
  BY <1>1, <1>2 DEF IInv, ClientsInv, ClientType

\* A step that only shrinks or reorders the store.
LEMMA KeptStep ==
    ASSUME IInv, Benign(state, state'), UNCHANGED file, Keep PROVE IInv'
<1>1. client' = client /\ client \in [Client -> ClientType]
  BY DEF Keep, IInv, ClientsInv
<1>2. \A c \in Client : Calmer(client[c], client'[c])
  BY <1>1 DEF Calmer
<1> QED
  BY <1>1, <1>2, QuietStep DEF Keep

\* Touching, evicting and making room are benign.
LEMMA StoreBenign ==
    ASSUME NEW st, GoodState(st)
    PROVE  /\ Benign(st, st) /\ Benign(st, WithRoom(st))
           /\ \A h : /\ Benign(st, Touched(st, h))
                     /\ Benign(st, WithRoom(Evicted(st, h)))
<1>1. Benign(st, st)
  BY DEF Benign
<1>2. Benign(st, WithRoom(st))
  BY WithRoomShrinks, ShrunkBenign
<1>3. ASSUME NEW h PROVE Benign(st, Touched(st, h)) /\ Benign(st, WithRoom(Evicted(st, h)))
  <2>1. Benign(st, Touched(st, h))
    BY TouchedShrinks, ShrunkBenign
  <2>2. Shrunk(st, Evicted(st, h)) /\ GoodState(Evicted(st, h))
    BY EvictedShrinks, ShrunkGood
  <2>3. Shrunk(st, WithRoom(Evicted(st, h)))
    BY <2>2, WithRoomShrinks, ShrunkTwice
  <2> QED
    BY <2>1, <2>3, ShrunkBenign
<1> QED
  BY <1>1, <1>2, <1>3

\* Failed operations, a snapshot and a lookup that fails leave names alone.
LEMMA KeptInv ==
    ASSUME IInv, NEW c \in Client,
           SeedFails(c) \/ AppendFails(c) \/ OverwriteFails(c) \/ Snapshot(c)
    PROVE  IInv'
<1>1. Benign(state, state')
  BY StoreBenign DEF SeedFails, AppendFails, OverwriteFails, Snapshot, IInv
<1> QED
  BY <1>1, KeptStep DEF SeedFails, AppendFails, OverwriteFails, Snapshot

\* A lookup uses up a handle.
LEMMA LookupInv ==
    ASSUME IInv, Lookup PROVE IInv'
<1> DEFINE st == WithRoom(state)
           nx == st.next + 1
<1>1. Benign(state, st) /\ GoodState(st)
  BY StoreBenign DEF IInv, Benign
<1>2. state' = [st EXCEPT !.next = nx]
  BY DEF Lookup
<1> HIDE DEF st
<1>3. st.next \in Nat \ {0} /\ nx \in Nat \ {0} /\ \A x \in 1..(st.next - 1) : x \in 1..(nx - 1)
  BY <1>1 DEF GoodState
<1> HIDE DEF nx
<1>4. /\ IsStateRecord(state') /\ state'.next = nx /\ state'.sessions = st.sessions
      /\ state'.names = st.names /\ state'.leased = st.leased
      /\ state'.transcripts = st.transcripts /\ state'.fault = st.fault
  BY <1>1, <1>2 DEF GoodState, IsStateRecord
<1>5. GoodTable(st.sessions, nx)
  BY <1>1, <1>3 DEF GoodState, GoodTable
<1>6. GoodNames(st.sessions, st.names, st.transcripts, nx)
  BY <1>1, <1>3 DEF GoodState, GoodNames
<1>7. GoodState(state')
  BY <1>1, <1>3, <1>4, <1>5, <1>6 DEF GoodState
<1>8. Benign(state, state')
  BY <1>1, <1>4, <1>7 DEF Benign
<1> QED
  BY <1>8, KeptStep DEF Lookup

\* A lookup that fails leaves a session without a name.
LEMMA LookupFailsInv ==
    ASSUME IInv, NEW t \in Text, LookupFails(t) PROVE IInv'
<1>1. t \in Seq(Char) /\ GoodState(state)
  BY TextSeq DEF IInv
<1>2. Benign(state, state')
  BY <1>1, StoredAdds, AddedBenign DEF LookupFails
<1> QED
  BY <1>2, KeptStep DEF LookupFails

\* encode_transcript returns.
LEMMA ReturnInv ==
    ASSUME IInv, NEW c \in Client, ExtendFails(c) \/ ReadTranscript(c) PROVE IInv'
<1> DEFINE cl == [client[c] EXCEPT !.pc = "open", !.want = <<>>, !.prefix = 0]
<1>1. Benign(state, state')
  BY StoreBenign DEF ExtendFails, ReadTranscript, IInv
<1>2. client \in [Client -> ClientType] /\ client[c] \in ClientType
  BY DEF IInv, ClientsInv
<1>3. client' = [client EXCEPT ![c] = cl]
  BY <1>2 DEF ExtendFails, ReadTranscript, EncodeReturns
<1>4. cl \in ClientType
  <2>1. << >> \in Seq(Char)
    OBVIOUS
  <2> QED
    BY <1>2, <2>1 DEF ClientType
<1>5. Calmer(client[c], cl)
  BY DEF Calmer, ExtendFails, ReadTranscript
<1> HIDE DEF cl
<1>6. client' \in [Client -> ClientType]
  BY <1>2, <1>3, <1>4
<1>7. \A d \in Client : Calmer(client[d], client'[d])
  <2> TAKE d \in Client
  <2>1. CASE d = c
    BY <2>1, <1>2, <1>3, <1>5
  <2>2. CASE d # c
    BY <2>2, <1>2, <1>3 DEF Calmer
  <2> QED
    BY <2>1, <2>2
<1> QED
  BY <1>1, <1>6, <1>7, QuietStep DEF ExtendFails, ReadTranscript

\* encode_transcript remembers the prefix that it compared.
LEMMA CheckTranscriptInv ==
    ASSUME IInv, NEW c \in Client, NEW t \in Text, CheckTranscript(c, t) PROVE IInv'
<1> DEFINE text == state.sessions[client[c].handle].text
           len == Len(text)
           cl == [client[c] EXCEPT !.pc = "extend", !.want = t, !.prefix = len]
<1>1. IsWriter(c) /\ Healthy /\ t \in Seq(Char) /\ client[c].pc = "open"
  BY TextSeq DEF CheckTranscript, Writer, IsWriter
<1>2. /\ GoodState(state) /\ client[c] \in ClientType /\ WriterOk(client[c], state)
      /\ client[c].name \in state.leased /\ client \in [Client -> ClientType]
  BY <1>1, WriterFacts DEF IInv, ClientsInv
<1>3. text \in Seq(Char)
  BY DEF CheckTranscript, IsLive, IInv, GoodState, GoodTable, SessionType
<1>4. len \in Nat /\ text = SubSeq(text, 1, len) /\ text = SubSeq(t, 1, len)
  BY <1>1, <1>3 DEF CheckTranscript, IsPrefix
<1>5. client' = [client EXCEPT ![c] = cl]
  BY <1>2 DEF CheckTranscript
<1> HIDE DEF len
<1>6. /\ cl \in ClientType /\ cl.name = client[c].name /\ cl.handle = client[c].handle
      /\ cl.rev = client[c].rev /\ cl.pc = "extend" /\ cl.want = t /\ cl.prefix = len
  BY <1>1, <1>2, <1>4 DEF ClientType
<1> HIDE DEF cl
<1>7. WriterOk(cl, state)
  BY <1>2, <1>4, <1>6 DEF WriterOk
<1>8. /\ client' \in [Client -> ClientType] /\ client'[c] = cl
      /\ \A d \in Client \ {c} : client'[d] = client[d]
  BY <1>2, <1>5, <1>6
<1>9. /\ proc' = proc /\ file' = file /\ state' = state /\ acked' = acked
  BY DEF CheckTranscript
<1>10. \A d \in Client : /\ client'[d].name = client[d].name
                         /\ client'[d].pc # "none" <=> client[d].pc # "none"
                         /\ client'[d].pc = "dropped" <=> client[d].pc = "dropped"
                         /\ IsWriter(d)' <=> IsWriter(d)
  <2> TAKE d \in Client
  <2>1. CASE d = c
    BY <2>1, <1>1, <1>6, <1>8 DEF IsWriter
  <2>2. CASE d # c
    BY <2>2, <1>8 DEF IsWriter
  <2> QED
    BY <2>1, <2>2
<1>11. ClientsInv'
  BY <1>8, <1>9, <1>10 DEF IInv, ClientsInv
<1>12. WritersInv'
  <2> SUFFICES ASSUME NEW d \in Client, IsWriter(d)' PROVE WriterOk(client'[d], state)
    BY <1>9 DEF WritersInv
  <2>1. CASE d = c
    BY <2>1, <1>7, <1>8
  <2>2. CASE d # c
    BY <2>2, <1>1, <1>8, <1>10 DEF IInv, WritersInv
  <2> QED
    BY <2>1, <2>2
<1>13. MemoryInv' /\ AckedInv' /\ ProcInv' /\ GoodState(state') /\ GoodFile(file')
  BY <1>9 DEF IInv, MemoryInv, AckedInv, ProcInv, FileText, Healthy
<1> QED
  BY <1>11, <1>12, <1>13 DEF IInv

-----------------------------------------------------------------------------
(* Operations that save. *)

\* An operation on name n by client c that ends in persist preserves the
\* invariant, whether the save succeeds or fails.
LEMMA PersistStep ==
    ASSUME IInv, Healthy, NEW st, NEW c \in Client, NEW cl \in ClientType,
           NEW n \in Name, NEW told \in SUBSET Seq(Char),
           ChangedAt(state, st, n), state.leased \subseteq st.leased,
           Persist(st, Ack(c, cl, n, told), Keep),
           Durable => told = ToldOf(st, n),
           cl.pc \in {"open", "reading"}, cl.name = n, n \in st.leased, WriterOk(cl, st),
           \A d \in Client \ {c} : client[d].pc # "none" => client[d].name # n
    PROVE  IInv'
<1>1. CASE /\ ~Durable \/ Savable(st)
           /\ state' = st /\ file' = Written(st) /\ Ack(c, cl, n, told)
  BY <1>1, SavedStep
<1>2. CASE state' = Sealed(st) /\ file' = file /\ Keep
  <2>1. client' = client /\ client \in [Client -> ClientType] /\ proc' = proc /\ acked' = acked
    BY <1>2 DEF Keep, IInv, ClientsInv
  <2>2. \A d \in Client : IsWriter(d)' => IsWriter(d) /\ client[d].name \in st.leased
    BY <2>1 DEF IsWriter, IInv, ClientsInv
  <2>3. GoodState(st)
    BY DEF ChangedAt
  <2>4. \A d \in Client : /\ client'[d].name = client[d].name
                          /\ client'[d].pc # "none" <=> client[d].pc # "none"
    BY <2>1
  <2> QED
    BY <1>2, <2>1, <2>2, <2>3, <2>4, SealedStep
<1> QED
  BY <1>1, <1>2 DEF Persist

\* st2 is st with a new session of text t under the name n.
Renewed(st, st2, n, t) ==
    /\ ChangedAt(st, st2, n)
    /\ st2.leased = st.leased
    /\ n \in DOMAIN st2.names /\ st2.names[n] = st.next
    /\ st.next \in DOMAIN st2.sessions
    /\ st2.sessions[st.next] = [text |-> t, rev |-> 0]
    /\ Durable => st2.transcripts[n] = t

\* Giving a name to the session that was added changes no other name.
LEMMA NewlyNamed ==
    ASSUME NEW st, NEW x, NEW n \in Name, NEW t \in Seq(Char),
           GoodState(st), st.fault = FALSE, Added(st, x, t)
    PROVE  Renewed(st, Named(x, n, st.next, t), n, t)
<1> DEFINE st2 == Named(x, n, st.next, t)
           a == Bind(st.names, n, st.next)
           b == IF Durable THEN Bind(st.transcripts, n, t) ELSE st.transcripts
<1>1. GoodState(x)
  BY AddedGood
<1>2. /\ x.names = st.names /\ x.transcripts = st.transcripts /\ x.leased = st.leased
      /\ x.fault = st.fault /\ st.next \in DOMAIN x.sessions
      /\ x.sessions[st.next] = [text |-> t, rev |-> 0]
      /\ \A h \in DOMAIN x.sessions \ {st.next} :
            h \in DOMAIN st.sessions /\ x.sessions[h] = st.sessions[h]
  BY DEF Added
<1>3. /\ st2.sessions = x.sessions /\ st2.leased = st.leased /\ st2.fault = st.fault
      /\ st2.names = a /\ st2.transcripts = b
  BY <1>1, <1>2, NamedFields
<1>4. \A m \in DOMAIN st.names : st.names[m] # st.next
  BY DEF GoodState, GoodNames
<1>5. x.sessions[st.next].text = t
  BY <1>2
<1>6. GoodState(st2)
  <2>1. GoodState(Named(x, n, st.next, x.sessions[st.next].text))
    BY <1>1, <1>2, <1>4, NamedGood
  <2> QED
    BY <2>1, <1>5
<1> HIDE DEF st2
<1>7. /\ DOMAIN a = DOMAIN st.names \cup {n}
      /\ a[n] = st.next /\ \A y \in DOMAIN st.names \ {n} : a[y] = st.names[y]
  BY DEF Bind
<1>8. Durable => b[n] = t /\ \A y \in DOMAIN st.names \ {n} : b[y] = st.transcripts[y]
  <2>1. Durable => DOMAIN st.transcripts = DOMAIN st.names
    BY DEF GoodState, GoodNames
  <2> QED
    BY <2>1 DEF Bind
<1> HIDE DEF a, b
<1>9. \A m \in DOMAIN st.names \ {n} : st.names[m] \in DOMAIN st2.sessions =>
        /\ st.names[m] \in DOMAIN st.sessions
        /\ st2.sessions[st.names[m]] = st.sessions[st.names[m]]
  BY <1>2, <1>3, <1>4
<1>10. ChangedAt(st, st2, n)
  BY <1>3, <1>6, <1>7, <1>8, <1>9 DEF ChangedAt
<1> QED
  BY <1>2, <1>3, <1>7, <1>8, <1>10 DEF Renewed, st2

\* An operation that gives its name a new session preserves the invariant.
LEMMA RenewedInv ==
    ASSUME IInv, NEW c \in Client, NEW t \in Text, Writer(c), NEW st,
           Renewed(state, st, client[c].name, t),
           Persist(st, Ack(c, Reseeded(c, state.next), client[c].name, {t}), Keep)
    PROVE  IInv'
<1> DEFINE n == client[c].name
           h == state.next
           cl == Reseeded(c, h)
<1>1. Healthy /\ client[c].pc = "open" /\ IsWriter(c) /\ t \in Seq(Char)
  BY TextSeq DEF Writer, IsWriter
<1>2. /\ GoodState(state) /\ client[c] \in ClientType /\ n \in state.leased /\ n \in Name
      /\ \A d \in Client \ {c} : client[d].pc # "none" => client[d].name # n
  BY <1>1, WriterFacts
<1>3. h \in Nat \ {0}
  BY <1>2 DEF GoodState
<1>4. /\ cl \in ClientType /\ cl.name = n /\ cl.pc = "open" /\ cl.handle = h /\ cl.rev = 0
  BY <1>1, <1>2, <1>3 DEF Reseeded, ClientType
<1> HIDE DEF cl
<1>5. h # NoHandle
  BY <1>3 DEF NoHandle
<1> HIDE DEF h
<1>6. /\ ChangedAt(state, st, n) /\ st.leased = state.leased /\ n \in DOMAIN st.names
      /\ st.names[n] = h /\ h \in DOMAIN st.sessions
      /\ st.sessions[h] = [text |-> t, rev |-> 0] /\ (Durable => st.transcripts[n] = t)
  BY DEF Renewed, h
<1>7. WriterOk(cl, st)
  BY <1>4, <1>5, <1>6 DEF WriterOk
<1>8. Durable => {t} = ToldOf(st, n)
  BY <1>6 DEF ToldOf
<1>9. Persist(st, Ack(c, cl, n, {t}), Keep)
  BY DEF cl, h
<1>10. {t} \in SUBSET Seq(Char)
  BY <1>1
<1> HIDE DEF n
<1> QED
  BY <1>1, <1>2, <1>4, <1>6, <1>7, <1>8, <1>9, <1>10, PersistStep

\* The first text of a new name.
LEMMA SeedInv ==
    ASSUME IInv, NEW c \in Client, NEW t \in Text, Seed(c, t) PROVE IInv'
<1> DEFINE n == client[c].name
           st == Named(Stored(state, t), n, state.next, t)
<1>1. /\ Writer(c) /\ Healthy /\ IsWriter(c) /\ t \in Seq(Char)
      /\ Persist(st, Ack(c, Reseeded(c, state.next), n, {t}), Keep)
  BY TextSeq DEF Seed, Writer, IsWriter
<1>2. GoodState(state) /\ n \in Name /\ state.fault = FALSE
  BY <1>1, WriterFacts DEF Healthy, GoodState
<1>3. Added(state, Stored(state, t), t)
  BY <1>2, StoredAdds
<1>4. Renewed(state, st, n, t)
  BY <1>1, <1>2, <1>3, NewlyNamed
<1> HIDE DEF st
<1> QED
  BY <1>1, <1>4, RenewedInv

\* overwrite.
LEMMA OverwriteInv ==
    ASSUME IInv, NEW c \in Client, NEW t \in Text, Overwrite(c, t) PROVE IInv'
<1> DEFINE n == client[c].name
           ev == Evicted(state, client[c].handle)
           st == Named(Stored(ev, t), n, state.next, t)
<1>1. /\ Writer(c) /\ Healthy /\ IsWriter(c) /\ t \in Seq(Char)
      /\ Persist(st, Ack(c, Reseeded(c, state.next), n, {t}), Keep)
  BY TextSeq DEF Overwrite, Writer, IsWriter
<1>2. GoodState(state) /\ n \in Name /\ state.fault = FALSE
  BY <1>1, WriterFacts DEF Healthy, GoodState
<1>3. Shrunk(state, ev) /\ GoodState(ev)
  BY <1>2, EvictedShrinks, ShrunkGood
<1> HIDE DEF ev
<1>4. Added(state, Stored(ev, t), t)
  BY <1>3, StoredAdds, AddedAfterShrunk
<1>5. Renewed(state, st, n, t)
  BY <1>1, <1>2, <1>4, NewlyNamed
<1> HIDE DEF st
<1> QED
  BY <1>1, <1>5, RenewedInv

\* An append that went through the gates preserves the invariant; cl is the
\* Session object that the call leaves, but for the revision.
LEMMA AppendedInv ==
    ASSUME IInv, Healthy, NEW c \in Client, IsWriter(c), NEW delta \in Seq(Char),
           NEW cl \in ClientType, cl.pc \in {"open", "reading"},
           cl.name = client[c].name, cl.handle = client[c].handle, cl.rev = client[c].rev,
           IsLive(state, client[c].handle), Appended(c, delta, cl)
    PROVE  IInv'
<1> DEFINE n == client[c].name
           h == client[c].handle
           st == GrownSaved(state, h, n, delta)
           text == Grown(state, h, delta).sessions[h].text
           cl2 == [cl EXCEPT !.rev = cl.rev + 1]
<1>1. Persist(st, Ack(c, cl2, n, {text}), Keep)
  BY DEF Appended, GrownSaved, ClientType
<1>2. /\ GoodState(state) /\ client[c] \in ClientType /\ WriterOk(client[c], state)
      /\ n \in state.leased /\ n \in Name
      /\ \A d \in Client \ {c} : client[d].pc # "none" => client[d].name # n
  BY WriterFacts
<1>3. h \in DOMAIN state.sessions
  BY DEF IsLive
<1>4. h # NoHandle
  BY <1>2, <1>3 DEF GoodState, GoodTable, NoHandle
<1>5. n \in DOMAIN state.names /\ state.names[n] = h /\ cl.rev = state.sessions[h].rev
  BY <1>2, <1>3, <1>4 DEF WriterOk
<1>6. GoodState(st) /\ AppendedTo(state, st, h, n, delta)
  BY <1>2, <1>3, <1>5, GrownGood, GrownFields
<1> DEFINE v == Longer(state.sessions[h], delta)
<1>7. state.sessions[h] \in SessionType /\ cl.rev \in Nat /\ v.rev = cl.rev + 1
  BY <1>2, <1>3, <1>5 DEF GoodState, GoodTable, SessionType, Longer
<1>8. /\ cl2 \in ClientType /\ cl2.pc = cl.pc /\ cl2.name = n /\ cl2.handle = h
      /\ cl2.rev = v.rev
  BY <1>7 DEF ClientType
<1> HIDE DEF st, v, cl2
<1>9. /\ st.names = state.names /\ st.leased = state.leased /\ st.fault = state.fault
      /\ st.sessions = [state.sessions EXCEPT ![h] = v]
      /\ Durable => st.transcripts = [state.transcripts EXCEPT ![n] = Joined(@, delta)]
  BY <1>6 DEF AppendedTo, v
<1>9a. Grown(state, h, delta).sessions = st.sessions
  BY <1>6 DEF AppendedTo
<1>10. /\ DOMAIN st.sessions = DOMAIN state.sessions /\ st.sessions[h] = v
       /\ \A x \in DOMAIN state.sessions \ {h} : st.sessions[x] = state.sessions[x]
  BY <1>2, <1>3, <1>9 DEF GoodState, GoodTable
<1>11. Durable => \A m \in DOMAIN state.names \ {n} : st.transcripts[m] = state.transcripts[m]
  BY <1>2, <1>9 DEF GoodState, GoodNames
<1>12. \A m \in DOMAIN state.names \ {n} : state.names[m] # h
  BY <1>2, <1>5 DEF GoodState, GoodNames
<1>13. ChangedAt(state, st, n)
  <2>1. state.fault = FALSE
    BY <1>2 DEF Healthy, GoodState
  <2>2. \A m \in DOMAIN state.names \ {n} : state.names[m] \in DOMAIN st.sessions =>
          /\ state.names[m] \in DOMAIN state.sessions
          /\ st.sessions[state.names[m]] = state.sessions[state.names[m]]
    BY <1>10, <1>12
  <2> QED
    BY <1>6, <1>9, <1>11, <2>1, <2>2 DEF ChangedAt
<1>14. text = st.sessions[h].text
  BY <1>9a
<1> HIDE DEF text
<1>15. Durable => {text} = ToldOf(st, n)
  BY <1>3, <1>5, <1>6, <1>9, <1>10, <1>14 DEF ToldOf, GoodState, GoodNames
<1>16. text \in Seq(Char)
  BY <1>3, <1>6, <1>10, <1>14 DEF GoodState, GoodTable, SessionType
<1>17. WriterOk(cl2, st)
  BY <1>4, <1>5, <1>8, <1>9, <1>10 DEF WriterOk
<1>18. {text} \in SUBSET Seq(Char) /\ cl2.pc \in {"open", "reading"} /\ n \in st.leased
       /\ state.leased \subseteq st.leased
  BY <1>2, <1>8, <1>9, <1>16
<1> HIDE DEF n, h
<1> QED
  BY <1>1, <1>2, <1>8, <1>13, <1>15, <1>17, <1>18, PersistStep, ZenonT(30)

\* append.
LEMMA AppendDeltaInv ==
    ASSUME IInv, NEW c \in Client, NEW x \in Char, AppendDelta(c, <<x>>) PROVE IInv'
<1>1. Healthy /\ client[c].pc = "open" /\ IsWriter(c) /\ IsLive(state, client[c].handle)
  BY DEF AppendDelta, MayAppend, Writer, IsWriter
<1>2. client[c] \in ClientType /\ <<x>> \in Seq(Char)
  BY DEF IInv, ClientsInv
<1>3. Appended(c, <<x>>, client[c])
  BY DEF AppendDelta
<1> QED
  BY <1>1, <1>2, <1>3, AppendedInv

\* The second critical section of encode_transcript.
LEMMA ExtendTranscriptInv ==
    ASSUME IInv, NEW c \in Client, ExtendTranscript(c) PROVE IInv'
<1> DEFINE cl == [client[c] EXCEPT !.pc = "reading", !.want = <<>>, !.prefix = 0]
           delta == SubSeq(client[c].want, client[c].prefix + 1, Len(client[c].want))
<1>1. /\ Healthy /\ IsWriter(c) /\ IsLive(state, client[c].handle)
      /\ Appended(c, delta, cl)
  BY DEF ExtendTranscript, IsWriter
<1>2. client[c] \in ClientType
  BY DEF IInv, ClientsInv
<1>3. client[c].want \in Seq(Char) /\ client[c].prefix \in Nat
  BY <1>2 DEF ClientType
<1>4. delta \in Seq(Char)
  BY <1>3
<1>5. << >> \in Seq(Char)
  OBVIOUS
<1>6. /\ cl \in ClientType /\ cl.pc = "reading" /\ cl.name = client[c].name
      /\ cl.handle = client[c].handle /\ cl.rev = client[c].rev
  BY <1>2, <1>5 DEF ClientType
<1> HIDE DEF cl, delta
<1> QED
  BY <1>1, <1>4, <1>6, AppendedInv

\* fork.
LEMMA ForkInv ==
    ASSUME IInv, NEW c \in Client, NEW d \in Client, NEW n \in Name, Fork(c, d, n)
    PROVE  IInv'
<1> DEFINE h == client[c].handle
           text == state.sessions[h].text
           st0 == Named(Forked(state, h), n, state.next, text)
           s == st0.leased \cup {n}
           st == [st0 EXCEPT !.leased = s]
           nx == state.next
           cl == [pc |-> "open", name |-> n, handle |-> nx, rev |-> ForkRevision(h),
                  want |-> <<>>, prefix |-> 0]
<1>1. /\ Healthy /\ IsWriter(c) /\ LeaseFree(n) /\ h \in DOMAIN state.sessions
      /\ Persist(st, Ack(d, cl, n, {text}), Keep)
  BY DEF Fork, Writer, IsWriter, IsLive
<1>2. GoodState(state) /\ state.fault = FALSE
  BY <1>1, WriterFacts DEF Healthy, GoodState
<1>3. text \in Seq(Char) /\ nx \in Nat \ {0}
  BY <1>1, <1>2 DEF GoodState, GoodTable, SessionType
<1>4. Added(state, Forked(state, h), text)
  BY <1>2, ForkedAdds
<1> HIDE DEF text
<1>5. Renewed(state, st0, n, text)
  BY <1>2, <1>3, <1>4, NewlyNamed
<1> HIDE DEF st0
<1>6. GoodState(st0) /\ st0.leased = state.leased
  BY <1>5 DEF Renewed, ChangedAt
<1>7. s \in SUBSET Name /\ n \in s /\ state.leased \subseteq s
  BY <1>6 DEF GoodState
<1> HIDE DEF s
<1>8. /\ GoodState(st) /\ st.leased = s /\ st.sessions = st0.sessions /\ st.names = st0.names
      /\ st.fault = st0.fault /\ st.transcripts = st0.transcripts
  BY <1>6, <1>7, LeasedGood
<1> HIDE DEF st
<1>9. /\ n \in DOMAIN st.names /\ st.names[n] = nx /\ nx \in DOMAIN st.sessions
      /\ st.sessions[nx] = [text |-> text, rev |-> 0] /\ (Durable => st.transcripts[n] = text)
  BY <1>5, <1>8 DEF Renewed
<1>10. ChangedAt(state, st, n)
  BY <1>5, <1>7, <1>8 DEF Renewed, ChangedAt
<1>11. nx # NoHandle
  BY <1>3 DEF NoHandle
<1> HIDE DEF nx
<1>12. << >> \in Seq(Char)
  OBVIOUS
<1>13. cl \in ClientType /\ cl.pc = "open" /\ cl.name = n /\ cl.handle = nx /\ cl.rev = 0
  BY <1>3, <1>12 DEF ClientType, ForkRevision
<1> HIDE DEF cl
<1>14. WriterOk(cl, st)
  BY <1>9, <1>11, <1>13 DEF WriterOk
<1>15. Durable => {text} = ToldOf(st, n)
  BY <1>9 DEF ToldOf
<1>16. \A e \in Client : client[e].pc # "none" => client[e].name # n
  BY <1>1, FreeName
<1>17. {text} \in SUBSET Seq(Char) /\ n \in st.leased /\ state.leased \subseteq st.leased
  BY <1>3, <1>7, <1>8
<1> QED
  BY <1>1, <1>10, <1>13, <1>14, <1>15, <1>16, <1>17, PersistStep

\* st without the name n and its lease.
Unnamed(st, n) ==
    [st EXCEPT !.names = Unbind(@, n), !.transcripts = Unbind(@, n), !.leased = @ \ {n}]

\* Taking a name away keeps a state good.
LEMMA UnnamedGood ==
    ASSUME NEW st, NEW n, GoodState(st)
    PROVE  LET st2 == Unnamed(st, n)
           IN  /\ GoodState(st2) /\ st2.fault = st.fault /\ st2.sessions = st.sessions
               /\ st2.leased = st.leased \ {n}
               /\ DOMAIN st2.names = DOMAIN st.names \ {n}
               /\ \A m \in DOMAIN st2.names : st2.names[m] = st.names[m]
               /\ Durable => \A m \in DOMAIN st2.names : st2.transcripts[m] = st.transcripts[m]
<1> DEFINE a == [m \in DOMAIN st.names \ {n} |-> st.names[m]]
           b == [m \in DOMAIN st.transcripts \ {n} |-> st.transcripts[m]]
           s == st.leased \ {n}
           st2 == Unnamed(st, n)
<1>1. st2 = [st EXCEPT !.names = a, !.transcripts = b, !.leased = s]
  BY DEF Unnamed, Unbind, Restrict, GoodState, IsStateRecord
<1>2. /\ a = [m \in DOMAIN a |-> a[m]] /\ DOMAIN a = DOMAIN st.names \ {n}
      /\ \A m \in DOMAIN a : a[m] = st.names[m]
  OBVIOUS
<1>3. /\ b = [m \in DOMAIN b |-> b[m]] /\ DOMAIN b = DOMAIN st.transcripts \ {n}
      /\ \A m \in DOMAIN b : b[m] = st.transcripts[m]
  OBVIOUS
<1>4. s \subseteq Name
  BY DEF GoodState
<1> HIDE DEF a, b, st2, s
<1>5. /\ IsStateRecord(st2) /\ st2.sessions = st.sessions /\ st2.next = st.next
      /\ st2.names = a /\ st2.transcripts = b /\ st2.leased = s /\ st2.fault = st.fault
  BY <1>1 DEF GoodState, IsStateRecord
<1>6. GoodNames(st.sessions, st.names, st.transcripts, st.next)
  BY DEF GoodState
<1>7. DOMAIN b = IF Durable THEN DOMAIN a ELSE {}
  BY <1>2, <1>3, <1>6 DEF GoodNames
<1>8. GoodNames(st.sessions, a, b, st.next)
  BY <1>2, <1>3, <1>6, <1>7 DEF GoodNames
<1>9. GoodState(st2)
  BY <1>4, <1>5, <1>8 DEF GoodState
<1> QED
  BY <1>2, <1>3, <1>5, <1>7, <1>9 DEF st2, s

\* delete.
LEMMA DeleteInv ==
    ASSUME IInv, NEW c \in Client, Delete(c) PROVE IInv'
<1> DEFINE n == client[c].name
           ev == Evicted(state, client[c].handle)
           st == Unnamed(ev, n)
           gone == /\ client' = [client EXCEPT ![c].pc = "dropped"]
                   /\ UNCHANGED <<proc, acked>>
<1>1. Healthy /\ IsWriter(c) /\ Persist(st, Ack(c, NoSession, n, {}), gone)
  BY DEF Delete, Writer, IsWriter, Unnamed
<1>2. /\ GoodState(state) /\ n \in Name /\ state.fault = FALSE
      /\ \A d \in Client \ {c} : client[d].pc # "none" => client[d].name # n
  BY <1>1, WriterFacts DEF Healthy, GoodState
<1>3. Shrunk(state, ev) /\ GoodState(ev)
  BY <1>2, EvictedShrinks, ShrunkGood
<1> HIDE DEF ev
<1>4. /\ GoodState(st) /\ st.fault = ev.fault /\ st.sessions = ev.sessions
      /\ st.leased = ev.leased \ {n} /\ DOMAIN st.names = DOMAIN ev.names \ {n}
      /\ \A m \in DOMAIN st.names : st.names[m] = ev.names[m]
      /\ Durable => \A m \in DOMAIN st.names : st.transcripts[m] = ev.transcripts[m]
  BY <1>3, UnnamedGood
<1> HIDE DEF st
<1>5. ChangedAt(state, st, n)
  BY <1>2, <1>3, <1>4 DEF ChangedAt, Shrunk
<1>6. st.leased = state.leased \ {n} /\ n \notin DOMAIN st.names
  BY <1>3, <1>4 DEF Shrunk
<1>7. CASE /\ ~Durable \/ Savable(st)
           /\ state' = st /\ file' = Written(st) /\ Ack(c, NoSession, n, {})
  <2>1. Durable => {} = ToldOf(st, n)
    BY <1>6 DEF ToldOf
  <2>2. {} \in SUBSET Seq(Char)
    OBVIOUS
  <2> HIDE DEF n
  <2> QED
    BY <1>1, <1>2, <1>5, <1>7, <2>1, <2>2, NoSessionType, SavedStep
<1>8. CASE state' = Sealed(st) /\ file' = file /\ gone
  <2> DEFINE cl == [client[c] EXCEPT !.pc = "dropped"]
  <2>1. client \in [Client -> ClientType] /\ client[c] \in ClientType
    BY DEF IInv, ClientsInv
  <2>2. client' = [client EXCEPT ![c] = cl] /\ proc' = proc /\ acked' = acked
    BY <1>8, <2>1
  <2>3. cl \in ClientType /\ cl.pc = "dropped" /\ cl.name = n
    BY <2>1 DEF ClientType
  <2> HIDE DEF cl
  <2>4. /\ client' \in [Client -> ClientType] /\ client'[c] = cl
        /\ \A d \in Client \ {c} : client'[d] = client[d]
    BY <2>1, <2>2, <2>3
  <2>5. client[c].pc # "none"
    BY <1>1 DEF IsWriter
  <2>6. \A d \in Client : /\ client'[d].name = client[d].name
                          /\ client'[d].pc # "none" <=> client[d].pc # "none"
    <3> TAKE d \in Client
    <3>1. CASE d = c
      BY <3>1, <2>3, <2>4, <2>5
    <3>2. CASE d # c
      BY <3>2, <2>4
    <3> QED
      BY <3>1, <3>2
  <2>7. \A d \in Client : IsWriter(d)' => IsWriter(d) /\ client[d].name \in st.leased
    <3> SUFFICES ASSUME NEW d \in Client, IsWriter(d)'
                 PROVE  IsWriter(d) /\ client[d].name \in st.leased
      OBVIOUS
    <3>1. d # c
      BY <2>3, <2>4 DEF IsWriter
    <3>2. IsWriter(d) /\ client[d].pc # "none"
      BY <3>1, <2>4 DEF IsWriter
    <3> QED
      BY <3>1, <3>2, <1>2, <1>6 DEF IInv, ClientsInv
  <2> QED
    BY <1>1, <1>4, <1>8, <2>2, <2>4, <2>6, <2>7, SealedStep
<1> QED
  BY <1>1, <1>7, <1>8 DEF Persist

-----------------------------------------------------------------------------
(* The theorems. *)

\* Every step preserves the invariant.
LEMMA NextInv ==
    ASSUME IInv, [Next]_vars PROVE IInv'
<1>1. CASE UNCHANGED vars
  <2>1. /\ proc' = proc /\ file' = file /\ state' = state /\ client' = client
        /\ acked' = acked
    BY <1>1 DEF vars
  <2> QED
    BY <2>1 DEF IInv, ProcInv, ClientsInv, WritersInv, MemoryInv, AckedInv, IsWriter,
                Healthy, FileText
<1>2. CASE StartFresh \/ FirstSave \/ StartLoad \/ StartRefused \/ Crash
  BY <1>2, StartFreshInv, FirstSaveInv, StartLoadInv, StartRefusedInv, CrashInv
<1>3. CASE \E n \in Name : OpenDangling(n)
  BY <1>3, OpenDanglingInv
<1>4. CASE Lookup \/ \E t \in Text : LookupFails(t)
  BY <1>4, LookupInv, LookupFailsInv
<1>5. ASSUME NEW c \in Client, Operation(c) PROVE IInv'
  <2>1. CASE \E n \in Name : Open(c, n)
    BY <2>1, OpenInv
  <2>2. CASE \E t \in Text : Seed(c, t) \/ Overwrite(c, t) \/ CheckTranscript(c, t)
    BY <2>2, SeedInv, OverwriteInv, CheckTranscriptInv
  <2>3. CASE SeedFails(c) \/ OverwriteFails(c) \/ AppendFails(c) \/ Snapshot(c)
    BY <2>3, KeptInv
  <2>4. CASE \E x \in Char : AppendDelta(c, <<x>>)
    BY <2>4, AppendDeltaInv
  <2>5. CASE ExtendTranscript(c)
    BY <2>5, ExtendTranscriptInv
  <2>6. CASE ExtendFails(c) \/ ReadTranscript(c)
    BY <2>6, ReturnInv
  <2>7. CASE \E d \in Client, n \in Name : Fork(c, d, n)
    BY <2>7, ForkInv
  <2>8. CASE Delete(c)
    BY <2>8, DeleteInv
  <2>9. CASE Release(c)
    BY <2>9, ReleaseInv
  <2> QED
    BY <1>5, <2>1, <2>2, <2>3, <2>4, <2>5, <2>6, <2>7, <2>8, <2>9 DEF Operation
<1> QED
  BY <1>1, <1>2, <1>3, <1>4, <1>5 DEF Next

\* The inductive invariant of the named sessions.
THEOREM SessionsInvariance == Spec => []IInv
<1>1. Init => IInv
  BY InitInv
<1>2. IInv /\ [Next]_vars => IInv'
  BY NextInv
<1> QED
  BY <1>1, <1>2, PTL DEF Spec

\* What a durable operation reported as done is in the database in every state
\* of every run, whatever crashes, failed saves and restarts came since, for
\* any number of clients, names and sessions.
THEOREM AckedDurable == Spec => []AckedSurvives
<1>1. IInv => AckedSurvives
  BY DEF IInv, AckedInv, AckedSurvives
<1> QED
  BY <1>1, SessionsInvariance, PTL

\* While the store is healthy, every live named session is the one a restart
\* would load: text, revision and transcript.
THEOREM MemoryDurable == Spec => []MemoryMatchesFile
<1>1. IInv => MemoryMatchesFile
  <2> SUFFICES ASSUME IInv, Durable, Healthy, NEW n \in DOMAIN state.names,
                      IsLive(state, state.names[n])
               PROVE  /\ n \in DOMAIN file.names
                      /\ state.sessions[state.names[n]] = file.sessions[file.names[n]]
                      /\ state.transcripts[n] = state.sessions[state.names[n]].text
    BY DEF MemoryMatchesFile
  <2>1. n \in DOMAIN file.names
        /\ state.sessions[state.names[n]] = file.sessions[file.names[n]]
    BY DEF IInv, MemoryInv, IsLive
  <2>2. state.transcripts[n] = state.sessions[state.names[n]].text
    BY DEF IInv, GoodState, GoodNames, IsLive
  <2> QED
    BY <2>1, <2>2
<1> QED
  BY <1>1, SessionsInvariance, PTL

\* One writer per name, holding its lease, and no session under two names, for
\* any number of threads and across restarts that renumber the handles.
THEOREM OneWriter == Spec => []SingleWriter
<1>1. IInv => SingleWriter
  <2> SUFFICES ASSUME IInv PROVE SingleWriter
    OBVIOUS
  <2>1. \A c, d \in Client :
          c # d /\ IsWriter(c) /\ IsWriter(d) => client[c].name # client[d].name
    BY DEF IInv, ClientsInv, IsWriter
  <2>2. \A c \in Client : IsWriter(c) => client[c].name \in state.leased
    BY DEF IInv, ClientsInv
  <2>3. \A m, n \in DOMAIN state.names : m # n => state.names[m] # state.names[n]
    BY DEF IInv, GoodState, GoodNames
  <2> QED
    BY <2>1, <2>2, <2>3 DEF SingleWriter
<1> QED
  BY <1>1, SessionsInvariance, PTL

\* No append of a healthy store is refused as a revision conflict, and what
\* encode_transcript appends continues the text it compared under the lock it
\* dropped.
THEOREM WriterNeverBehind == Spec => []WriterCurrent
<1>1. IInv => WriterCurrent
  <2> SUFFICES ASSUME IInv, Healthy, NEW c \in Client, IsWriter(c),
                      IsLive(state, client[c].handle)
               PROVE  /\ client[c].rev = state.sessions[client[c].handle].rev
                      /\ state.names[client[c].name] = client[c].handle
                      /\ client[c].pc = "extend" =>
                           state.sessions[client[c].handle].text
                             = SubSeq(client[c].want, 1, client[c].prefix)
    BY DEF WriterCurrent
  <2>1. WriterOk(client[c], state) /\ GoodState(state)
    BY WriterFacts
  <2>2. client[c].handle \in DOMAIN state.sessions /\ client[c].handle # NoHandle
    BY <2>1 DEF IsLive, GoodState, GoodTable, NoHandle
  <2> QED
    BY <2>1, <2>2 DEF WriterOk
<1> QED
  BY <1>1, SessionsInvariance, PTL
=============================================================================
