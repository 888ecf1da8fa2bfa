--------------------------- MODULE SessionProofs ---------------------------
(***************************************************************************)
(* The event list of easycwmpd and its copy in the backup file: no wakeup  *)
(* is lost, BOOTSTRAP and VALUE CHANGE reach the ACS, M events leave with  *)
(* their TransferComplete, Informs announce what they should and clear     *)
(* what they did, and list and file agree entry by entry.  Proved for any  *)
(* keys, URLs, stimuli and bounds.                                         *)
(***************************************************************************)
EXTENDS LedgerProofs, CwmpHistory

----------------------------------------------------------------------------
\* Lists as sets of elements.

Elements(s) == {s[i] : i \in 1..Len(s)}

\* t is s without its i-th element.
Without(s, i, t) ==
  /\ Len(s) \in Nat /\ i \in 1..Len(s) /\ Len(t) = Len(s) - 1
  /\ \A j \in 1..(Len(s) - 1) : t[j] = IF j < i THEN s[j] ELSE s[j + 1]

\* t is s with e after its last element.
With(s, e, t) ==
  /\ Len(s) \in Nat /\ Len(t) = Len(s) + 1
  /\ \A j \in 1..Len(s) : t[j] = s[j]
  /\ t[Len(s) + 1] = e

\* list_del and mxmlDelete take one element out and keep the order of the rest.
LEMMA RemoveAtWithout ==
  ASSUME NEW S, NEW s \in Seq(S), NEW i \in 1..Len(s)
  PROVE  Without(s, i, RemoveAt(s, i))
<1> DEFINE a == SubSeq(s, 1, i - 1)
           b == SubSeq(s, i + 1, Len(s))
<1>1. Len(s) \in Nat /\ i \in Int /\ \A j \in 1..Len(s) : s[j] \in S
  OBVIOUS
<1>2. /\ a \in Seq(S) /\ Len(a) = i - 1
      /\ \A j \in 1..(i - 1) : a[j] = s[j]
  BY <1>1, SubSeqProperties
<1>3. /\ b \in Seq(S) /\ Len(b) = Len(s) - i
      /\ \A j \in 1..(Len(s) - i) : b[j] = s[i + j]
  <2>1. \A j \in (i + 1)..Len(s) : s[j] \in S
    BY <1>1
  <2>2. /\ b \in Seq(S)
        /\ Len(b) = IF i + 1 <= Len(s) THEN Len(s) - (i + 1) + 1 ELSE 0
        /\ \A j \in 1..(Len(s) - (i + 1) + 1) : b[j] = s[(i + 1) + j - 1]
    BY <1>1, <2>1, SubSeqProperties
  <2> HIDE DEF b
  <2>3. Len(b) = Len(s) - i
    BY <1>1, <2>2
  <2>4. ASSUME NEW j \in 1..(Len(s) - i)
        PROVE  b[j] = s[i + j]
    <3>1. j \in 1..(Len(s) - (i + 1) + 1) /\ (i + 1) + j - 1 = i + j
      BY <1>1
    <3> QED BY <2>2, <3>1
  <2> QED BY <2>2, <2>3, <2>4
<1> HIDE DEF a, b
<1>4. /\ Len(a \o b) = Len(s) - 1
      /\ \A j \in 1..(Len(s) - 1) :
           (a \o b)[j] = IF j <= i - 1 THEN a[j] ELSE b[j - (i - 1)]
  <2>1. Len(a) + Len(b) = Len(s) - 1 /\ Len(a) = i - 1
    BY <1>1, <1>2, <1>3
  <2>2. /\ Len(a \o b) = Len(a) + Len(b)
        /\ \A j \in 1..(Len(a) + Len(b)) :
             (a \o b)[j] = IF j <= Len(a) THEN a[j] ELSE b[j - Len(a)]
    BY <1>2, <1>3, ConcatProperties
  <2>3. Len(a \o b) = Len(s) - 1
    BY <2>1, <2>2
  <2>4. ASSUME NEW j \in 1..(Len(s) - 1)
        PROVE  (a \o b)[j] = IF j <= i - 1 THEN a[j] ELSE b[j - (i - 1)]
    BY <2>1, <2>2, Zenon
  <2> QED BY <2>3, <2>4
<1>5. ASSUME NEW j \in 1..(Len(s) - 1)
      PROVE  (a \o b)[j] = IF j < i THEN s[j] ELSE s[j + 1]
  <2>1. CASE j < i
    BY <1>1, <1>2, <1>4, <2>1
  <2>2. CASE ~(j < i)
    <3>1. j - (i - 1) \in 1..(Len(s) - i) /\ i + (j - (i - 1)) = j + 1
      BY <1>1, <2>2
    <3>2. ~(j <= i - 1)
      BY <1>1, <2>2
    <3> QED BY <1>3, <1>4, <2>2, <3>1, <3>2
  <2> QED BY <2>1, <2>2
<1>6. RemoveAt(s, i) = a \o b
  BY DEF RemoveAt, a, b
<1> QED BY <1>1, <1>4, <1>5, <1>6 DEF Without

\* list_add_tail and mxmlNewElement add one at the end.
LEMMA AppendWith ==
  ASSUME NEW S, NEW s \in Seq(S), NEW e \in S
  PROVE  With(s, e, Append(s, e))
BY AppendProperties, LenProperties DEF With

\* What is left after a removal, as a set.
LEMMA WithoutElements ==
  ASSUME NEW s, NEW i, NEW t, Without(s, i, t)
  PROVE  /\ s[i] \in Elements(s)
         /\ Elements(t) \subseteq Elements(s)
         /\ Elements(s) \subseteq Elements(t) \cup {s[i]}
<1>1. Len(s) \in Nat /\ i \in 1..Len(s) /\ Len(t) = Len(s) - 1
  BY DEF Without
<1>2. ASSUME NEW j \in 1..Len(t)
      PROVE  t[j] \in Elements(s)
  <2>1. /\ j \in 1..(Len(s) - 1) /\ j \in 1..Len(s) /\ j + 1 \in 1..Len(s)
        /\ t[j] = s[j] \/ t[j] = s[j + 1]
    BY <1>1 DEF Without
  <2> QED BY <2>1 DEF Elements
<1>3. ASSUME NEW j \in 1..Len(s), j # i
      PROVE  s[j] \in Elements(t)
  <2>1. CASE j < i
    <3>1. j \in 1..Len(t) /\ t[j] = s[j]
      BY <1>1, <2>1 DEF Without
    <3> QED BY <3>1 DEF Elements
  <2>2. CASE j > i
    <3>1. j - 1 \in 1..(Len(s) - 1) /\ ~(j - 1 < i) /\ (j - 1) + 1 = j
      BY <1>1, <2>2
    <3>2. j - 1 \in 1..Len(t) /\ t[j - 1] = s[j]
      BY <1>1, <3>1 DEF Without
    <3> QED BY <3>2 DEF Elements
  <2> QED BY <1>1, <1>3, <2>1, <2>2
<1> QED BY <1>1, <1>2, <1>3 DEF Elements

\* What is there after an addition.
LEMMA WithElements ==
  ASSUME NEW s, NEW e, NEW t, With(s, e, t)
  PROVE  Elements(t) = Elements(s) \cup {e}
<1>1. Len(s) \in Nat /\ Len(t) = Len(s) + 1
  BY DEF With
<1>2. ASSUME NEW j \in 1..Len(t)
      PROVE  t[j] \in Elements(s) \cup {e}
  <2>1. CASE j = Len(s) + 1
    BY <2>1 DEF With
  <2>2. CASE j # Len(s) + 1
    <3>1. j \in 1..Len(s) /\ t[j] = s[j]
      BY <1>1, <2>2 DEF With
    <3> QED BY <3>1 DEF Elements
  <2> QED BY <2>1, <2>2
<1>3. ASSUME NEW j \in 1..Len(s)
      PROVE  s[j] \in Elements(t)
  <2>1. j \in 1..Len(t) /\ t[j] = s[j]
    BY <1>1 DEF With
  <2> QED BY <2>1 DEF Elements
<1>4. e \in Elements(t)
  <2>1. Len(s) + 1 \in 1..Len(t) /\ t[Len(s) + 1] = e
    BY <1>1 DEF With
  <2> QED BY <2>1 DEF Elements
<1>5. Elements(t) \subseteq Elements(s) \cup {e}
  BY <1>2 DEF Elements
<1>6. Elements(s) \subseteq Elements(t)
  BY <1>3 DEF Elements
<1> QED BY <1>4, <1>5, <1>6

\* mxmlDelete of a node, if there is one.
LEMMA RemoveFirstElements ==
  ASSUME NEW S, NEW s \in Seq(S), NEW e
  PROVE  \/ e \notin Elements(s) /\ RemoveFirst(s, e) = s
         \/ \E i \in 1..Len(s) : s[i] = e /\ Without(s, i, RemoveFirst(s, e))
<1> DEFINE I == {i \in 1..Len(s) : s[i] = e}
<1>1. CASE I = {}
  <2>1. RemoveFirst(s, e) = s
    BY <1>1 DEF RemoveFirst
  <2>2. e \notin Elements(s)
    BY <1>1 DEF Elements
  <2> QED BY <2>1, <2>2
<1>2. CASE I # {}
  <2>1. I \subseteq Nat
    BY LenProperties
  <2>2. Min(I) \in I
    BY <1>2, <2>1, MinInSet
  <2>3. RemoveFirst(s, e) = RemoveAt(s, Min(I))
    BY <1>2 DEF RemoveFirst, SelectInSeq
  <2> DEFINE m == Min(I)
  <2> HIDE DEF m
  <2>4. m \in 1..Len(s) /\ s[m] = e /\ RemoveFirst(s, e) = RemoveAt(s, m)
    BY <2>2, <2>3 DEF m
  <2> QED BY <2>4, RemoveAtWithout
<1> QED BY <1>1, <1>2

----------------------------------------------------------------------------
\* cwmp->events and the event nodes of the file.

Listed == Elements(events)
Filed == Elements(backup.evs)

IsRequest(e) == e.code = "CONNECTION_REQUEST"

\* "6 CONNECTION REQUEST" is listed at most once.
OneRequest ==
  \A i, j \in 1..Len(events) :
    IsRequest(events[i]) /\ IsRequest(events[j]) => i = j

\* What cwmp_add_event does to list and file.
Adds(code, m, save) ==
  /\ Listed \subseteq Listed' /\ Filed \subseteq Filed'
  /\ \E e \in Listed' : e.code = code
  /\ \A e \in Listed' : e \in Listed
                        \/ /\ e.code = code /\ e.mid = m
                           /\ e.node = NoNode \/ e.node.code = code
  /\ \A n \in Filed' : n \in Filed \/ (n.code = code /\ save)
  /\ save /\ ~HasCode(code) => \E n \in Filed' : n.code = code
  /\ OneRequest => OneRequest'

\* What one turn of cwmp_remove_event does, taking e out.
Removes(e) ==
  /\ e \in Listed
  /\ Listed' \subseteq Listed /\ Listed \subseteq Listed' \cup {e}
  /\ Filed' \subseteq Filed /\ Filed \subseteq Filed' \cup {e.node}
  /\ OneRequest => OneRequest'
  /\ OneRequest /\ IsRequest(e) => \A x \in Listed' : ~IsRequest(x)

\* A code is in the list when one of the events carries it.
LEMMA HasCodeListed ==
  \A code : HasCode(code) <=> \E e \in Listed : e.code = code
BY DEF HasCode, Listed, Elements

\* The two outcomes of cwmp_add_event, element by element.
LEMMA AddEventCases ==
  ASSUME NEW code \in Code, NEW key \in KeyOrNone, NEW m \in Nat,
         NEW save \in BOOLEAN, backup \in Backup, events \in Seq(Event),
         cwmp_add_event(code, key, m, save)
  PROVE  \/ UNCHANGED <<events, backup>> /\ HasCode(code) /\ code \in SingleCode
         \/ \E e \in Event :
              /\ ~(code \in SingleCode /\ HasCode(code))
              /\ e.code = code /\ e.key = key /\ e.mid = m
              /\ e.node = IF save THEN [code |-> code, key |-> key, mid |-> m]
                                  ELSE NoNode
              /\ With(events, e, events')
              /\ IF save THEN With(backup.evs, e.node, backup'.evs)
                         ELSE backup' = backup
<1> DEFINE node == [code |-> code, key |-> key, mid |-> m]
           e == [code |-> code, key |-> key, mid |-> m,
                 node |-> IF save THEN node ELSE NoNode]
<1>1. CASE code \in SingleCode /\ HasCode(code)
  BY <1>1 DEF cwmp_add_event
<1>2. CASE ~(code \in SingleCode /\ HasCode(code))
  <2>1. node \in Node
    BY DEF Node, KeyOrNone
  <2>2. /\ e \in Event /\ e.code = code /\ e.key = key /\ e.mid = m
        /\ e.node = IF save THEN node ELSE NoNode
    BY <2>1 DEF Event, KeyOrNone
  <2>3. /\ events' = Append(events, e)
        /\ backup' = IF save THEN backup_add_event(backup, node) ELSE backup
    BY <1>2 DEF cwmp_add_event
  <2> HIDE DEF e
  <2>4. With(events, e, events')
    BY <2>2, <2>3, AppendWith
  <2>5. save => With(backup.evs, node, backup'.evs)
    <3>1. backup.evs \in Seq(Node)
      BY DEF Backup
    <3>2. save => backup'.evs = Append(backup.evs, node)
      BY <2>3 DEF backup_add_event, Backup
    <3> HIDE DEF node
    <3> QED BY <2>1, <3>1, <3>2, AppendWith
  <2> QED BY <1>2, <2>2, <2>3, <2>4, <2>5
<1> QED BY <1>1, <1>2

\* Appending an event keeps the connection request single.
LEMMA AppendOneRequest ==
  ASSUME NEW e, With(events, e, events'), OneRequest,
         ~(IsRequest(e) /\ HasCode("CONNECTION_REQUEST"))
  PROVE  OneRequest'
<1>1. Len(events) \in Nat /\ Len(events') = Len(events) + 1
  BY DEF With
<1>2. ASSUME NEW i \in 1..Len(events'), i # Len(events) + 1
      PROVE  i \in 1..Len(events) /\ events'[i] = events[i]
  BY <1>1, <1>2 DEF With
<1>3. events'[Len(events) + 1] = e
  BY DEF With
<1>4. ASSUME NEW i \in 1..Len(events), IsRequest(events[i])
      PROVE  ~IsRequest(e)
  BY <1>4 DEF HasCode, IsRequest
<1>5. ASSUME NEW i \in 1..Len(events'), NEW j \in 1..Len(events'),
             IsRequest(events'[i]), IsRequest(events'[j])
      PROVE  i = j
  <2>1. CASE i = Len(events) + 1 /\ j = Len(events) + 1
    BY <2>1
  <2>2. CASE i # Len(events) + 1 /\ j = Len(events) + 1
    BY <1>2, <1>3, <1>4, <1>5, <2>2
  <2>3. CASE i = Len(events) + 1 /\ j # Len(events) + 1
    BY <1>2, <1>3, <1>4, <1>5, <2>3
  <2>4. CASE i # Len(events) + 1 /\ j # Len(events) + 1
    BY <1>2, <1>5, <2>4 DEF OneRequest
  <2> QED BY <2>1, <2>2, <2>3, <2>4
<1> QED BY <1>5 DEF OneRequest, IsRequest

\* So does removing one, and removing the connection request leaves none.
LEMMA RemoveOneRequest ==
  ASSUME NEW i, Without(events, i, events'), OneRequest
  PROVE  /\ OneRequest'
         /\ IsRequest(events[i]) => \A x \in Listed' : ~IsRequest(x)
<1>1. Len(events) \in Nat /\ i \in 1..Len(events) /\ Len(events') = Len(events) - 1
  BY DEF Without
<1> DEFINE at(j) == IF j < i THEN j ELSE j + 1
<1>2. ASSUME NEW j \in 1..Len(events')
      PROVE  at(j) \in 1..Len(events) /\ at(j) # i /\ events'[j] = events[at(j)]
  BY <1>1 DEF Without
<1>3. ASSUME NEW j \in 1..Len(events'), NEW k \in 1..Len(events'), at(j) = at(k)
      PROVE  j = k
  BY <1>1, <1>3
<1> HIDE DEF at
<1>4. ASSUME NEW j \in 1..Len(events'), NEW k \in 1..Len(events'),
             IsRequest(events'[j]), IsRequest(events'[k])
      PROVE  j = k
  <2>1. at(j) = at(k)
    BY <1>2, <1>4 DEF OneRequest
  <2> QED BY <1>3, <2>1
<1>5. ASSUME IsRequest(events[i]), NEW j \in 1..Len(events')
      PROVE  ~IsRequest(events'[j])
  BY <1>1, <1>2, <1>5 DEF OneRequest
<1>6. OneRequest'
  BY <1>4 DEF OneRequest, IsRequest
<1> QED BY <1>5, <1>6 DEF Listed, Elements

\* cwmp_add_event adds at most one event of its code.
LEMMA AddEventAdds ==
  ASSUME NEW code \in Code, NEW key \in KeyOrNone, NEW m \in Nat,
         NEW save \in BOOLEAN, backup \in Backup, events \in Seq(Event),
         cwmp_add_event(code, key, m, save)
  PROVE  Adds(code, m, save)
<1>1. CASE UNCHANGED <<events, backup>> /\ HasCode(code)
  <2>1. Listed' = Listed /\ Filed' = Filed
    BY <1>1 DEF Listed, Filed
  <2>2. \E e \in Listed : e.code = code
    BY <1>1, HasCodeListed
  <2>3. OneRequest => OneRequest'
    BY <1>1 DEF OneRequest
  <2>4. \A e \in Listed' : e \in Listed
    BY <2>1
  <2> QED BY <1>1, <2>1, <2>2, <2>3, <2>4, Zenon DEF Adds
<1>2. ASSUME NEW e \in Event,
             ~(code \in SingleCode /\ HasCode(code)), e.code = code, e.mid = m,
             e.node = IF save THEN [code |-> code, key |-> key, mid |-> m]
                              ELSE NoNode,
             With(events, e, events'),
             IF save THEN With(backup.evs, e.node, backup'.evs)
                     ELSE backup' = backup
      PROVE  Adds(code, m, save)
  <2>1. Listed' = Listed \cup {e}
    BY <1>2, WithElements DEF Listed
  <2>2. Filed' = IF save THEN Filed \cup {e.node} ELSE Filed
    BY <1>2, WithElements DEF Filed
  <2>3. save => e.node.code = code
    BY <1>2
  <2>4. OneRequest => OneRequest'
    BY <1>2, AppendOneRequest DEF IsRequest, SingleCode
  <2>5. e.node = NoNode \/ e.node.code = code
    BY <1>2, <2>3
  <2>6. Listed \subseteq Listed' /\ Filed \subseteq Filed'
    BY <2>1, <2>2
  <2>7. \A x \in Listed' : x \in Listed
                           \/ /\ x.code = code /\ x.mid = m
                              /\ x.node = NoNode \/ x.node.code = code
    BY <1>2, <2>1, <2>5
  <2>8. \A n \in Filed' : n \in Filed \/ (n.code = code /\ save)
    BY <2>2, <2>3, Zenon
  <2>9. save => \E n \in Filed' : n.code = code
    BY <2>2, <2>3, Zenon
  <2>10. \E x \in Listed' : x.code = code
    BY <1>2, <2>1
  <2> QED BY <2>4, <2>6, <2>7, <2>8, <2>9, <2>10, Zenon DEF Adds
<1> QED BY <1>1, <1>2, AddEventCases

\* cwmp_remove_event, one turn, element by element.
LEMMA RemoveEventCases ==
  ASSUME NEW policy, NEW m, backup \in Backup, events \in Seq(Event),
         AnyRemovable(policy, m), RemoveOneEvent(policy, m)
  PROVE  \E i \in 1..Len(events) :
           /\ Removable(events[i], policy, m)
           /\ Without(events, i, events')
           /\ backup'.evs = RemoveFirst(backup.evs, events[i].node)
<1> DEFINE I == {i \in 1..Len(events) : Removable(events[i], policy, m)}
<1>1. I # {} /\ I \subseteq Nat
  BY LenProperties DEF AnyRemovable
<1>2. Min(I) \in I
  BY <1>1, MinInSet
<1>3. /\ events' = RemoveAt(events, Min(I))
      /\ backup' = backup_remove_event(backup, events[Min(I)].node)
  BY <1>1 DEF RemoveOneEvent, SelectInSeq
<1> DEFINE i == Min(I)
<1> HIDE DEF i
<1>4. /\ i \in 1..Len(events) /\ Removable(events[i], policy, m)
      /\ events' = RemoveAt(events, i)
      /\ backup' = backup_remove_event(backup, events[i].node)
  BY <1>2, <1>3 DEF i
<1>5. backup'.evs = RemoveFirst(backup.evs, events[i].node)
  BY <1>4 DEF backup_remove_event, Backup
<1> QED BY <1>4, <1>5, RemoveAtWithout

\* It takes out one event that its policy names, and that event's node.
LEMMA RemoveEventRemoves ==
  ASSUME NEW policy, NEW m, backup \in Backup, events \in Seq(Event),
         AnyRemovable(policy, m), RemoveOneEvent(policy, m)
  PROVE  \E e \in Event : Removable(e, policy, m) /\ Removes(e)
<1>1. PICK i \in 1..Len(events) :
           /\ Removable(events[i], policy, m)
           /\ Without(events, i, events')
           /\ backup'.evs = RemoveFirst(backup.evs, events[i].node)
  BY RemoveEventCases
<1> DEFINE e == events[i]
<1>2. e \in Event
  BY ElementOfSeq
<1>3. /\ e \in Listed /\ Listed' \subseteq Listed
      /\ Listed \subseteq Listed' \cup {e}
  BY <1>1, WithoutElements DEF Listed
<1>4. /\ OneRequest => OneRequest'
      /\ OneRequest /\ IsRequest(e) => \A x \in Listed' : ~IsRequest(x)
  BY <1>1, RemoveOneRequest
<1>5. Filed' \subseteq Filed /\ Filed \subseteq Filed' \cup {e.node}
  <2>1. backup.evs \in Seq(Node)
    BY DEF Backup
  <2>2. CASE backup'.evs = backup.evs
    BY <2>2 DEF Filed
  <2>3. ASSUME NEW j \in 1..Len(backup.evs), backup.evs[j] = e.node,
               Without(backup.evs, j, backup'.evs)
        PROVE  Filed' \subseteq Filed /\ Filed \subseteq Filed' \cup {e.node}
    BY <2>3, WithoutElements DEF Filed
  <2> QED BY <1>1, <2>1, <2>2, <2>3, RemoveFirstElements
<1> HIDE DEF e
<1> QED BY <1>1, <1>2, <1>3, <1>4, <1>5 DEF Removes, e

----------------------------------------------------------------------------
\* complete_time.

\* The points between backup_add_transfer_complete and the record's last
\* update.
PendingPoint == {"x_event", "x_m_event", "x_apply", "x_fault", "x_complete"}

\* Once backup_init is through with the file, a TransferComplete says that it
\* failed or when it ended, except the one that is being written.
CompleteInv ==
  \A i \in 1..Len(backup.tcs) :
    \/ backup.tcs[i].fault \/ backup.tcs[i].complete
    \/ pc \in {"down", "load_event"}
    \/ pc \in PendingPoint /\ i = Len(backup.tcs)

\* backup_update_fault_transfer_complete, in full.
LEMMA UpdateFaultRecords ==
  ASSUME NEW b \in Backup, b.tcs # <<>>
  PROVE  LET c == backup_update_fault(b)
             n == Len(b.tcs)
         IN \A i \in 1..n : /\ c.tcs[i].complete = b.tcs[i].complete
                            /\ c.tcs[i].mid = b.tcs[i].mid
<1> DEFINE n == Len(b.tcs)
           e == [b.tcs[n] EXCEPT !.fault = TRUE]
           f == [b.tcs EXCEPT ![n] = e]
<1>1. b.tcs \in Seq(TransferComplete) /\ n \in Nat \ {0}
  BY EmptySeq DEF Backup
<1>2. backup_update_fault(b) = [b EXCEPT !.tcs = f]
  BY DEF backup_update_fault
<1>3. n \in 1..n /\ b.tcs[n] \in TransferComplete
  BY <1>1, ElementOfSeq
<1>4. /\ e \in TransferComplete /\ e.complete = b.tcs[n].complete
      /\ e.mid = b.tcs[n].mid
  BY <1>3 DEF TransferComplete
<1>5. backup_update_fault(b).tcs = f
  BY <1>2 DEF Backup
<1> HIDE DEF e
<1>6. \A i \in 1..n : f[i] = IF i = n THEN e ELSE b.tcs[i]
  BY <1>1, <1>3, <1>4, ExceptSeq
<1> QED BY <1>4, <1>5, <1>6

\* backup_update_complete_time_transfer_complete, in full.
LEMMA UpdateCompleteTimeRecords ==
  ASSUME NEW b \in Backup, b.tcs # <<>>
  PROVE  LET c == backup_update_complete_time(b)
             n == Len(b.tcs)
         IN /\ c.tcs[n].complete = TRUE
            /\ \A i \in 1..n : i # n => c.tcs[i].complete = b.tcs[i].complete
            /\ \A i \in 1..n : c.tcs[i].mid = b.tcs[i].mid
<1> DEFINE n == Len(b.tcs)
           e == [b.tcs[n] EXCEPT !.complete = TRUE]
           f == [b.tcs EXCEPT ![n] = e]
<1>1. b.tcs \in Seq(TransferComplete) /\ n \in Nat \ {0}
  BY EmptySeq DEF Backup
<1>2. backup_update_complete_time(b) = [b EXCEPT !.tcs = f]
  BY DEF backup_update_complete_time
<1>3. n \in 1..n /\ b.tcs[n] \in TransferComplete
  BY <1>1, ElementOfSeq
<1>4. /\ e \in TransferComplete /\ e.complete = TRUE
      /\ e.mid = b.tcs[n].mid
  BY <1>3 DEF TransferComplete
<1>5. backup_update_complete_time(b).tcs = f
  BY <1>2 DEF Backup
<1> HIDE DEF e
<1>6. \A i \in 1..n : f[i] = IF i = n THEN e ELSE b.tcs[i]
  BY <1>1, <1>3, <1>4, ExceptSeq
<1> QED BY <1>3, <1>4, <1>5, <1>6

\* backup_update_all_complete_time_transfer_complete, in full.
LEMMA CompleteAllRecords ==
  ASSUME NEW b \in Backup
  PROVE  LET c == backup_update_all_complete_time(b)
         IN \A i \in 1..Len(b.tcs) : /\ c.tcs[i].complete = TRUE
                                     /\ c.tcs[i].mid = b.tcs[i].mid
<1> DEFINE f == [i \in 1..Len(b.tcs) |-> [b.tcs[i] EXCEPT !.complete = TRUE]]
<1>1. b.tcs \in Seq(TransferComplete)
  BY DEF Backup
<1>2. backup_update_all_complete_time(b).tcs = f
  BY DEF backup_update_all_complete_time, Backup
<1>3. ASSUME NEW i \in 1..Len(b.tcs)
      PROVE  f[i].complete = TRUE /\ f[i].mid = b.tcs[i].mid
  <2>1. b.tcs[i] \in TransferComplete
    BY <1>1, ElementOfSeq
  <2> QED BY <2>1 DEF TransferComplete
<1> QED BY <1>2, <1>3

\* A step that leaves the TransferCompletes alone and does not end an excuse.
TimelessStep ==
  /\ backup'.tcs = backup.tcs
  /\ pc \in {"down", "load_event"} => pc' \in {"down", "load_event"}
  /\ pc \in PendingPoint => pc' \in PendingPoint \cup {"down"}

\* The steps by what they do to the TransferCompletes.
TimeStep ==
  \/ TimelessStep \/ backup'.tcs = <<>> \/ BackupInitDone
  \/ LaunchAddTransferComplete \/ LaunchFault \/ LaunchComplete
  \/ backup_remove_transfer_complete

\* Every step is one of those.
LEMMA TimeSteps == TypeInv /\ Next => TimeStep
<1> SUFFICES ASSUME TypeInv, Next PROVE TimeStep
  OBVIOUS
<1> USE DEF session, locals, queues, observed, TimelessStep, PendingPoint
<1>0. /\ SingleCode \cup MultipleCode \subseteq Code /\ UbusCode \subseteq Code
      /\ cur.key \in KeyOrNone /\ NoKey \in KeyOrNone /\ method_id \in Nat
      /\ backup \in Backup /\ events \in Seq(Event)
      /\ MEvent[cur.kind] \in Code
  BY DEF Code, UbusCode, SingleCode, MultipleCode, KeyOrNone, TypeInv, TypeOK,
         MEvent, Kind
<1>1. CASE Startup
  <2>1. CASE BackupInit \/ LoadEvent \/ ConfigLoadSame
    BY <2>1 DEF TimeStep, BackupInit, LoadEvent, ConfigLoadSame
  <2>2. CASE BackupAddAcsUrl
    BY <2>2, NoBackupType
       DEF TimeStep, BackupAddAcsUrl, backup_add_acsurl, Backup
  <2>3. CASE AddBootstrap \/ StartBoot \/ StartGetRpcMethod
    <3>1. backup'.tcs = backup.tcs
      BY <1>0, <2>3, AddEventType
         DEF AddBootstrap, StartBoot, StartGetRpcMethod, SameTransfers,
             SingleCode
    <3> QED BY <2>3, <3>1
            DEF TimeStep, AddBootstrap, StartBoot, StartGetRpcMethod
  <2> QED BY <1>1, <2>1, <2>2, <2>3 DEF Startup, TimeStep
<1>2. CASE Callbacks
  <2>1. ASSUME \/ \E t \in timers : cwmp_do_inform(t)
               \/ \E url \in Urls : Reload(url)
               \/ \E t \in transfers :
                    LaunchFails(t) \/ \E fault \in BOOLEAN : Launch(t, fault)
        PROVE  TimelessStep
    BY <2>1 DEF cwmp_do_inform, Reload, LaunchFails, Launch
  <2>2. ASSUME \/ \E k \in scheduled : ScheduledInform(k)
               \/ ScheduledInformDone
               \/ \E code \in InformCodes : cwmp_connection_request(code)
               \/ \E active \in BOOLEAN : Notify(active)
               \/ cwmp_periodic_inform
        PROVE  TimelessStep
    <3>1. backup'.tcs = backup.tcs
      BY <1>0, <2>2, AddEventType, StimuliAssumption
         DEF ScheduledInform, ScheduledInformDone, cwmp_connection_request,
             Notify, cwmp_periodic_inform, SameTransfers, SingleCode,
             MultipleCode
    <3> QED BY <2>2, <3>1
            DEF ScheduledInform, ScheduledInformDone, cwmp_connection_request,
                Notify, cwmp_periodic_inform
  <2> QED BY <1>2, <2>1, <2>2 DEF Callbacks, TimeStep
<1>3. CASE Transfer
  <2>1. CASE LaunchRemove
    BY <1>0, <2>1 DEF TimeStep, LaunchRemove, backup_remove_transfer, Backup
  <2>2. CASE LaunchAddEvent \/ LaunchAddMEvent
    <3>1. backup'.tcs = backup.tcs
      BY <1>0, <2>2, AddEventType
         DEF LaunchAddEvent, LaunchAddMEvent, SameTransfers, SingleCode
    <3> QED BY <2>2, <3>1 DEF TimeStep, LaunchAddEvent, LaunchAddMEvent
  <2>3. ASSUME NEW status \in ApplyStatus, LaunchApply(status)
        PROVE  TimeStep
    BY <2>3 DEF TimeStep, LaunchApply, ProcessGone
  <2> QED BY <1>3, <2>1, <2>2, <2>3 DEF Transfer, TimeStep
<1>4. CASE Session
  <2>1. CASE RemoveAfterInform \/ RemoveAfterTransferComplete
    <3>1. backup'.tcs = backup.tcs
      BY <1>0, <2>1, RemoveEventType
         DEF RemoveAfterInform, RemoveAfterTransferComplete, SameTransfers
    <3> QED BY <2>1, <3>1
            DEF TimeStep, RemoveAfterInform, RemoveAfterTransferComplete
  <2>2. CASE \/ ClearNotifications \/ RemoveMidDone \/ HandleMessages
             \/ EndReload \/ EndPlain \/ SessionSuccess \/ EndReboot
    BY <2>2
       DEF TimeStep, ClearNotifications, RemoveMidDone, HandleMessages,
           EndReload, EndPlain, SessionSuccess, EndReboot, ProcessGone
  <2>3. CASE EndFactoryReset
    BY <2>3, NoBackupType DEF TimeStep, EndFactoryReset
  <2>4. CASE cwmp_retry_session
    <3>1. backup'.tcs = backup.tcs
      BY <1>0, <2>4, RemoveEventType DEF cwmp_retry_session, SameTransfers
    <3> QED BY <2>4, <3>1 DEF TimeStep, cwmp_retry_session
  <2> QED BY <1>4, <2>1, <2>2, <2>3, <2>4 DEF Session, TimeStep
<1>5. CASE AcsAnswers \/ EmptyMessage
  BY <1>5
     DEF TimeStep, AcsAnswers, EmptyMessage, InformAnswered,
         TransferCompleteAnswered, GetRpcMethodsAnswered,
         SendsTransferComplete, SendsGetRpcMethods
<1>6. CASE AcsRequests
  <2>1. CASE HandleFactoryReset \/ \E url \in Urls : HandleSetUrl(url)
    BY <2>1 DEF TimeStep, HandleFactoryReset, HandleSetUrl
  <2>2. ASSUME NEW k \in Keys, HandleScheduleInform(k) \/ HandleReboot(k)
        PROVE  TimelessStep
    BY <1>0, <2>2
       DEF HandleScheduleInform, HandleReboot, backup_add_event, Backup
  <2>3. ASSUME NEW k \in Keys, NEW r \in Requests, HandleTransfer(r, k)
        PROVE  TimelessStep
    BY <1>0, <2>3 DEF HandleTransfer, backup_add_transfer, Backup
  <2> QED BY <1>6, <2>1, <2>2, <2>3 DEF AcsRequests, TimeStep
<1>7. CASE Failures
  <2>1. CASE ExchangeFails \/ Fault8005 \/ ConfigLoadFails \/ Crash
    BY <2>1
       DEF TimeStep, ExchangeFails, Fault8005, ConfigLoadFails, Crash,
           ProcessGone, Exchanging, SendsTransferComplete, SendsGetRpcMethods
  <2>2. CASE CrashInSave
    BY <2>2, NoBackupType DEF TimeStep, CrashInSave
  <2> QED BY <1>7, <2>1, <2>2 DEF Failures
<1> QED BY <1>1, <1>2, <1>3, <1>4, <1>5, <1>6, <1>7 DEF Next

\* CompleteInv is preserved.
LEMMA CompleteStep == TypeInv /\ CompleteInv /\ [Next]_vars => CompleteInv'
<1> SUFFICES ASSUME TypeInv, CompleteInv, [Next]_vars PROVE CompleteInv'
  OBVIOUS
<1> USE DEF session, locals, queues, observed, PendingPoint
<1>0. /\ backup \in Backup /\ cur.key \in KeyOrNone /\ method_id \in Nat
      /\ backup.tcs \in Seq(TransferComplete) /\ Len(backup.tcs) \in Nat
  BY LenProperties DEF TypeInv, TypeOK, Backup, KeyOrNone
<1>1. CASE UNCHANGED vars
  BY <1>1 DEF vars, CompleteInv
<1>2. CASE TimelessStep
  BY <1>2 DEF TimelessStep, CompleteInv
<1>3. CASE backup'.tcs = <<>>
  <2>1. Len(backup'.tcs) = 0
    BY <1>3, EmptySeq
  <2> QED BY <2>1 DEF CompleteInv
<1>4. CASE BackupInitDone
  BY <1>0, <1>4, CompleteAllType, CompleteAllRecords
     DEF CompleteInv, BackupInitDone
<1>5. CASE LaunchAddTransferComplete
  <2>1. cur.key \in Keys /\ pc = "x_tc" /\ pc' = "x_event"
    BY <1>5 DEF TypeInv, CurInv, LaunchPoint, LaunchAddTransferComplete
  <2>2. /\ Len(backup'.tcs) = Len(backup.tcs) + 1
        /\ \A i \in 1..Len(backup.tcs) : backup'.tcs[i] = backup.tcs[i]
    <3>1. NextMethodId \in Nat
      BY <1>0 DEF NextMethodId
    <3>2. backup' = backup_add_transfer_complete(backup, cur.key, NextMethodId)
      BY <1>5 DEF LaunchAddTransferComplete
    <3>3. Appended(backup, backup', cur.key)
      BY <1>0, <2>1, <3>1, <3>2, AddTransferCompleteType
    <3> QED BY <3>3 DEF Appended
  <2> QED BY <1>0, <2>1, <2>2 DEF CompleteInv
<1>6. CASE LaunchFault
  <2>1. backup.tcs # <<>> /\ pc = "x_fault"
    BY <1>6 DEF TypeInv, CurInv, TcPoint, LaunchFault
  <2>2. /\ Len(backup'.tcs) = Len(backup.tcs)
        /\ \A i \in 1..Len(backup.tcs) :
             i # Len(backup.tcs) => backup'.tcs[i].fault = backup.tcs[i].fault
        /\ backup'.tcs[Len(backup.tcs)].fault = TRUE
    BY <1>0, <1>6, <2>1, UpdateFaultType DEF LaunchFault
  <2>3. \A i \in 1..Len(backup.tcs) :
          backup'.tcs[i].complete = backup.tcs[i].complete
    BY <1>0, <1>6, <2>1, UpdateFaultRecords DEF LaunchFault
  <2> QED BY <2>1, <2>2, <2>3 DEF CompleteInv
<1>7. CASE LaunchComplete
  <2>1. backup.tcs # <<>> /\ pc = "x_complete"
    BY <1>7 DEF TypeInv, CurInv, TcPoint, LaunchComplete
  <2>2. /\ Len(backup'.tcs) = Len(backup.tcs)
        /\ \A i \in 1..Len(backup.tcs) : backup'.tcs[i].fault = backup.tcs[i].fault
    BY <1>0, <1>7, <2>1, UpdateCompleteTimeType DEF LaunchComplete
  <2>3. /\ backup'.tcs[Len(backup.tcs)].complete = TRUE
        /\ \A i \in 1..Len(backup.tcs) : i # Len(backup.tcs) =>
             backup'.tcs[i].complete = backup.tcs[i].complete
    BY <1>0, <1>7, <2>1, UpdateCompleteTimeRecords DEF LaunchComplete
  <2> QED BY <2>1, <2>2, <2>3 DEF CompleteInv
<1>8. CASE backup_remove_transfer_complete
  <2>1. backup.tcs # <<>> /\ pc = "tc_remove"
    BY <1>8 DEF TypeInv, CurInv, TcPoint, backup_remove_transfer_complete
  <2>2. /\ Len(backup'.tcs) = Len(backup.tcs) - 1
        /\ \A i \in 1..(Len(backup.tcs) - 1) : backup'.tcs[i] = backup.tcs[i + 1]
    BY <1>0, <1>8, <2>1, RemoveFirstTransferCompleteType
       DEF backup_remove_transfer_complete
  <2> QED BY <1>0, <2>1, <2>2 DEF CompleteInv
<1> QED BY <1>1, <1>2, <1>3, <1>4, <1>5, <1>6, <1>7, <1>8, TimeSteps
        DEF TimeStep

\* rpc_transfer_complete never sends a success with an unknown complete_time:
\* what cwmp_download_launch leaves unknown when the device restarts, backup_init
\* sets before a session can start.
THEOREM CompleteTimesAreKnown == Spec => []CompleteTimeKnown
<1>1. Init => CompleteInv
  BY NoBackupType, EmptySeq DEF Init, CompleteInv
<1>2. TypeInv /\ CompleteInv => CompleteTimeKnown
  <2> SUFFICES ASSUME TypeInv, CompleteInv, SendsTransferComplete
               PROVE  Head(backup.tcs).fault \/ Head(backup.tcs).complete
    BY DEF CompleteTimeKnown
  <2>1. pc = "loop" /\ backup.tcs # <<>> /\ backup.tcs \in Seq(TransferComplete)
    BY DEF SendsTransferComplete, TypeInv, TypeOK, Backup
  <2>2. 1 \in 1..Len(backup.tcs) /\ Head(backup.tcs) = backup.tcs[1]
    BY <2>1, EmptySeq
  <2> QED BY <2>1, <2>2 DEF CompleteInv, PendingPoint
<1>3. Spec => []CompleteInv
  BY <1>1, CompleteStep, LedgerInvariance, PTL DEF Spec, FullInv
<1> QED BY <1>2, <1>3, LedgerInvariance, PTL DEF FullInv

----------------------------------------------------------------------------
\* The steps, by what they do to events and event nodes.

KeepsEvents == UNCHANGED events /\ backup'.evs = backup.evs

ListStep ==
  \/ KeepsEvents
  \/ /\ events' = <<>> /\ pc' \in {"down", "bootstrap"}
     /\ backup'.evs = backup.evs \/ backup'.evs = <<>>
  \/ \E code \in Code, m \in Nat, save \in BOOLEAN :
       /\ Adds(code, m, save) /\ pc # "rm_after_inform"
       /\ code = "CONNECTION_REQUEST" => m = 0 /\ ~save
  \/ \E e \in Event :
       /\ Removes(e)
       /\ pc = "rm_after_inform" \/ e.code \in TransferCode \cup {"CONNECTION_REQUEST"}
  \/ LoadEvent
  \/ \E k \in Keys : HandleReboot(k)

\* ... and to what the ACS knows of the URL and of changed parameters.
CalmStep ==
  /\ backup'.url = backup.url /\ UNCHANGED <<announced, cut, notifications>>
  /\ pc # "bootstrap" /\ pc' \notin {"down", "bootstrap"}
  /\ pc' = "rm_after_inform" <=> pc = "rm_after_inform"

\* The process ends; the file is kept or lost.
GoneStep ==
  /\ pc' = "down" /\ notifications' = FALSE /\ events' = <<>>
  /\ cut \subseteq cut'
  /\ \/ backup' = NoBackup
     \/ /\ UNCHANGED <<backup, announced>>
        /\ pc = "bootstrap" => <<"bootstrap", cur.key>> \in cut'

NewsStep ==
  \/ CalmStep \/ GoneStep \/ BackupAddAcsUrl \/ AddBootstrap
  \/ \E hold \in BOOLEAN : InformAnswered(hold)
  \/ ClearNotifications
  \/ \E active \in BOOLEAN : Notify(active)

\* cwmp_add_event is a step of the list; connection requests are not saved.
LEMMA AddEventListStep ==
  ASSUME NEW code \in Code, NEW key \in KeyOrNone, NEW m \in Nat,
         NEW save \in BOOLEAN, backup \in Backup, events \in Seq(Event),
         cwmp_add_event(code, key, m, save), pc # "rm_after_inform",
         code = "CONNECTION_REQUEST" => m = 0 /\ ~save
  PROVE  ListStep /\ backup'.url = backup.url
<1>1. Adds(code, m, save)
  BY AddEventAdds
<1>2. ListStep
  BY <1>1 DEF ListStep
<1> QED BY <1>2, AddEventType DEF SameTransfers

\* One turn of cwmp_remove_event is a step of the list.
LEMMA RemoveEventListStep ==
  ASSUME NEW policy, NEW m, backup \in Backup, events \in Seq(Event),
         AnyRemovable(policy, m), RemoveOneEvent(policy, m),
         \/ policy = "AFTER_INFORM" /\ pc = "rm_after_inform"
         \/ policy \in {"AFTER_TRANSFER_COMPLETE", "NO_RETRY"}
  PROVE  ListStep /\ backup'.url = backup.url
<1>1. PICK e \in Event : Removable(e, policy, m) /\ Removes(e)
  BY RemoveEventRemoves
<1>2. \/ pc = "rm_after_inform"
      \/ e.code \in TransferCode \cup {"CONNECTION_REQUEST"}
  BY <1>1 DEF Removable, remove_policy
<1>3. ListStep
  BY <1>1, <1>2 DEF ListStep
<1> QED BY <1>3, RemoveEventType DEF SameTransfers

\* Every step of the daemon is of those kinds.
LEMMA EventSteps == TypeInv /\ Next => ListStep /\ NewsStep
<1> SUFFICES ASSUME TypeInv, Next PROVE ListStep /\ NewsStep
  OBVIOUS
<1> USE DEF session, locals, queues, observed
<1>0. /\ SingleCode \cup MultipleCode \subseteq Code /\ UbusCode \subseteq Code
      /\ cur.key \in KeyOrNone /\ NoKey \in KeyOrNone /\ method_id \in Nat
      /\ backup \in Backup /\ events \in Seq(Event)
      /\ MEvent[cur.kind] \in Code \ {"CONNECTION_REQUEST"}
      /\ "CONNECTION_REQUEST" \notin
           {"BOOTSTRAP", "BOOT", "PERIODIC", "SCHEDULED", "VALUE_CHANGE",
            "TRANSFER_COMPLETE", "M_SCHEDULEINFORM"}
  BY DEF Code, UbusCode, SingleCode, MultipleCode, KeyOrNone, TypeInv, TypeOK,
         MEvent, Kind
<1>01. /\ {"BOOTSTRAP", "BOOT", "PERIODIC", "SCHEDULED", "VALUE_CHANGE",
           "TRANSFER_COMPLETE", "M_SCHEDULEINFORM"} \subseteq Code
  BY DEF Code, SingleCode, MultipleCode
<1>1. CASE Startup
  <2>1. CASE BackupInit \/ ConfigLoadSame
    BY <2>1
       DEF ListStep, NewsStep, KeepsEvents, CalmStep, BackupInit,
           ConfigLoadSame, Return
  <2>2. CASE LoadEvent
    BY <2>2 DEF ListStep, NewsStep, CalmStep, LoadEvent
  <2>3. CASE BackupInitDone
    <3>1. backup'.evs = backup.evs /\ backup'.url = backup.url
      BY <1>0, <2>3
         DEF BackupInitDone, backup_update_all_complete_time, Backup
    <3> QED BY <2>3, <3>1
            DEF ListStep, NewsStep, KeepsEvents, CalmStep, BackupInitDone
  <2>4. CASE BackupAddAcsUrl
    <3>1. backup'.evs = <<>>
      BY <2>4 DEF BackupAddAcsUrl, backup_add_acsurl, NoBackup
    <3> QED BY <2>4, <3>1 DEF ListStep, NewsStep, BackupAddAcsUrl
  <2>5. CASE AddBootstrap
    BY <1>0, <1>01, <2>5, AddEventListStep DEF NewsStep, AddBootstrap
  <2>6. CASE StartBoot \/ StartGetRpcMethod
    <3>1. ListStep /\ backup'.url = backup.url
      BY <1>0, <1>01, <2>6, AddEventListStep DEF StartBoot, StartGetRpcMethod
    <3> QED BY <2>6, <3>1 DEF NewsStep, CalmStep, StartBoot, StartGetRpcMethod
  <2> QED BY <1>1, <2>1, <2>2, <2>3, <2>4, <2>5, <2>6 DEF Startup
<1>2. CASE Callbacks
  <2>1. ASSUME \/ \E t \in timers : cwmp_do_inform(t)
               \/ \E url \in Urls : Reload(url)
               \/ \E t \in transfers :
                    LaunchFails(t) \/ \E fault \in BOOLEAN : Launch(t, fault)
        PROVE  KeepsEvents /\ CalmStep
    BY <2>1
       DEF KeepsEvents, CalmStep, cwmp_do_inform, Reload, LaunchFails, Launch
  <2>2. ASSUME \/ \E k \in scheduled : ScheduledInform(k)
               \/ ScheduledInformDone
               \/ cwmp_periodic_inform
        PROVE  ListStep /\ CalmStep
    <3>1. ListStep /\ backup'.url = backup.url
      BY <1>0, <1>01, <2>2, AddEventListStep
         DEF ScheduledInform, ScheduledInformDone, cwmp_periodic_inform
    <3> QED BY <2>2, <3>1
            DEF CalmStep, ScheduledInform, ScheduledInformDone,
                cwmp_periodic_inform
  <2>3. ASSUME NEW code \in InformCodes, cwmp_connection_request(code)
        PROVE  ListStep /\ CalmStep
    <3>1. ListStep /\ backup'.url = backup.url
      <4>1. code \in Code
        BY <1>0, StimuliAssumption
      <4> QED BY <1>0, <2>3, <4>1, AddEventListStep DEF cwmp_connection_request
    <3> QED BY <2>3, <3>1 DEF CalmStep, cwmp_connection_request
  <2>4. ASSUME NEW active \in BOOLEAN, Notify(active)
        PROVE  ListStep /\ NewsStep
    BY <1>0, <1>01, <2>4, AddEventListStep DEF NewsStep, Notify
  <2> QED BY <1>2, <2>1, <2>2, <2>3, <2>4 DEF Callbacks, ListStep, NewsStep
<1>3. CASE Transfer
  <2>1. CASE \/ LaunchRemove \/ LaunchAddTransferComplete \/ LaunchFault
             \/ LaunchComplete
    <3>1. backup'.evs = backup.evs /\ backup'.url = backup.url
      BY <1>0, <2>1
         DEF LaunchRemove, LaunchAddTransferComplete, LaunchFault,
             LaunchComplete, backup_remove_transfer,
             backup_add_transfer_complete, backup_update_fault,
             backup_update_complete_time, Backup
    <3> QED BY <2>1, <3>1
            DEF ListStep, NewsStep, KeepsEvents, CalmStep, LaunchRemove,
                LaunchAddTransferComplete, LaunchFault, LaunchComplete
  <2>2. CASE LaunchAddEvent \/ LaunchAddMEvent
    <3>1. ListStep /\ backup'.url = backup.url
      BY <1>0, <1>01, <2>2, AddEventListStep DEF LaunchAddEvent, LaunchAddMEvent
    <3> QED BY <2>2, <3>1 DEF NewsStep, CalmStep, LaunchAddEvent, LaunchAddMEvent
  <2>3. ASSUME NEW status \in ApplyStatus, LaunchApply(status)
        PROVE  ListStep /\ NewsStep
    <3>1. CASE status = "exit"
      BY <2>3, <3>1 DEF ListStep, NewsStep, GoneStep, LaunchApply, ProcessGone
    <3>2. CASE status # "exit"
      BY <2>3, <3>2 DEF ListStep, NewsStep, KeepsEvents, CalmStep, LaunchApply
    <3> QED BY <3>1, <3>2
  <2> QED BY <1>3, <2>1, <2>2, <2>3 DEF Transfer
<1>4. CASE Session
  <2>1. CASE RemoveAfterInform \/ RemoveAfterTransferComplete
    <3>1. ListStep /\ backup'.url = backup.url
      BY <1>0, <2>1, RemoveEventListStep
         DEF RemoveAfterInform, RemoveAfterTransferComplete
    <3> QED BY <2>1, <3>1
            DEF NewsStep, CalmStep, RemoveAfterInform, RemoveAfterTransferComplete
  <2>2. CASE \/ RemoveMidDone \/ HandleMessages \/ EndReload \/ EndPlain
             \/ SessionSuccess
    BY <2>2
       DEF ListStep, NewsStep, KeepsEvents, CalmStep, RemoveMidDone,
           HandleMessages, EndReload, EndPlain, SessionSuccess
  <2>3. CASE ClearNotifications
    BY <2>3 DEF ListStep, NewsStep, KeepsEvents, ClearNotifications
  <2>4. CASE backup_remove_transfer_complete
    <3>1. backup'.evs = backup.evs /\ backup'.url = backup.url
      BY <1>0, <2>4
         DEF backup_remove_transfer_complete,
             backup_remove_first_transfer_complete, Backup
    <3> QED BY <2>4, <3>1
            DEF ListStep, NewsStep, KeepsEvents, CalmStep,
                backup_remove_transfer_complete
  <2>5. CASE EndFactoryReset
    BY <2>5 DEF ListStep, NewsStep, GoneStep, EndFactoryReset, ProcessGone, NoBackup
  <2>6. CASE EndReboot
    BY <2>6 DEF ListStep, NewsStep, GoneStep, EndReboot, ProcessGone
  <2>7. CASE cwmp_retry_session
    <3>1. ListStep /\ backup'.url = backup.url
      <4>1. CASE AnyRemovable("NO_RETRY", 0)
        BY <1>0, <2>7, <4>1, RemoveEventListStep DEF cwmp_retry_session
      <4>2. CASE ~AnyRemovable("NO_RETRY", 0)
        BY <2>7, <4>2 DEF cwmp_retry_session, ListStep, KeepsEvents
      <4> QED BY <4>1, <4>2
    <3> QED BY <2>7, <3>1 DEF NewsStep, CalmStep, cwmp_retry_session
  <2> QED BY <1>4, <2>1, <2>2, <2>3, <2>4, <2>5, <2>6, <2>7 DEF Session
<1>5. CASE AcsAnswers \/ EmptyMessage
  <2>1. ASSUME NEW hold \in BOOLEAN, InformAnswered(hold)
        PROVE  ListStep /\ NewsStep
    BY <2>1 DEF ListStep, NewsStep, KeepsEvents, InformAnswered
  <2>2. ASSUME NEW hold \in BOOLEAN,
               TransferCompleteAnswered(hold) \/ GetRpcMethodsAnswered(hold)
        PROVE  KeepsEvents /\ CalmStep
    BY <2>2
       DEF KeepsEvents, CalmStep, TransferCompleteAnswered,
           GetRpcMethodsAnswered, SendsTransferComplete, SendsGetRpcMethods
  <2>3. CASE EmptyMessage
    BY <2>3 DEF ListStep, NewsStep, KeepsEvents, CalmStep, EmptyMessage
  <2> QED BY <1>5, <2>1, <2>2, <2>3 DEF AcsAnswers, ListStep, NewsStep
<1>6. CASE AcsRequests
  <2>1. CASE HandleFactoryReset \/ \E url \in Urls : HandleSetUrl(url)
    BY <2>1
       DEF ListStep, NewsStep, KeepsEvents, CalmStep, HandleFactoryReset,
           HandleSetUrl
  <2>2. ASSUME NEW k \in Keys, HandleScheduleInform(k)
        PROVE  KeepsEvents /\ CalmStep
    BY <2>2 DEF KeepsEvents, CalmStep, HandleScheduleInform
  <2>3. ASSUME NEW k \in Keys, HandleReboot(k)
        PROVE  ListStep /\ CalmStep
    BY <1>0, <2>3 DEF ListStep, CalmStep, HandleReboot, backup_add_event, Backup
  <2>4. ASSUME NEW k \in Keys, NEW r \in Requests, HandleTransfer(r, k)
        PROVE  KeepsEvents /\ CalmStep
    <3>1. backup'.evs = backup.evs /\ backup'.url = backup.url
      BY <1>0, <2>4 DEF HandleTransfer, backup_add_transfer, Backup
    <3> QED BY <2>4, <3>1 DEF KeepsEvents, CalmStep, HandleTransfer
  <2> QED BY <1>6, <2>1, <2>2, <2>3, <2>4 DEF AcsRequests, ListStep, NewsStep
<1>7. CASE Failures
  <2>1. CASE ExchangeFails \/ Fault8005
    BY <2>1
       DEF ListStep, NewsStep, KeepsEvents, CalmStep, ExchangeFails, Fault8005,
           Exchanging, SendsTransferComplete, SendsGetRpcMethods
  <2>2. CASE ConfigLoadFails
    BY <2>2 DEF ListStep, NewsStep, GoneStep, ConfigLoadFails, ProcessGone
  <2>3. CASE Crash
    BY <2>3 DEF ListStep, NewsStep, GoneStep, Crash, ProcessGone, CutPoint
  <2>4. CASE CrashInSave
    BY <2>4 DEF ListStep, NewsStep, GoneStep, CrashInSave, ProcessGone, NoBackup
  <2> QED BY <1>7, <2>1, <2>2, <2>3, <2>4 DEF Failures
<1> QED BY <1>1, <1>2, <1>3, <1>4, <1>5, <1>6, <1>7 DEF Next

----------------------------------------------------------------------------
\* Events and their nodes.

\* An event's node carries the event's code; a connection request has no
\* method_id, is listed once and never saved.
NodeInv ==
  /\ \A e \in Listed : e.node = NoNode \/ e.node.code = e.code
  /\ \A n \in Filed : ~IsRequest(n)
  /\ \A e \in Listed : IsRequest(e) => e.mid = 0
  /\ OneRequest

\* The list entry that backup_load_event makes.
LEMMA LoadEventCases ==
  ASSUME TypeInv, LoadEvent
  PROVE  LET n == backup.evs[loaded + 1]
         IN /\ loaded + 1 \in 1..Len(backup.evs) /\ n \in Filed /\ n \in Node
            /\ \/ UNCHANGED events /\ n.code \in SingleCode /\ HasCode(n.code)
               \/ \E e \in Event :
                    /\ ~(n.code \in SingleCode /\ HasCode(n.code))
                    /\ e.code = n.code /\ e.key = n.key /\ e.node = n
                    /\ e.mid = IF n.mid # 0 THEN n.mid ELSE mid
                    /\ With(events, e, events')
<1> DEFINE n == backup.evs[loaded + 1]
           m == IF n.mid # 0 THEN n.mid ELSE mid
           e == LoadedEvent(n, m)
<1>1. backup.evs \in Seq(Node) /\ loaded \in Nat /\ mid \in Nat
  BY DEF TypeInv, TypeOK, Backup
<1>2. loaded + 1 \in 1..Len(backup.evs)
  BY <1>1 DEF LoadEvent
<1>3. n \in Node /\ n \in Filed
  BY <1>1, <1>2, ElementOfSeq DEF Filed, Elements
<1>4. m \in Nat
  BY <1>1, <1>3 DEF Node
<1>5. /\ e \in Event /\ e.code = n.code /\ e.key = n.key /\ e.node = n
      /\ e.mid = m
  BY <1>3, <1>4 DEF LoadedEvent, Event, Node
<1>6. events' = IF n.code \in SingleCode /\ HasCode(n.code) THEN events
                ELSE Append(events, e)
  BY DEF LoadEvent
<1>7. events \in Seq(Event)
  BY DEF TypeInv, TypeOK
<1> HIDE DEF e, n
<1>8. CASE n.code \in SingleCode /\ HasCode(n.code)
  BY <1>2, <1>3, <1>6, <1>8 DEF n
<1>9. CASE ~(n.code \in SingleCode /\ HasCode(n.code))
  <2>1. With(events, e, events')
    BY <1>5, <1>6, <1>7, <1>9, AppendWith
  <2> QED BY <1>2, <1>3, <1>5, <1>9, <2>1 DEF n
<1> QED BY <1>8, <1>9

\* NodeInv is preserved.
LEMMA NodeStep == TypeInv /\ NodeInv /\ ListStep => NodeInv'
<1> SUFFICES ASSUME TypeInv, NodeInv, ListStep PROVE NodeInv'
  OBVIOUS
<1>1. CASE KeepsEvents
  BY <1>1 DEF KeepsEvents, NodeInv, Listed, Filed, OneRequest, IsRequest
<1>2. CASE /\ events' = <<>>
           /\ backup'.evs = backup.evs \/ backup'.evs = <<>>
  <2>1. Len(events') = 0 /\ Listed' = {}
    BY <1>2, EmptySeq DEF Listed, Elements
  <2>2. Filed' \subseteq Filed
    BY <1>2, EmptySeq DEF Filed, Elements
  <2>3. OneRequest'
    BY <2>1 DEF OneRequest
  <2> QED BY <2>1, <2>2, <2>3 DEF NodeInv, IsRequest
<1>3. ASSUME NEW code \in Code, NEW m \in Nat, NEW save \in BOOLEAN,
             Adds(code, m, save),
             code = "CONNECTION_REQUEST" => m = 0 /\ ~save
      PROVE  NodeInv'
  <2>1. \A e \in Listed' : e.node = NoNode \/ e.node.code = e.code
    BY <1>3 DEF NodeInv, Adds
  <2>2. \A n \in Filed' : ~IsRequest(n)
    BY <1>3 DEF NodeInv, Adds, IsRequest
  <2>3. \A e \in Listed' : IsRequest(e) => e.mid = 0
    BY <1>3 DEF NodeInv, Adds, IsRequest
  <2>4. OneRequest'
    BY <1>3 DEF NodeInv, Adds
  <2> QED BY <2>1, <2>2, <2>3, <2>4 DEF NodeInv, IsRequest
<1>4. ASSUME NEW e \in Event, Removes(e)
      PROVE  NodeInv'
  BY <1>4 DEF NodeInv, Removes, IsRequest
<1>5. CASE LoadEvent
  <2>1. Filed' = Filed
    BY <1>5 DEF LoadEvent, Filed
  <2>2. CASE UNCHANGED events
    BY <2>1, <2>2 DEF NodeInv, Listed, OneRequest, IsRequest
  <2>3. ASSUME NEW e \in Event, NEW n \in Filed, e.code = n.code, e.node = n,
               With(events, e, events')
        PROVE  NodeInv'
    <3>1. ~IsRequest(e) /\ e.node.code = e.code
      BY <2>3 DEF NodeInv, IsRequest
    <3>2. Listed' = Listed \cup {e}
      BY <2>3, WithElements DEF Listed
    <3>3. OneRequest'
      BY <2>3, <3>1, AppendOneRequest DEF NodeInv
    <3> QED BY <2>1, <3>1, <3>2, <3>3 DEF NodeInv, IsRequest
  <2> QED BY <1>5, <2>2, <2>3, LoadEventCases
<1>6. ASSUME NEW k \in Keys, HandleReboot(k)
      PROVE  NodeInv'
  <2> DEFINE n == [code |-> "M_REBOOT", key |-> k, mid |-> 0]
  <2>1. n \in Node /\ backup.evs \in Seq(Node) /\ UNCHANGED events
    BY <1>6
       DEF Node, Code, MultipleCode, TypeInv, TypeOK, Backup, HandleReboot
  <2>2. backup'.evs = Append(backup.evs, n)
    BY <1>6 DEF HandleReboot, backup_add_event, TypeInv, TypeOK, Backup
  <2>3. ~IsRequest(n)
    BY DEF IsRequest
  <2> HIDE DEF n
  <2>4. Filed' = Filed \cup {n}
    BY <2>1, <2>2, AppendWith, WithElements DEF Filed
  <2> QED BY <2>1, <2>3, <2>4 DEF NodeInv, Listed, OneRequest, IsRequest
<1> QED BY <1>1, <1>2, <1>3, <1>4, <1>5, <1>6 DEF ListStep

\* A factory-new device satisfies it.
LEMMA NodeInit == Init => NodeInv
<1> SUFFICES ASSUME Init PROVE NodeInv
  OBVIOUS
<1>1. Len(events) = 0 /\ Len(backup.evs) = 0
  BY EmptySeq DEF Init, NoBackup
<1>2. Listed = {} /\ Filed = {}
  BY <1>1 DEF Listed, Filed, Elements
<1> QED BY <1>1, <1>2 DEF NodeInv, OneRequest

----------------------------------------------------------------------------
\* BOOTSTRAP and VALUE CHANGE.

BootOnFile == \E n \in Filed : n.code = "BOOTSTRAP"

\* A bootstrap event is removed only when the ACS was told of it, and
\* notifications go before their event does.
NewsInv ==
  /\ pc = "bootstrap" => events = <<>>
  /\ pc = "rm_after_inform" /\ HasCode("BOOTSTRAP") => announced
  /\ BootstrapNotLost
  /\ notifications /\ pc # "rm_after_inform" => HasCode("VALUE_CHANGE")

\* BootstrapNotLost in terms of the set of nodes.
LEMMA BootOnFileMeans ==
  BootOnFile <=> \E i \in 1..Len(backup.evs) : backup.evs[i].code = "BOOTSTRAP"
BY DEF BootOnFile, Filed, Elements

\* A calm step keeps BOOTSTRAP until the ACS has been told, and VALUE CHANGE
\* until the Inform was answered.
LEMMA CalmNews ==
  ASSUME TypeInv, NodeInv, NewsInv, ListStep, CalmStep
  PROVE  /\ BootOnFile => BootOnFile' \/ announced
         /\ HasCode("VALUE_CHANGE") /\ pc # "rm_after_inform"
              => HasCode("VALUE_CHANGE")'
         /\ pc = "rm_after_inform" /\ HasCode("BOOTSTRAP")'
              => HasCode("BOOTSTRAP")
<1> DEFINE L(code) == \E e \in Listed : e.code = code
           Goal == /\ BootOnFile => BootOnFile' \/ announced
                   /\ L("VALUE_CHANGE") /\ pc # "rm_after_inform"
                        => L("VALUE_CHANGE")'
                   /\ pc = "rm_after_inform" /\ L("BOOTSTRAP")' => L("BOOTSTRAP")
<1>1. ASSUME KeepsEvents PROVE Goal
  BY <1>1 DEF KeepsEvents, BootOnFile, Filed, Listed
<1>2. ASSUME NEW code \in Code, NEW m \in Nat, NEW save \in BOOLEAN,
             Adds(code, m, save), pc # "rm_after_inform"
      PROVE  Goal
  BY <1>2 DEF Adds, BootOnFile
<1>3. ASSUME NEW e \in Event, Removes(e),
             \/ pc = "rm_after_inform"
             \/ e.code \in TransferCode \cup {"CONNECTION_REQUEST"}
      PROVE  Goal
  <2>1. e.node.code = "BOOTSTRAP" => e.code = "BOOTSTRAP"
    BY <1>3 DEF Removes, NodeInv, NoNode
  <2>2. e.code = "BOOTSTRAP" => announced
    BY <1>3, HasCodeListed DEF NewsInv, TransferCode, Removes
  <2>3. BootOnFile => BootOnFile' \/ announced
    BY <1>3, <2>1, <2>2 DEF Removes, BootOnFile
  <2>4. pc # "rm_after_inform" => e.code # "VALUE_CHANGE"
    BY <1>3 DEF TransferCode
  <2> QED BY <1>3, <2>3, <2>4 DEF Removes
<1>4. ASSUME LoadEvent PROVE Goal
  <2>1. Filed' = Filed /\ pc # "rm_after_inform"
    BY <1>4 DEF LoadEvent, Filed
  <2>2. Listed \subseteq Listed'
    BY <1>4, LoadEventCases, WithElements DEF Listed
  <2> QED BY <2>1, <2>2 DEF BootOnFile
<1>5. ASSUME NEW k \in Keys, HandleReboot(k)
      PROVE  Goal
  <2> DEFINE n == [code |-> "M_REBOOT", key |-> k, mid |-> 0]
  <2>1. /\ n \in Node /\ backup.evs \in Seq(Node) /\ UNCHANGED events
        /\ pc = "messages"
    BY <1>5
       DEF Node, Code, MultipleCode, TypeInv, TypeOK, Backup, HandleReboot
  <2>2. backup'.evs = Append(backup.evs, n)
    BY <1>5 DEF HandleReboot, backup_add_event, TypeInv, TypeOK, Backup
  <2> HIDE DEF n
  <2>3. Filed' = Filed \cup {n}
    BY <2>1, <2>2, AppendWith, WithElements DEF Filed
  <2> QED BY <2>1, <2>3 DEF BootOnFile, Listed
<1> HIDE DEF Goal
<1>6. Goal
  BY <1>1, <1>2, <1>3, <1>4, <1>5 DEF ListStep, CalmStep
<1>7. \A code : HasCode(code)' <=> L(code)'
  BY DEF HasCode, Listed, Elements
<1> QED BY <1>6, <1>7, HasCodeListed DEF Goal

\* NewsInv is preserved.
LEMMA NewsStepPreserves ==
  TypeInv /\ CurrentKnown /\ NodeInv /\ NewsInv /\ ListStep /\ NewsStep => NewsInv'
<1> SUFFICES ASSUME TypeInv, CurrentKnown, NodeInv, NewsInv, ListStep, NewsStep
             PROVE  NewsInv'
  OBVIOUS
<1> USE DEF session, locals, queues, observed
<1>0. /\ backup \in Backup /\ events \in Seq(Event)
      /\ {"BOOTSTRAP", "VALUE_CHANGE"} \subseteq Code /\ NoKey \in KeyOrNone
  BY DEF TypeInv, TypeOK, Code, SingleCode, KeyOrNone
<1>1. ASSUME CalmStep PROVE NewsInv'
  <2>1. BootstrapNotLost'
    BY <1>1, CalmNews, BootOnFileMeans
       DEF NewsInv, CalmStep, BootstrapNotLost, BootOnFile, Filed, Elements
  <2> QED BY <1>1, <2>1, CalmNews DEF NewsInv, CalmStep
<1>2. ASSUME GoneStep PROVE NewsInv'
  <2>1. backup' = NoBackup => backup'.url = NoUrl
    BY DEF NoBackup
  <2>2. pc = "bootstrap" /\ backup' # NoBackup
          => <<"bootstrap", NoKey>> \in cut'
    <3>1. pc = "bootstrap" => cur.key = NoKey
      BY DEF CurrentKnown, WorkPoint, LaunchPoint, TcPoint
    <3> QED BY <1>2, <3>1 DEF GoneStep
  <2> QED BY <1>2, <2>1, <2>2 DEF NewsInv, GoneStep, BootstrapNotLost
<1>3. ASSUME BackupAddAcsUrl PROVE NewsInv'
  BY <1>3 DEF NewsInv, BackupAddAcsUrl, BootstrapNotLost
<1>4. ASSUME AddBootstrap PROVE NewsInv'
  <2>1. events = <<>> /\ Len(events) = 0 /\ ~HasCode("BOOTSTRAP")
    BY <1>4, EmptySeq DEF NewsInv, AddBootstrap, HasCode
  <2>2. Adds("BOOTSTRAP", 0, TRUE)
    BY <1>0, <1>4, AddEventAdds DEF AddBootstrap
  <2>3. BootOnFile'
    BY <2>1, <2>2 DEF Adds, BootOnFile
  <2>4. BootstrapNotLost'
    BY <2>3 DEF BootstrapNotLost, BootOnFile, Filed, Elements
  <2>5. ~notifications
    BY <1>4, <2>1 DEF NewsInv, AddBootstrap, HasCode
  <2>6. pc' \in {"boot", "idle", "end_session"} /\ notifications' = notifications
    BY <1>4 DEF AddBootstrap, Return
  <2> QED BY <2>4, <2>5, <2>6 DEF NewsInv
<1>5. ASSUME NEW hold \in BOOLEAN, InformAnswered(hold) PROVE NewsInv'
  BY <1>5 DEF NewsInv, InformAnswered, BootstrapNotLost, HasCode
<1>6. ASSUME ClearNotifications PROVE NewsInv'
  BY <1>6 DEF NewsInv, ClearNotifications, BootstrapNotLost, HasCode
<1>7. ASSUME NEW active \in BOOLEAN, Notify(active) PROVE NewsInv'
  <2>1. Adds("VALUE_CHANGE", 0, FALSE) /\ backup'.url = backup.url
    BY <1>0, <1>7, AddEventAdds, AddEventType DEF Notify, SameTransfers
  <2>2. HasCode("VALUE_CHANGE")'
    BY <2>1 DEF Adds, HasCode, Listed, Elements
  <2>3. BootOnFile => BootOnFile'
    BY <2>1 DEF Adds, BootOnFile
  <2>4. BootstrapNotLost'
    BY <1>7, <2>1, <2>3, BootOnFileMeans
       DEF NewsInv, Notify, BootstrapNotLost, BootOnFile, Filed, Elements
  <2> QED BY <1>7, <2>2, <2>4 DEF NewsInv, Notify
<1> QED BY <1>1, <1>2, <1>3, <1>4, <1>5, <1>6, <1>7 DEF NewsStep

\* Both invariants hold of every behaviour.
LEMMA NewsInvariance == Spec => [](NodeInv /\ NewsInv)
<1>1. Init => NodeInv /\ NewsInv
  <2>1. ASSUME Init PROVE NewsInv
    BY <2>1 DEF Init, NewsInv, BootstrapNotLost, NoBackup
  <2> QED BY <2>1, NodeInit
<1>2. FullInv /\ NodeInv /\ NewsInv /\ [Next]_vars => (NodeInv /\ NewsInv)'
  <2> SUFFICES ASSUME FullInv, NodeInv, NewsInv, [Next]_vars
               PROVE  (NodeInv /\ NewsInv)'
    OBVIOUS
  <2>1. CASE Next
    BY <2>1, EventSteps, NodeStep, NewsStepPreserves DEF FullInv, LedgerInv
  <2>2. CASE UNCHANGED vars
    <3>1. UNCHANGED <<backup, events, pc, cut, announced, notifications>>
      BY <2>2 DEF vars, observed, queues
    <3>2. NodeInv'
      BY <3>1 DEF NodeInv, Listed, Filed, OneRequest, IsRequest
    <3>3. NewsInv'
      BY <3>1 DEF NewsInv, BootstrapNotLost, HasCode
    <3> QED BY <3>2, <3>3
  <2> QED BY <2>1, <2>2
<1> QED BY <1>1, <1>2, LedgerInvariance, PTL DEF Spec

\* backup_add_acsurl: an ACS URL that is on file was told BOOTSTRAP or will be,
\* through restarts, failed sessions and reloads, but for a power cut between
\* its two saves.
THEOREM BootstrapIsKept == Spec => []BootstrapNotLost
<1>1. NewsInv => BootstrapNotLost
  BY DEF NewsInv
<1> QED BY <1>1, NewsInvariance, PTL

\* cwmp_add_notification: noted parameters never wait without the VALUE CHANGE
\* event that makes an Inform carry them.
THEOREM NotificationsHaveEvents == Spec => []NotificationHasEvent
<1>1. NewsInv => NotificationHasEvent
  BY DEF NewsInv, NotificationHasEvent
<1> QED BY <1>1, NewsInvariance, PTL

----------------------------------------------------------------------------
\* Wakeups.

\* Something to tell the ACS that only a session can tell.
Reporting == backup.tcs # <<>> \/ get_rpc_methods

\* An event that cwmp_retry_session thinks worth a retry.
Retriable == \E e \in Listed : ~IsRequest(e)
NoRequest == \A e \in Listed : ~IsRequest(e)

\* A report is accompanied by such an event, or sessions are being retried:
\* otherwise a failed session would not be repeated.
Backed == Reporting => retry_count # 0 \/ Retriable

\* No event that an Inform delivers is left, but for those with these codes.
OnlyWaiting(codes) == \A e \in Listed : e.mid = 0 => e.code \in codes
Delivered == OnlyWaiting(TransferCode)
AlmostDelivered == OnlyWaiting(TransferCode \cup {"VALUE_CHANGE"})

BackedPoint ==
  {"getrpcmethod", "inform", "idle", "m_scheduleinform", "x_remove", "x_tc",
   "x_m_event", "x_apply", "x_fault", "x_complete"}

\* config_load, called from the uloop or at the end of a session.
Idling == pc = "idle" \/ (pc = "config_load" /\ ret = "reload")
Ending == \/ pc \in {"end", "end_session"}
          \/ pc = "config_load" /\ ret \in {"end_ok", "end_error"}

\* The inductive strengthening of WakeupPending.
WakeInv ==
  /\ pc \in BackedPoint \/ Idling => Backed
  /\ Idling => \/ timers # {}
               \/ ~Reporting /\ retry_count = 0 /\ AlmostDelivered
  /\ pc \in {"loop", "tc_remove", "rm_mid", "messages"} => Delivered /\ NoRequest
  /\ Ending => Backed \/ NoRequest
  /\ Ending /\ ret = "end_ok" => ~Reporting /\ (timers # {} \/ Delivered)
  /\ pc \in {"end", "end_session"} => ret \in {"end_ok", "end_error"}
  /\ pc = "bootstrap" => ~Reporting /\ retry_count = 0

\* What WakeInv says of list, file and session has not changed.
SameNeeds ==
  /\ retry_count' = retry_count
  /\ Reporting' <=> Reporting
  /\ Backed' <=> Backed
  /\ NoRequest' <=> NoRequest
  /\ Delivered' <=> Delivered
  /\ AlmostDelivered' <=> AlmostDelivered

\* That is so when the events stay and no TransferComplete comes or goes.
LEMMA SameEventsNeeds ==
  ASSUME UNCHANGED <<events, get_rpc_methods, retry_count>>,
         backup'.tcs = <<>> <=> backup.tcs = <<>>
  PROVE  SameNeeds
<1>1. Listed' = Listed
  BY DEF Listed
<1>2. Reporting' <=> Reporting
  BY DEF Reporting
<1>3. Retriable' <=> Retriable
  BY <1>1 DEF Retriable, IsRequest
<1>4. NoRequest' <=> NoRequest
  BY <1>1 DEF NoRequest, IsRequest
<1>5. (Delivered' <=> Delivered) /\ (AlmostDelivered' <=> AlmostDelivered)
  BY <1>1 DEF Delivered, AlmostDelivered, OnlyWaiting
<1>6. Backed' <=> Backed
  BY <1>2, <1>3 DEF Backed
<1> QED BY <1>2, <1>4, <1>5, <1>6 DEF SameNeeds

\* An added event other than a connection request is worth a retry.
LEMMA AddsNeeds ==
  ASSUME NEW code, NEW m, NEW save, Adds(code, m, save)
  PROVE  /\ Retriable => Retriable'
         /\ code # "CONNECTION_REQUEST" => Retriable'
         /\ code # "CONNECTION_REQUEST" /\ NoRequest => NoRequest'
         /\ code = "VALUE_CHANGE" /\ AlmostDelivered => AlmostDelivered'
<1>1. Retriable => Retriable'
  BY DEF Adds, Retriable, IsRequest
<1>2. code # "CONNECTION_REQUEST" => Retriable'
  BY DEF Adds, Retriable, IsRequest
<1>3. code # "CONNECTION_REQUEST" /\ NoRequest => NoRequest'
  BY DEF Adds, NoRequest, IsRequest
<1>4. code = "VALUE_CHANGE" /\ AlmostDelivered => AlmostDelivered'
  BY DEF Adds, AlmostDelivered, OnlyWaiting
<1> QED BY <1>1, <1>2, <1>3, <1>4

\* A removal makes nothing wait.
LEMMA RemovesNeeds ==
  ASSUME NEW e, Removes(e)
  PROVE  /\ NoRequest => NoRequest'
         /\ Delivered => Delivered'
         /\ AlmostDelivered => AlmostDelivered'
         /\ OneRequest /\ IsRequest(e) => NoRequest'
<1>1. NoRequest => NoRequest'
  BY DEF Removes, NoRequest, IsRequest
<1>2. (Delivered => Delivered') /\ (AlmostDelivered => AlmostDelivered')
  BY DEF Removes, Delivered, AlmostDelivered, OnlyWaiting
<1>3. OneRequest /\ IsRequest(e) => NoRequest'
  BY DEF Removes, NoRequest, IsRequest
<1> QED BY <1>1, <1>2, <1>3

\* After the removal after Inform nothing waits, connection requests included.
LEMMA AllRemoved ==
  ASSUME NodeInv, ~AnyRemovable("AFTER_INFORM", 0)
  PROVE  Delivered /\ NoRequest
<1>1. ASSUME NEW e \in Listed, e.mid = 0
      PROVE  e.code \in TransferCode
  BY <1>1
     DEF AnyRemovable, Removable, remove_policy, Listed, Elements
<1>2. Delivered
  BY <1>1 DEF Delivered, OnlyWaiting
<1>3. NoRequest
  BY <1>1 DEF NodeInv, NoRequest, IsRequest, TransferCode
<1> QED BY <1>2, <1>3

\* The steps of main, backup_init and config_load preserve WakeInv.
LEMMA WakeStartup == TypeInv /\ NodeInv /\ WakeInv /\ Startup => WakeInv'
<1> SUFFICES ASSUME TypeInv, NodeInv, WakeInv, Startup PROVE WakeInv'
  OBVIOUS
<1> USE DEF session, locals, queues, observed, Idling, Ending, BackedPoint
<1>0. /\ backup \in Backup /\ events \in Seq(Event) /\ NoKey \in KeyOrNone
      /\ {"BOOTSTRAP", "BOOT", "PERIODIC"} \subseteq Code
      /\ ret \in {"main", "reload", "end_ok", "end_error"}
  BY DEF TypeInv, TypeOK, Code, SingleCode, KeyOrNone
<1>1. CASE BackupInit \/ LoadEvent \/ BackupInitDone
  <2>1. pc' = "load_event" \/ (pc' = "config_load" /\ ret' = "main")
    BY <1>1 DEF BackupInit, LoadEvent, BackupInitDone
  <2> QED BY <2>1 DEF WakeInv
<1>2. CASE ConfigLoadSame
  <2>1. SameNeeds
    BY <1>2, SameEventsNeeds DEF ConfigLoadSame
  <2> QED BY <1>0, <1>2, <2>1 DEF WakeInv, ConfigLoadSame, Return, SameNeeds
<1>3. CASE BackupAddAcsUrl
  <2>1. ~Reporting'
    BY <1>3, NoBackupType
       DEF BackupAddAcsUrl, backup_add_acsurl, Reporting, Backup
  <2> QED BY <1>3, <2>1 DEF WakeInv, BackupAddAcsUrl
<1>4. CASE AddBootstrap
  <2>1. Adds("BOOTSTRAP", 0, TRUE) /\ backup'.tcs = backup.tcs
    BY <1>0, <1>4, AddEventAdds, AddEventType DEF AddBootstrap, SameTransfers
  <2>2. Retriable'
    BY <2>1 DEF Adds, Retriable, IsRequest
  <2>3. timers' # {} /\ (Reporting' <=> Reporting)
    BY <1>4, <2>1 DEF AddBootstrap, Reporting, cwmp_add_inform_timer
  <2>4. pc' = Return /\ ret' = ret /\ ~Reporting
    BY <1>4 DEF AddBootstrap, WakeInv
  <2>5. Backed'
    BY <2>2 DEF Backed
  <2> QED BY <1>0, <2>3, <2>4, <2>5 DEF WakeInv, Return
<1>5. CASE StartBoot
  <2>1. Adds("BOOT", 0, TRUE)
    BY <1>0, <1>5, AddEventAdds DEF StartBoot
  <2>2. Backed'
    BY <2>1 DEF Adds, Retriable, IsRequest, Backed
  <2> QED BY <1>5, <2>2 DEF WakeInv, StartBoot
<1>6. CASE StartGetRpcMethod
  <2>1. Adds("PERIODIC", 0, TRUE)
    BY <1>0, <1>6, AddEventAdds DEF StartGetRpcMethod
  <2>2. Backed'
    BY <2>1 DEF Adds, Retriable, IsRequest, Backed
  <2> QED BY <1>6, <2>2 DEF WakeInv, StartGetRpcMethod, cwmp_add_inform_timer
<1> QED BY <1>1, <1>2, <1>3, <1>4, <1>5, <1>6 DEF Startup

\* So do the callbacks.
LEMMA WakeCallbacks == TypeInv /\ NodeInv /\ WakeInv /\ Callbacks => WakeInv'
<1> SUFFICES ASSUME TypeInv, NodeInv, WakeInv, Callbacks PROVE WakeInv'
  OBVIOUS
<1> USE DEF session, locals, queues, observed, Idling, Ending, BackedPoint
<1>0. /\ backup \in Backup /\ events \in Seq(Event) /\ NoKey \in KeyOrNone
      /\ {"VALUE_CHANGE", "PERIODIC", "SCHEDULED", "M_SCHEDULEINFORM"}
            \subseteq Code
      /\ UbusCode \subseteq Code /\ cur.key \in KeyOrNone
  BY DEF TypeInv, TypeOK, Code, SingleCode, MultipleCode, UbusCode, KeyOrNone
<1>1. ASSUME \/ \E t \in timers : cwmp_do_inform(t)
             \/ \E url \in Urls : Reload(url)
             \/ \E t \in transfers :
                  LaunchFails(t) \/ \E fault \in BOOLEAN : Launch(t, fault)
      PROVE  WakeInv'
  <2>1. SameNeeds
    BY <1>1, SameEventsNeeds DEF cwmp_do_inform, Reload, LaunchFails, Launch
  <2>2. /\ pc = "idle"
        /\ \/ pc' \in {"inform", "x_remove"}
           \/ pc' = "config_load" /\ ret' = "reload" /\ timers' = timers
           \/ pc' = "idle" /\ timers' = timers
    BY <1>1 DEF cwmp_do_inform, Reload, LaunchFails, Launch
  <2> QED BY <2>1, <2>2 DEF WakeInv, SameNeeds
<1>2. ASSUME NEW code \in Code, NEW key \in KeyOrNone, NEW save \in BOOLEAN,
             cwmp_add_event(code, key, 0, save), UNCHANGED session,
             pc \in {"idle", "m_scheduleinform"},
             pc' \in {"idle", "m_scheduleinform"},
             \/ timers' # {}
             \/ pc' = "m_scheduleinform"
             \/ code = "VALUE_CHANGE" /\ timers' = timers /\ pc = "idle"
      PROVE  WakeInv'
  <2>1. Adds(code, 0, save) /\ backup'.tcs = backup.tcs
    BY <1>0, <1>2, AddEventAdds, AddEventType DEF SameTransfers
  <2>2. /\ Retriable => Retriable'
        /\ code = "VALUE_CHANGE" /\ AlmostDelivered => AlmostDelivered'
    BY <2>1, AddsNeeds
  <2>3. Reporting' <=> Reporting
    BY <1>2, <2>1 DEF Reporting
  <2>4. Backed'
    BY <1>2, <2>2, <2>3 DEF WakeInv, Backed
  <2> QED BY <1>2, <2>2, <2>3, <2>4 DEF WakeInv
<1>3. ASSUME NEW k \in scheduled, ScheduledInform(k)
      PROVE  WakeInv'
  BY <1>0, <1>2, <1>3 DEF ScheduledInform
<1>4. CASE ScheduledInformDone
  BY <1>0, <1>2, <1>4 DEF ScheduledInformDone, cwmp_add_inform_timer
<1>5. ASSUME NEW code \in InformCodes, cwmp_connection_request(code)
      PROVE  WakeInv'
  BY <1>0, <1>2, <1>5, StimuliAssumption
     DEF cwmp_connection_request, cwmp_add_inform_timer
<1>6. ASSUME NEW active \in BOOLEAN, Notify(active)
      PROVE  WakeInv'
  BY <1>0, <1>2, <1>6 DEF Notify, cwmp_add_inform_timer
<1>7. CASE cwmp_periodic_inform
  BY <1>0, <1>2, <1>7 DEF cwmp_periodic_inform, cwmp_add_inform_timer
<1> QED BY <1>1, <1>3, <1>4, <1>5, <1>6, <1>7 DEF Callbacks

\* So do cwmp_download_launch and cwmp_upload_launch.
LEMMA WakeTransfer == TypeInv /\ NodeInv /\ WakeInv /\ Transfer => WakeInv'
<1> SUFFICES ASSUME TypeInv, NodeInv, WakeInv, Transfer PROVE WakeInv'
  OBVIOUS
<1> USE DEF session, locals, queues, observed, Idling, Ending, BackedPoint
<1>0. /\ backup \in Backup /\ events \in Seq(Event) /\ NoKey \in KeyOrNone
      /\ "TRANSFER_COMPLETE" \in Code /\ cur.key \in KeyOrNone
      /\ method_id \in Nat /\ cur.kind \in Kind
      /\ pc \in TcPoint => backup.tcs # <<>>
      /\ backup.tcs \in Seq(TransferComplete)
  BY DEF TypeInv, TypeOK, CurInv, Code, SingleCode, KeyOrNone, Backup
<1>1. CASE LaunchRemove
  <2>1. SameNeeds
    BY <1>0, <1>1, SameEventsNeeds
       DEF LaunchRemove, backup_remove_transfer, Backup
  <2> QED BY <1>1, <2>1 DEF WakeInv, SameNeeds, LaunchRemove
<1>2. CASE LaunchAddTransferComplete
  BY <1>2 DEF WakeInv, LaunchAddTransferComplete
<1>3. CASE LaunchAddEvent
  <2>1. Adds("TRANSFER_COMPLETE", 0, TRUE)
    BY <1>0, <1>3, AddEventAdds DEF LaunchAddEvent
  <2>2. Backed'
    BY <2>1 DEF Adds, Retriable, IsRequest, Backed
  <2> QED BY <1>3, <2>2 DEF WakeInv, LaunchAddEvent
<1>4. CASE LaunchAddMEvent
  <2>1. MEvent[cur.kind] \in Code /\ MEvent[cur.kind] # "CONNECTION_REQUEST"
    BY <1>0 DEF MEvent, Kind, Code, MultipleCode
  <2>2. Adds(MEvent[cur.kind], method_id, TRUE)
    BY <1>0, <1>4, <2>1, AddEventAdds DEF LaunchAddMEvent
  <2>3. Backed'
    BY <2>1, <2>2 DEF Adds, Retriable, IsRequest, Backed
  <2> QED BY <1>4, <2>3 DEF WakeInv, LaunchAddMEvent
<1>5. ASSUME NEW status \in ApplyStatus, LaunchApply(status)
      PROVE  WakeInv'
  <2>1. CASE status = "exit"
    BY <1>5, <2>1 DEF WakeInv, LaunchApply, ProcessGone
  <2>2. CASE status # "exit"
    <3>1. SameNeeds
      BY <1>5, <2>2, SameEventsNeeds DEF LaunchApply
    <3> QED BY <1>5, <2>2, <3>1 DEF WakeInv, SameNeeds, LaunchApply
  <2> QED BY <2>1, <2>2
<1>6. CASE LaunchFault \/ LaunchComplete
  <2>1. backup.tcs # <<>> /\ backup'.tcs # <<>>
    <3>1. backup.tcs # <<>> /\ Len(backup.tcs) # 0
      BY <1>0, <1>6, EmptySeq DEF LaunchFault, LaunchComplete, TcPoint
    <3>2. Len(backup'.tcs) = Len(backup.tcs)
      BY <1>0, <1>6, <3>1, UpdateFaultType, UpdateCompleteTimeType
         DEF LaunchFault, LaunchComplete
    <3> QED BY <3>1, <3>2, EmptySeq
  <2>2. SameNeeds
    BY <1>6, <2>1, SameEventsNeeds DEF LaunchFault, LaunchComplete
  <2>3. /\ pc \in {"x_fault", "x_complete"}
        /\ pc' = "x_complete" \/ (pc' = "idle" /\ timers' # {})
    BY <1>6 DEF LaunchFault, LaunchComplete, cwmp_add_inform_timer
  <2> QED BY <2>2, <2>3 DEF WakeInv, SameNeeds
<1> QED BY <1>1, <1>2, <1>3, <1>4, <1>5, <1>6 DEF Transfer

\* cwmp_retry_session leaves a session on a timer, unless there was nothing but
\* a connection request to begin with.
LEMMA WakeRetry ==
  ASSUME TypeInv, NodeInv, WakeInv, cwmp_retry_session
  PROVE  WakeInv'
<1> USE DEF session, locals, queues, observed, Idling, Ending, BackedPoint
<1>0. /\ backup \in Backup /\ events \in Seq(Event) /\ retry_count \in Nat
      /\ RetryCap \in Nat \ {0} /\ Len(events) \in Nat
  BY BoundsAssumption, LenProperties DEF TypeInv, TypeOK
<1>1. pc' = "idle" /\ pc = "end_session" /\ ret = "end_error"
  BY DEF cwmp_retry_session
<1>2. CASE RetryWanted
  <2>0. /\ retry_count' = IF retry_count < RetryCap THEN retry_count + 1
                           ELSE retry_count
        /\ timers' = timers \cup {"retry"}
    BY <1>2, Zenon DEF cwmp_retry_session
  <2>1. timers' # {} /\ retry_count' # 0
    BY <1>0, <2>0
  <2> QED BY <1>1, <2>1 DEF WakeInv, Backed
<1>3. CASE ~RetryWanted
  <2>1. /\ UNCHANGED <<retry_count, timers, get_rpc_methods>> /\ retry_count = 0
        /\ NothingToRetry
    BY <1>3 DEF cwmp_retry_session, RetryWanted
  <2>2. \A e \in Listed : IsRequest(e)
    BY <2>1
       DEF NothingToRetry, remove_policy, Listed, Elements, IsRequest
  <2>3. Listed # {}
    <3>1. 1 \in 1..Len(events)
      BY <1>0, <2>1, EmptySeq DEF NothingToRetry
    <3> QED BY <3>1 DEF Listed, Elements
  <2>4. Backed
    BY <1>1, <2>2, <2>3 DEF WakeInv, NoRequest
  <2>5. ~Reporting
    BY <2>1, <2>2, <2>4 DEF Backed, Retriable
  <2>6. AnyRemovable("NO_RETRY", 0)
    <3>1. PICK i \in 1..Len(events) : IsRequest(events[i])
      BY <2>2, <2>3 DEF Listed, Elements
    <3>2. events[i].mid = 0
      BY <3>1 DEF NodeInv, Listed, Elements
    <3> QED BY <3>1, <3>2
            DEF AnyRemovable, Removable, remove_policy, IsRequest
  <2>7. PICK e \in Event : Removable(e, "NO_RETRY", 0) /\ Removes(e)
    BY <1>0, <2>6, RemoveEventRemoves DEF cwmp_retry_session
  <2>8. NoRequest'
    BY <2>2, <2>7, RemovesNeeds DEF NodeInv, Removes
  <2>9. Listed' = {}
    BY <2>2, <2>7, <2>8 DEF NoRequest, Removes, IsRequest
  <2>10. AlmostDelivered'
    BY <2>9 DEF AlmostDelivered, OnlyWaiting
  <2>11. ~Reporting'
    <3>1. backup'.tcs = backup.tcs
      BY <1>0, <2>6, RemoveEventType DEF cwmp_retry_session, SameTransfers
    <3> QED BY <2>1, <2>5, <3>1 DEF Reporting
  <2>12. Backed'
    BY <2>11 DEF Backed
  <2> QED BY <1>1, <2>1, <2>10, <2>11, <2>12 DEF WakeInv
<1> QED BY <1>2, <1>3

\* The steps of cwmp_inform preserve WakeInv.
LEMMA WakeSession == TypeInv /\ NodeInv /\ WakeInv /\ Session => WakeInv'
<1> SUFFICES ASSUME TypeInv, NodeInv, WakeInv, Session PROVE WakeInv'
  OBVIOUS
<1> USE DEF session, locals, queues, observed, Idling, Ending, BackedPoint
<1>0. backup \in Backup /\ events \in Seq(Event)
  BY DEF TypeInv, TypeOK
<1>1. CASE RemoveAfterInform
  BY <1>1 DEF WakeInv, RemoveAfterInform
<1>2. CASE ClearNotifications
  <2>1. SameNeeds
    BY <1>2, SameEventsNeeds DEF ClearNotifications
  <2>2. Delivered /\ NoRequest
    BY <1>2, AllRemoved DEF ClearNotifications
  <2> QED BY <1>2, <2>1, <2>2 DEF WakeInv, SameNeeds, ClearNotifications
<1>3. CASE backup_remove_transfer_complete
  <2>1. (NoRequest' <=> NoRequest) /\ (Delivered' <=> Delivered)
    BY <1>3
       DEF backup_remove_transfer_complete, NoRequest, Delivered, OnlyWaiting,
           Listed, IsRequest
  <2> QED BY <1>3, <2>1 DEF WakeInv, backup_remove_transfer_complete
<1>4. CASE RemoveAfterTransferComplete
  <2>1. PICK e \in Event :
          Removable(e, "AFTER_TRANSFER_COMPLETE", mid) /\ Removes(e)
    BY <1>0, <1>4, RemoveEventRemoves DEF RemoveAfterTransferComplete
  <2>2. (NoRequest => NoRequest') /\ (Delivered => Delivered')
    BY <2>1, RemovesNeeds
  <2> QED BY <1>4, <2>2 DEF WakeInv, RemoveAfterTransferComplete
<1>5. CASE RemoveMidDone \/ HandleMessages \/ EndReload \/ EndPlain
  <2>1. SameNeeds
    BY <1>5, SameEventsNeeds DEF RemoveMidDone, HandleMessages, EndReload, EndPlain
  <2> QED BY <1>5, <2>1
          DEF WakeInv, SameNeeds, RemoveMidDone, HandleMessages, EndReload,
              EndPlain
<1>6. CASE EndFactoryReset \/ EndReboot
  BY <1>6 DEF WakeInv, EndFactoryReset, EndReboot, ProcessGone
<1>7. CASE SessionSuccess
  <2>1. ~Reporting /\ (timers # {} \/ Delivered)
    BY <1>7 DEF WakeInv, SessionSuccess
  <2>2. ~Reporting' /\ Listed' = Listed /\ timers' = timers /\ retry_count' = 0
    BY <1>7, <2>1 DEF SessionSuccess, Reporting, Listed
  <2>3. Delivered => AlmostDelivered'
    BY <2>2 DEF Delivered, AlmostDelivered, OnlyWaiting
  <2>4. Backed'
    BY <2>2 DEF Backed
  <2> QED BY <1>7, <2>1, <2>2, <2>3, <2>4 DEF WakeInv, SessionSuccess
<1>8. CASE cwmp_retry_session
  BY <1>8, WakeRetry
<1> QED BY <1>1, <1>2, <1>3, <1>4, <1>5, <1>6, <1>7, <1>8 DEF Session

\* So do answers and requests of the ACS, failures and power cuts.
LEMMA WakeAcs ==
  TypeInv /\ NodeInv /\ WakeInv
    /\ (AcsAnswers \/ EmptyMessage \/ AcsRequests \/ Failures) => WakeInv'
<1> SUFFICES ASSUME TypeInv, NodeInv, WakeInv,
                    AcsAnswers \/ EmptyMessage \/ AcsRequests \/ Failures
             PROVE  WakeInv'
  OBVIOUS
<1> USE DEF session, locals, queues, observed, Idling, Ending, BackedPoint
<1>0. backup \in Backup
  BY DEF TypeInv, TypeOK
<1>1. ASSUME NEW hold \in BOOLEAN, InformAnswered(hold)
      PROVE  WakeInv'
  BY <1>1 DEF WakeInv, InformAnswered
<1>2. ASSUME NEW hold \in BOOLEAN,
             TransferCompleteAnswered(hold) \/ GetRpcMethodsAnswered(hold)
      PROVE  WakeInv'
  <2>1. (NoRequest' <=> NoRequest) /\ (Delivered' <=> Delivered)
    BY <1>2
       DEF TransferCompleteAnswered, GetRpcMethodsAnswered, NoRequest,
           Delivered, OnlyWaiting, Listed, IsRequest
  <2> QED BY <1>2, <2>1
          DEF WakeInv, TransferCompleteAnswered, GetRpcMethodsAnswered,
              SendsTransferComplete, SendsGetRpcMethods
<1>3. CASE EmptyMessage
  <2>1. SameNeeds
    BY <1>3, SameEventsNeeds DEF EmptyMessage
  <2> QED BY <1>3, <2>1 DEF WakeInv, SameNeeds, EmptyMessage, Reporting
<1>4. ASSUME NEW k \in Keys,
             \/ \E r \in Requests : HandleTransfer(r, k)
             \/ HandleReboot(k) \/ HandleScheduleInform(k)
      PROVE  WakeInv'
  <2>1. backup'.tcs = backup.tcs
    BY <1>0, <1>4
       DEF HandleTransfer, HandleReboot, HandleScheduleInform,
           backup_add_transfer, backup_add_event, Backup
  <2>2. SameNeeds
    BY <1>4, <2>1, SameEventsNeeds
       DEF HandleTransfer, HandleReboot, HandleScheduleInform
  <2> QED BY <1>4, <2>2
          DEF WakeInv, SameNeeds, HandleTransfer, HandleReboot,
              HandleScheduleInform
<1>5. CASE HandleFactoryReset \/ \E url \in Urls : HandleSetUrl(url)
  <2>1. SameNeeds
    BY <1>5, SameEventsNeeds DEF HandleFactoryReset, HandleSetUrl
  <2> QED BY <1>5, <2>1 DEF WakeInv, SameNeeds, HandleFactoryReset, HandleSetUrl
<1>6. CASE ExchangeFails \/ Fault8005
  <2>1. SameNeeds
    BY <1>6, SameEventsNeeds DEF ExchangeFails, Fault8005
  <2> QED BY <1>6, <2>1
          DEF WakeInv, SameNeeds, ExchangeFails, Fault8005, Exchanging,
              SendsTransferComplete, SendsGetRpcMethods
<1>7. CASE ConfigLoadFails \/ Crash \/ CrashInSave
  BY <1>7 DEF WakeInv, ConfigLoadFails, Crash, CrashInSave, ProcessGone
<1> QED BY <1>1, <1>2, <1>3, <1>4, <1>5, <1>6, <1>7
        DEF AcsAnswers, AcsRequests, Failures

\* WakeInv holds in every reachable state.
LEMMA WakeInvariance == Spec => []WakeInv
<1>1. Init => WakeInv
  BY DEF Init, WakeInv, Idling, Ending, BackedPoint
<1>2. TypeInv /\ NodeInv /\ WakeInv /\ [Next]_vars => WakeInv'
  <2> SUFFICES ASSUME TypeInv, NodeInv, WakeInv, [Next]_vars PROVE WakeInv'
    OBVIOUS
  <2>1. CASE Next
    BY <2>1, WakeStartup, WakeCallbacks, WakeTransfer, WakeSession, WakeAcs
       DEF Next
  <2>2. CASE UNCHANGED vars
    <3>1. /\ SameNeeds
          /\ UNCHANGED <<pc, ret, timers>>
      BY <2>2, SameEventsNeeds DEF vars, session
    <3> QED BY <3>1 DEF WakeInv, SameNeeds, Idling, Ending
  <2> QED BY <2>1, <2>2
<1> QED BY <1>1, <1>2, LedgerInvariance, NewsInvariance, PTL DEF Spec, FullInv

\* cwmp_add_inform_timer and cwmp_retry_session: whenever the daemon sits in
\* the uloop with something that only a session can tell the ACS, a session is
\* on a timer, whatever failed before.
THEOREM WakeupsArePending == Spec => []WakeupPending
<1>1. WakeInv => WakeupPending
  <2> SUFFICES ASSUME WakeInv, pc = "idle", timers = {}
               PROVE  /\ backup.tcs = <<>> /\ ~get_rpc_methods /\ retry_count = 0
                      /\ AlmostDelivered
    BY DEF WakeupPending, AlmostDelivered, OnlyWaiting, Listed, Elements
  <2>1. ~Reporting /\ retry_count = 0 /\ AlmostDelivered
    BY DEF WakeInv, Idling
  <2> QED BY <2>1 DEF Reporting
<1> QED BY <1>1, WakeInvariance, PTL

----------------------------------------------------------------------------
\* The events of transfers.

\* The "M Download" and "M Upload" entries of a list, and that no command key
\* has two of them.
MOf(s) == {x \in Elements(s) : IsM(x)}
ByKey(s) ==
  \A i, j \in 1..Len(s) : IsM(s[i]) /\ IsM(s[j]) /\ s[i].key = s[j].key => i = j

MListed == MOf(events)
MFiled == MOf(backup.evs)

\* Each entry is tied to the node of its key by backup_node, and each node has
\* its entry once backup_load_event has come to it.
TwinInv ==
  /\ ByKey(backup.evs) /\ ByKey(events)
  /\ \A e \in MListed : /\ e.node \in MFiled
                        /\ e.node.key = e.key /\ e.node.mid = e.mid
  /\ pc = "down" => events = <<>> /\ loaded = 0
  /\ pc = "load_event" =>
       /\ \A i \in 1..Len(backup.evs) : i <= loaded /\ IsM(backup.evs[i]) =>
            \E e \in MListed : e.node = backup.evs[i]
       /\ \A e \in MListed : \E i \in 1..Len(backup.evs) :
            i <= loaded /\ e.node = backup.evs[i]
  /\ pc \notin {"down", "load_event"} =>
       \A n \in MFiled : \E e \in MListed : e.node = n

\* A transfer's node comes with its TransferComplete, shares its method_id and
\* goes right after it.
OrphanInv ==
  /\ \A n \in MFiled :
       /\ n.key \in TcKeys \cup AckedKeys /\ n.mid # 0
       /\ pc \in {"x_remove", "x_tc", "x_event", "x_m_event"} => n.key # cur.key
       /\ \A i \in 1..Len(backup.tcs) :
            backup.tcs[i].key = n.key => backup.tcs[i].mid = n.mid
       /\ pc \in {"tc_remove", "rm_mid"} /\ n.key = cur.key => n.mid = mid
       /\ \/ n.key \in TcKeys
          \/ pc = "rm_mid" /\ cur.key = n.key
          \/ <<"rm_mid", n.key>> \in cut
  /\ pc \in {"x_event", "x_m_event"} =>
       backup.tcs[Len(backup.tcs)].mid = method_id /\ method_id # 0

\* Taking an element out of a list takes its key out.
LEMMA WithoutKeyed ==
  ASSUME NEW s, NEW i, NEW t, Without(s, i, t), ByKey(s)
  PROVE  /\ ByKey(t)
         /\ ~IsM(s[i]) => MOf(t) = MOf(s)
         /\ IsM(s[i]) => MOf(t) = {x \in MOf(s) : x.key # s[i].key}
<1>1. Len(s) \in Nat /\ i \in 1..Len(s) /\ Len(t) = Len(s) - 1
  BY DEF Without
<1> DEFINE at(j) == IF j < i THEN j ELSE j + 1
<1>2. ASSUME NEW j \in 1..Len(t)
      PROVE  at(j) \in 1..Len(s) /\ at(j) # i /\ t[j] = s[at(j)]
  BY <1>1 DEF Without
<1>3. ASSUME NEW j \in 1..Len(t), NEW k \in 1..Len(t), at(j) = at(k)
      PROVE  j = k
  BY <1>1, <1>3
<1> HIDE DEF at
<1>4. ASSUME NEW j \in 1..Len(t), NEW k \in 1..Len(t),
             IsM(t[j]), IsM(t[k]), t[j].key = t[k].key
      PROVE  j = k
  <2>1. at(j) = at(k)
    BY <1>2, <1>4 DEF ByKey
  <2> QED BY <1>3, <2>1
<1>5. ASSUME NEW j \in 1..Len(t), IsM(t[j]), IsM(s[i])
      PROVE  t[j].key # s[i].key
  BY <1>1, <1>2, <1>5 DEF ByKey
<1>6. /\ Elements(t) \subseteq Elements(s)
      /\ Elements(s) \subseteq Elements(t) \cup {s[i]}
  BY WithoutElements
<1>7. ByKey(t)
  BY <1>4 DEF ByKey
<1>8. ~IsM(s[i]) => MOf(t) = MOf(s)
  BY <1>6 DEF MOf
<1>9. ASSUME IsM(s[i])
      PROVE  MOf(t) = {x \in MOf(s) : x.key # s[i].key}
  <2>1. ASSUME NEW x \in MOf(t)
        PROVE  x \in MOf(s) /\ x.key # s[i].key
    <3>1. PICK j \in 1..Len(t) : x = t[j]
      BY DEF MOf, Elements
    <3> QED BY <1>5, <1>6, <1>9, <3>1 DEF MOf
  <2>2. ASSUME NEW x \in MOf(s), x.key # s[i].key
        PROVE  x \in MOf(t)
    BY <1>6, <2>2 DEF MOf
  <2> QED BY <2>1, <2>2
<1> QED BY <1>7, <1>8, <1>9

\* An entry with a new key, or of another code, keeps the keys single.
LEMMA WithKeyed ==
  ASSUME NEW s, NEW e, NEW t, With(s, e, t), ByKey(s),
         IsM(e) => \A x \in MOf(s) : x.key # e.key
  PROVE  /\ ByKey(t)
         /\ ~IsM(e) => MOf(t) = MOf(s)
         /\ IsM(e) => MOf(t) = MOf(s) \cup {e}
<1>1. Len(s) \in Nat /\ Len(t) = Len(s) + 1 /\ t[Len(s) + 1] = e
  BY DEF With
<1>2. ASSUME NEW i \in 1..Len(t), i # Len(s) + 1
      PROVE  i \in 1..Len(s) /\ t[i] = s[i]
  BY <1>1, <1>2 DEF With
<1>3. ASSUME NEW i \in 1..Len(s), IsM(s[i]), IsM(e)
      PROVE  s[i].key # e.key
  BY <1>3 DEF MOf, Elements
<1>4. ASSUME NEW i \in 1..Len(t), NEW j \in 1..Len(t),
             IsM(t[i]), IsM(t[j]), t[i].key = t[j].key
      PROVE  i = j
  <2>1. CASE i = Len(s) + 1 /\ j = Len(s) + 1
    BY <2>1
  <2>2. CASE i # Len(s) + 1 /\ j = Len(s) + 1
    BY <1>1, <1>2, <1>3, <1>4, <2>2
  <2>3. CASE i = Len(s) + 1 /\ j # Len(s) + 1
    BY <1>1, <1>2, <1>3, <1>4, <2>3
  <2>4. CASE i # Len(s) + 1 /\ j # Len(s) + 1
    BY <1>2, <1>4, <2>4 DEF ByKey
  <2> QED BY <2>1, <2>2, <2>3, <2>4
<1>5. Elements(t) = Elements(s) \cup {e}
  BY WithElements
<1>6. ByKey(t)
  BY <1>4 DEF ByKey
<1> QED BY <1>5, <1>6 DEF MOf

\* Entries and nodes of the keys K, and no others, are gone.
Unpairs(K) ==
  /\ MListed' = {e \in MListed : e.key \notin K}
  /\ MFiled' = {n \in MFiled : n.key \notin K}
  /\ ByKey(events') /\ ByKey(backup'.evs)

\* Nothing is gone when list and nodes stay.
LEMMA KeepsUnpairs ==
  ASSUME TwinInv, UNCHANGED events, backup'.evs = backup.evs
  PROVE  Unpairs({})
BY DEF TwinInv, Unpairs, MListed, MFiled

\* Or when an event of another code is added.
LEMMA AddEventUnpairs ==
  ASSUME NEW code \in Code \ {"M_DOWNLOAD", "M_UPLOAD"}, NEW key \in KeyOrNone,
         NEW m \in Nat, NEW save \in BOOLEAN, backup \in Backup,
         events \in Seq(Event), cwmp_add_event(code, key, m, save), TwinInv
  PROVE  Unpairs({})
<1>1. CASE UNCHANGED <<events, backup>>
  BY <1>1, KeepsUnpairs
<1>2. ASSUME NEW e \in Event, e.code = code,
             e.node = IF save THEN [code |-> code, key |-> key, mid |-> m]
                              ELSE NoNode,
             With(events, e, events'),
             IF save THEN With(backup.evs, e.node, backup'.evs)
                     ELSE backup' = backup
      PROVE  Unpairs({})
  <2>1. ~IsM(e) /\ (save => ~IsM(e.node))
    BY <1>2 DEF IsM
  <2>2. MListed' = MListed /\ ByKey(events')
    BY <1>2, <2>1, WithKeyed DEF TwinInv, MListed
  <2>3. MFiled' = MFiled /\ ByKey(backup'.evs)
    <3>1. CASE save
      BY <1>2, <2>1, <3>1, WithKeyed DEF TwinInv, MFiled
    <3>2. CASE ~save
      BY <1>2, <3>2 DEF TwinInv, MFiled
    <3> QED BY <3>1, <3>2
  <2> QED BY <2>2, <2>3 DEF Unpairs
<1> QED BY <1>1, <1>2, AddEventCases

\* One turn of cwmp_remove_event takes an entry out together with its node.
LEMMA RemoveEventUnpairs ==
  ASSUME NEW policy, NEW m, backup \in Backup, events \in Seq(Event),
         AnyRemovable(policy, m), RemoveOneEvent(policy, m), NodeInv, TwinInv
  PROVE  \E K : Unpairs(K)
<1>1. PICK i \in 1..Len(events) :
           /\ Removable(events[i], policy, m)
           /\ Without(events, i, events')
           /\ backup'.evs = RemoveFirst(backup.evs, events[i].node)
  BY RemoveEventCases
<1> DEFINE e == events[i]
<1>2. e \in Listed
  BY DEF Listed, Elements
<1>3. /\ ByKey(events')
      /\ ~IsM(e) => MListed' = MListed
      /\ IsM(e) => MListed' = {x \in MListed : x.key # e.key}
  BY <1>1, WithoutKeyed DEF TwinInv, MListed
<1>4. backup.evs \in Seq(Node)
  BY DEF Backup
<1> HIDE DEF e
<1>5. \/ e.node \notin Filed /\ backup'.evs = backup.evs
      \/ \E j \in 1..Len(backup.evs) :
           backup.evs[j] = e.node /\ Without(backup.evs, j, backup'.evs)
  BY <1>1, <1>4, RemoveFirstElements DEF e, Filed
<1>6. CASE IsM(e)
  <2>1. e \in MListed
    BY <1>2, <1>6 DEF MListed, MOf, Listed
  <2>2. e.node \in Filed /\ IsM(e.node) /\ e.node.key = e.key
    BY <2>1 DEF TwinInv, MFiled, MOf, Filed
  <2>3. PICK j \in 1..Len(backup.evs) :
          backup.evs[j] = e.node /\ Without(backup.evs, j, backup'.evs)
    BY <1>5, <2>2
  <2>4. ByKey(backup'.evs) /\ MFiled' = {n \in MFiled : n.key # e.key}
    BY <2>2, <2>3, WithoutKeyed DEF TwinInv, MFiled
  <2>5. Unpairs({e.key})
    BY <1>3, <1>6, <2>4 DEF Unpairs
  <2> QED BY <2>5
<1>7. CASE ~IsM(e)
  <2>1. ~IsM(e.node)
    BY <1>2, <1>7 DEF NodeInv, NoNode, IsM
  <2>2. ASSUME backup'.evs = backup.evs
        PROVE  Unpairs({})
    BY <1>3, <1>7, <2>2 DEF Unpairs, TwinInv, MFiled
  <2>3. ASSUME NEW j \in 1..Len(backup.evs), backup.evs[j] = e.node,
               Without(backup.evs, j, backup'.evs)
        PROVE  Unpairs({})
    <3>1. ByKey(backup'.evs) /\ MFiled' = MFiled
      BY <2>1, <2>3, WithoutKeyed DEF TwinInv, MFiled
    <3> QED BY <1>3, <1>7, <3>1 DEF Unpairs
  <2>4. Unpairs({})
    BY <1>5, <2>2, <2>3
  <2> QED BY <2>4
<1> QED BY <1>6, <1>7

\* A step that takes out entries with their nodes, changes no key and no
\* method_id of a TransferComplete, and neither starts nor ends a piece of work
\* on one.
PairStep ==
  /\ pc \notin {"down", "load_event"} /\ pc' \notin {"down", "load_event"}
  /\ \E K : Unpairs(K)
  /\ Len(backup'.tcs) = Len(backup.tcs)
  /\ \A i \in 1..Len(backup.tcs) : /\ backup'.tcs[i].key = backup.tcs[i].key
                                   /\ backup'.tcs[i].mid = backup.tcs[i].mid
  /\ UNCHANGED <<acked, cut>>
  /\ pc = "rm_mid" => pc' = "rm_mid"
  /\ pc' \in {"tc_remove", "rm_mid"} => pc = pc' /\ UNCHANGED <<cur, mid>>
  /\ pc' \in {"x_remove", "x_tc", "x_event", "x_m_event"} =>
       /\ pc \in {"x_remove", "x_tc", "x_event", "x_m_event"}
       /\ UNCHANGED cur
  /\ pc' \in {"x_event", "x_m_event"} =>
       pc \in {"x_event", "x_m_event"} /\ UNCHANGED method_id

\* The process ends or its lists are cleared; the file is kept or lost.
WipeStep ==
  /\ events' = <<>>
  /\ \/ pc' = "down" /\ loaded' = 0
     \/ pc' = "bootstrap" /\ backup'.evs = <<>>
  /\ \/ backup'.evs = <<>>
     \/ /\ UNCHANGED <<backup, acked>> /\ cut \subseteq cut'
        /\ pc = "rm_mid" => <<"rm_mid", cur.key>> \in cut'

PairSteps ==
  \/ PairStep \/ WipeStep \/ BackupInit \/ LoadEvent \/ BackupInitDone
  \/ \E t \in transfers, fault \in BOOLEAN : Launch(t, fault)
  \/ LaunchAddTransferComplete \/ LaunchAddMEvent
  \/ \E hold \in BOOLEAN : TransferCompleteAnswered(hold)
  \/ backup_remove_transfer_complete \/ RemoveMidDone

\* Every step is of those kinds.
LEMMA NextPairs == TypeInv /\ NodeInv /\ TwinInv /\ Next => PairSteps
<1> SUFFICES ASSUME TypeInv, NodeInv, TwinInv, Next PROVE PairSteps
  OBVIOUS
<1> USE DEF session, locals, queues, observed
<1>0. /\ cur.key \in KeyOrNone /\ NoKey \in KeyOrNone /\ method_id \in Nat
      /\ backup \in Backup /\ events \in Seq(Event)
      /\ {"BOOTSTRAP", "BOOT", "PERIODIC", "SCHEDULED", "VALUE_CHANGE",
          "TRANSFER_COMPLETE", "M_SCHEDULEINFORM"}
            \subseteq Code \ {"M_DOWNLOAD", "M_UPLOAD"}
      /\ UbusCode \subseteq Code \ {"M_DOWNLOAD", "M_UPLOAD"}
      /\ pc \in TcPoint => backup.tcs # <<>>
  BY DEF Code, UbusCode, SingleCode, MultipleCode, KeyOrNone, TypeInv, TypeOK,
         CurInv
<1>1. CASE Startup
  <2>1. CASE ConfigLoadSame
    BY <2>1, KeepsUnpairs DEF PairSteps, PairStep, ConfigLoadSame, Return
  <2>2. CASE BackupAddAcsUrl
    BY <2>2
       DEF PairSteps, WipeStep, BackupAddAcsUrl, backup_add_acsurl, NoBackup
  <2>3. CASE AddBootstrap \/ StartBoot \/ StartGetRpcMethod
    <3>1. Unpairs({}) /\ backup'.tcs = backup.tcs
      BY <1>0, <2>3, AddEventUnpairs, AddEventType
         DEF AddBootstrap, StartBoot, StartGetRpcMethod, SameTransfers
    <3> QED BY <2>3, <3>1
            DEF PairSteps, PairStep, AddBootstrap, StartBoot,
                StartGetRpcMethod, Return
  <2> QED BY <1>1, <2>1, <2>2, <2>3 DEF Startup, PairSteps
<1>2. CASE Callbacks
  <2>1. ASSUME \/ \E t \in timers : cwmp_do_inform(t)
               \/ \E url \in Urls : Reload(url)
               \/ \E t \in transfers : LaunchFails(t)
        PROVE  PairStep
    <3>1. Unpairs({})
      BY <2>1, KeepsUnpairs DEF cwmp_do_inform, Reload, LaunchFails
    <3> QED BY <2>1, <3>1 DEF PairStep, cwmp_do_inform, Reload, LaunchFails
  <2>2. ASSUME \/ \E k \in scheduled : ScheduledInform(k)
               \/ ScheduledInformDone
               \/ \E code \in InformCodes : cwmp_connection_request(code)
               \/ \E active \in BOOLEAN : Notify(active)
               \/ cwmp_periodic_inform
        PROVE  PairStep
    <3>1. Unpairs({}) /\ backup'.tcs = backup.tcs
      BY <1>0, <2>2, AddEventUnpairs, AddEventType, StimuliAssumption
         DEF ScheduledInform, ScheduledInformDone, cwmp_connection_request,
             Notify, cwmp_periodic_inform, SameTransfers
    <3> QED BY <2>2, <3>1
            DEF PairStep, ScheduledInform, ScheduledInformDone,
                cwmp_connection_request, Notify, cwmp_periodic_inform
  <2> QED BY <1>2, <2>1, <2>2 DEF Callbacks, PairSteps
<1>3. CASE Transfer
  <2>1. CASE LaunchRemove
    <3>1. backup'.evs = backup.evs /\ backup'.tcs = backup.tcs
      BY <1>0, <2>1 DEF LaunchRemove, backup_remove_transfer, Backup
    <3>2. Unpairs({})
      BY <2>1, <3>1, KeepsUnpairs DEF LaunchRemove
    <3> QED BY <2>1, <3>1, <3>2 DEF PairSteps, PairStep, LaunchRemove
  <2>2. CASE LaunchAddEvent
    <3>1. Unpairs({}) /\ backup'.tcs = backup.tcs
      BY <1>0, <2>2, AddEventUnpairs, AddEventType
         DEF LaunchAddEvent, SameTransfers
    <3> QED BY <2>2, <3>1 DEF PairSteps, PairStep, LaunchAddEvent
  <2>3. ASSUME NEW status \in ApplyStatus, LaunchApply(status)
        PROVE  PairSteps
    <3>1. CASE status = "exit"
      BY <2>3, <3>1 DEF PairSteps, WipeStep, LaunchApply, ProcessGone
    <3>2. CASE status # "exit"
      <4>1. Unpairs({})
        BY <2>3, <3>2, KeepsUnpairs DEF LaunchApply
      <4> QED BY <2>3, <3>2, <4>1 DEF PairSteps, PairStep, LaunchApply
    <3> QED BY <3>1, <3>2
  <2>4. CASE LaunchFault
    <3>1. backup'.evs = backup.evs
      BY <1>0, <2>4 DEF LaunchFault, backup_update_fault, Backup
    <3>2. /\ Len(backup'.tcs) = Len(backup.tcs)
          /\ \A i \in 1..Len(backup.tcs) :
               /\ backup'.tcs[i].key = backup.tcs[i].key
               /\ backup'.tcs[i].mid = backup.tcs[i].mid
      BY <1>0, <2>4, UpdateFaultType, UpdateFaultRecords
         DEF LaunchFault, TcPoint
    <3>3. Unpairs({})
      BY <2>4, <3>1, KeepsUnpairs DEF LaunchFault
    <3> QED BY <2>4, <3>2, <3>3 DEF PairSteps, PairStep, LaunchFault
  <2>5. CASE LaunchComplete
    <3>1. backup'.evs = backup.evs
      BY <1>0, <2>5 DEF LaunchComplete, backup_update_complete_time, Backup
    <3>2. /\ Len(backup'.tcs) = Len(backup.tcs)
          /\ \A i \in 1..Len(backup.tcs) :
               /\ backup'.tcs[i].key = backup.tcs[i].key
               /\ backup'.tcs[i].mid = backup.tcs[i].mid
      BY <1>0, <2>5, UpdateCompleteTimeType, UpdateCompleteTimeRecords
         DEF LaunchComplete, TcPoint
    <3>3. Unpairs({})
      BY <2>5, <3>1, KeepsUnpairs DEF LaunchComplete
    <3> QED BY <2>5, <3>2, <3>3 DEF PairSteps, PairStep, LaunchComplete
  <2> QED BY <1>3, <2>1, <2>2, <2>3, <2>4, <2>5 DEF Transfer, PairSteps
<1>4. CASE Session
  <2>1. CASE RemoveAfterInform \/ RemoveAfterTransferComplete
    <3>1. (\E K : Unpairs(K)) /\ backup'.tcs = backup.tcs
      BY <1>0, <2>1, RemoveEventUnpairs, RemoveEventType
         DEF RemoveAfterInform, RemoveAfterTransferComplete, SameTransfers
    <3> QED BY <2>1, <3>1
            DEF PairSteps, PairStep, RemoveAfterInform,
                RemoveAfterTransferComplete
  <2>2. CASE \/ ClearNotifications \/ HandleMessages \/ EndReload \/ EndPlain
             \/ SessionSuccess
    <3>1. Unpairs({})
      BY <2>2, KeepsUnpairs
         DEF ClearNotifications, HandleMessages, EndReload, EndPlain,
             SessionSuccess
    <3> QED BY <2>2, <3>1
            DEF PairSteps, PairStep, ClearNotifications, HandleMessages,
                EndReload, EndPlain, SessionSuccess
  <2>3. CASE EndFactoryReset \/ EndReboot
    BY <2>3
       DEF PairSteps, WipeStep, EndFactoryReset, EndReboot, ProcessGone,
           NoBackup
  <2>4. CASE cwmp_retry_session
    <3>1. (\E K : Unpairs(K)) /\ backup'.tcs = backup.tcs
      <4>1. CASE AnyRemovable("NO_RETRY", 0)
        BY <1>0, <2>4, <4>1, RemoveEventUnpairs, RemoveEventType
           DEF cwmp_retry_session, SameTransfers
      <4>2. CASE ~AnyRemovable("NO_RETRY", 0)
        BY <2>4, <4>2, KeepsUnpairs DEF cwmp_retry_session
      <4> QED BY <4>1, <4>2
    <3> QED BY <2>4, <3>1 DEF PairSteps, PairStep, cwmp_retry_session
  <2> QED BY <1>4, <2>1, <2>2, <2>3, <2>4 DEF Session, PairSteps
<1>5. CASE AcsAnswers \/ EmptyMessage
  <2>1. ASSUME NEW hold \in BOOLEAN,
               InformAnswered(hold) \/ GetRpcMethodsAnswered(hold)
        PROVE  PairStep
    <3>1. Unpairs({})
      BY <2>1, KeepsUnpairs DEF InformAnswered, GetRpcMethodsAnswered
    <3> QED BY <2>1, <3>1
            DEF PairStep, InformAnswered, GetRpcMethodsAnswered,
                SendsGetRpcMethods
  <2>2. CASE EmptyMessage
    <3>1. Unpairs({})
      BY <2>2, KeepsUnpairs DEF EmptyMessage
    <3> QED BY <2>2, <3>1 DEF PairSteps, PairStep, EmptyMessage
  <2> QED BY <1>5, <2>1, <2>2 DEF AcsAnswers, PairSteps
<1>6. CASE AcsRequests
  <2>1. ASSUME \/ HandleFactoryReset
               \/ \E url \in Urls : HandleSetUrl(url)
               \/ \E k \in Keys : HandleScheduleInform(k)
               \/ \E k \in Keys, r \in Requests : HandleTransfer(r, k)
        PROVE  PairStep
    <3>1. backup'.evs = backup.evs /\ backup'.tcs = backup.tcs
      BY <1>0, <2>1
         DEF HandleFactoryReset, HandleSetUrl, HandleScheduleInform,
             HandleTransfer, backup_add_transfer, Backup
    <3>2. Unpairs({})
      BY <2>1, <3>1, KeepsUnpairs
         DEF HandleFactoryReset, HandleSetUrl, HandleScheduleInform,
             HandleTransfer
    <3> QED BY <2>1, <3>1, <3>2
            DEF PairStep, HandleFactoryReset, HandleSetUrl,
                HandleScheduleInform, HandleTransfer
  <2>2. ASSUME NEW k \in Keys, HandleReboot(k)
        PROVE  PairStep
    <3> DEFINE n == [code |-> "M_REBOOT", key |-> k, mid |-> 0]
    <3>1. n \in Node /\ ~IsM(n)
      BY DEF Node, Code, MultipleCode, IsM
    <3>2. /\ backup'.evs = Append(backup.evs, n) /\ backup'.tcs = backup.tcs
          /\ backup.evs \in Seq(Node) /\ UNCHANGED events
      BY <1>0, <2>2 DEF HandleReboot, backup_add_event, Backup
    <3> HIDE DEF n
    <3>3. With(backup.evs, n, backup'.evs)
      BY <3>1, <3>2, AppendWith
    <3>4. Unpairs({})
      BY <3>1, <3>2, <3>3, WithKeyed DEF Unpairs, TwinInv, MListed, MFiled
    <3> QED BY <2>2, <3>2, <3>4 DEF PairStep, HandleReboot
  <2> QED BY <1>6, <2>1, <2>2 DEF AcsRequests, PairSteps
<1>7. CASE Failures
  <2>1. CASE ExchangeFails \/ Fault8005
    <3>1. Unpairs({})
      BY <2>1, KeepsUnpairs DEF ExchangeFails, Fault8005
    <3> QED BY <2>1, <3>1
            DEF PairSteps, PairStep, ExchangeFails, Fault8005, Exchanging,
                SendsTransferComplete, SendsGetRpcMethods
  <2>2. CASE ConfigLoadFails \/ Crash \/ CrashInSave
    BY <2>2
       DEF PairSteps, WipeStep, ConfigLoadFails, Crash, CrashInSave,
           ProcessGone, CutPoint, NoBackup
  <2> QED BY <1>7, <2>1, <2>2 DEF Failures
<1> QED BY <1>1, <1>2, <1>3, <1>4, <1>5, <1>6, <1>7 DEF Next

\* Pairs that go together leave twins and reports in step.
LEMMA PairPreserves ==
  ASSUME TypeInv, TwinInv, OrphanInv, PairStep
  PROVE  TwinInv' /\ OrphanInv'
<1>1. PICK K : Unpairs(K)
  BY DEF PairStep
<1>2. TcKeys' = TcKeys /\ AckedKeys' = AckedKeys
  BY DEF PairStep, TcKeys, TcKeysOf, AckedKeys
<1>3. TwinInv'
  <2>1. /\ ByKey(events)' /\ ByKey(backup.evs)'
        /\ pc' \notin {"down", "load_event"} /\ pc \notin {"down", "load_event"}
    BY <1>1 DEF Unpairs, PairStep
  <2>2. ASSUME NEW e \in MListed'
        PROVE  e.node \in MFiled' /\ e.node.key = e.key /\ e.node.mid = e.mid
    BY <1>1, <2>2 DEF Unpairs, TwinInv
  <2>3. ASSUME NEW n \in MFiled'
        PROVE  \E e \in MListed' : e.node = n
    <3>1. n \in MFiled /\ n.key \notin K
      BY <1>1, <2>3 DEF Unpairs
    <3>2. PICK e \in MListed : e.node = n
      BY <2>1, <3>1 DEF TwinInv
    <3>3. e.key = n.key
      BY <3>2 DEF TwinInv
    <3> QED BY <1>1, <3>1, <3>2, <3>3 DEF Unpairs
  <2> QED BY <2>1, <2>2, <2>3 DEF TwinInv
<1>4. ASSUME NEW n \in MFiled'
      PROVE  /\ n.key \in TcKeys' \cup AckedKeys' /\ n.mid # 0
             /\ pc' \in {"x_remove", "x_tc", "x_event", "x_m_event"}
                  => n.key # cur'.key
             /\ \A i \in 1..Len(backup'.tcs) :
                  backup'.tcs[i].key = n.key => backup'.tcs[i].mid = n.mid
             /\ pc' \in {"tc_remove", "rm_mid"} /\ n.key = cur'.key
                  => n.mid = mid'
             /\ \/ n.key \in TcKeys'
                \/ pc' = "rm_mid" /\ cur'.key = n.key
                \/ <<"rm_mid", n.key>> \in cut'
  <2>1. n \in MFiled
    BY <1>1, <1>4 DEF Unpairs
  <2> QED BY <1>2, <2>1 DEF OrphanInv, PairStep
<1>5. ASSUME pc' \in {"x_event", "x_m_event"}
      PROVE  backup'.tcs[Len(backup'.tcs)].mid = method_id' /\ method_id' # 0
  <2>1. pc \in {"x_event", "x_m_event"} /\ method_id' = method_id
    BY <1>5 DEF PairStep
  <2>2. backup.tcs # <<>> /\ backup.tcs \in Seq(TransferComplete)
    BY <2>1 DEF TypeInv, TypeOK, CurInv, TcPoint, Backup
  <2>3. Len(backup.tcs) \in 1..Len(backup.tcs)
    BY <2>2, EmptySeq
  <2> QED BY <2>1, <2>3 DEF OrphanInv, PairStep
<1>6. OrphanInv'
  BY <1>4, <1>5 DEF OrphanInv
<1> QED BY <1>3, <1>6

\* So do the end of the process and the loss of the file.
LEMMA WipePreserves ==
  ASSUME TypeInv, TwinInv, OrphanInv, WipeStep
  PROVE  TwinInv' /\ OrphanInv'
<1>1. events' = <<>> /\ Len(events') = 0 /\ MListed' = {} /\ ByKey(events')
  BY EmptySeq DEF WipeStep, MListed, MOf, ByKey, Elements
<1>2. CASE backup'.evs = <<>>
  <2>1. MFiled' = {} /\ ByKey(backup'.evs)
    BY <1>2, EmptySeq DEF MFiled, MOf, ByKey, Elements
  <2>2. pc' \in {"down", "bootstrap"} /\ (pc' = "down" => loaded' = 0)
    BY DEF WipeStep
  <2>3. TwinInv'
    BY <1>1, <2>1, <2>2 DEF TwinInv
  <2>4. OrphanInv'
    BY <2>1, <2>2 DEF OrphanInv
  <2> QED BY <2>3, <2>4
<1>3. CASE backup'.evs # <<>>
  <2>1. /\ pc' = "down" /\ loaded' = 0 /\ UNCHANGED <<backup, acked>>
        /\ cut \subseteq cut'
        /\ pc = "rm_mid" => <<"rm_mid", cur.key>> \in cut'
    BY <1>3 DEF WipeStep
  <2>2. MFiled' = MFiled /\ ByKey(backup'.evs)
    BY <2>1 DEF MFiled, TwinInv
  <2>3. TcKeys' = TcKeys /\ AckedKeys' = AckedKeys
    BY <2>1 DEF TcKeys, AckedKeys
  <2>4. TwinInv'
    BY <1>1, <2>1, <2>2 DEF TwinInv
  <2>5. OrphanInv'
    BY <2>1, <2>2, <2>3 DEF OrphanInv
  <2> QED BY <2>4, <2>5
<1> QED BY <1>2, <1>3

\* The file's nodes do not change; the thread or a TransferComplete does.
LEMMA SameTwins ==
  ASSUME TwinInv, UNCHANGED events, backup'.evs = backup.evs,
         pc \notin {"down", "load_event"}, pc' \notin {"down", "load_event"}
  PROVE  TwinInv' /\ MFiled' = MFiled
<1>1. MFiled' = MFiled /\ MListed' = MListed
  BY DEF MFiled, MListed
<1> QED BY <1>1 DEF TwinInv

\* backup_init reads the nodes back, one entry for each.
LEMMA LoadPreserves ==
  ASSUME TypeInv, TwinInv, OrphanInv, BackupInit \/ LoadEvent \/ BackupInitDone
  PROVE  TwinInv' /\ OrphanInv'
<1> USE DEF session, locals, queues, observed
<1>0. /\ backup \in Backup /\ events \in Seq(Event) /\ loaded \in Nat
      /\ backup.evs \in Seq(Node) /\ Len(backup.evs) \in Nat
  BY LenProperties DEF TypeInv, TypeOK, Backup
<1>1. CASE BackupInit
  <2>1. /\ UNCHANGED <<backup, events, acked, cut>> /\ pc = "down"
        /\ pc' = "load_event" /\ events = <<>> /\ loaded' = 0
    BY <1>1 DEF BackupInit, TwinInv
  <2>2. MListed' = {} /\ MFiled' = MFiled
    BY <2>1, EmptySeq DEF MListed, MFiled, MOf, Elements
  <2>3. TwinInv'
    BY <2>1, <2>2 DEF TwinInv
  <2>4. OrphanInv'
    BY <2>1, <2>2 DEF OrphanInv, TcKeys, AckedKeys
  <2> QED BY <2>3, <2>4
<1>2. CASE LoadEvent
  <2> DEFINE n == backup.evs[loaded + 1]
  <2>1. /\ UNCHANGED <<backup, acked, cut, pc, cur>> /\ pc = "load_event"
        /\ loaded' = loaded + 1
    BY <1>2 DEF LoadEvent
  <2>2. MFiled' = MFiled
    BY <2>1 DEF MFiled
  <2>3. OrphanInv'
    BY <2>1, <2>2 DEF OrphanInv, TcKeys, AckedKeys
  <2>4. loaded + 1 \in 1..Len(backup.evs) /\ n \in Filed
    BY <1>2, LoadEventCases
  <2>5. CASE ~IsM(n)
    <3>1. MListed' = MListed /\ ByKey(events')
      <4>1. CASE UNCHANGED events
        BY <4>1 DEF MListed, TwinInv
      <4>2. ASSUME NEW e \in Event, e.code = n.code, With(events, e, events')
            PROVE  MListed' = MListed /\ ByKey(events')
        BY <2>5, <4>2, WithKeyed DEF MListed, TwinInv, IsM
      <4> QED BY <1>2, <4>1, <4>2, LoadEventCases
    <3> HIDE DEF n
    <3>2. ASSUME NEW i \in 1..Len(backup.evs), i <= loaded + 1,
                 IsM(backup.evs[i])
          PROVE  \E e \in MListed : e.node = backup.evs[i]
      <4>1. i # loaded + 1
        BY <2>5, <3>2 DEF n
      <4>2. i <= loaded
        BY <1>0, <3>2, <4>1
      <4> QED BY <2>1, <3>2, <4>2 DEF TwinInv
    <3>3. ASSUME NEW e \in MListed
          PROVE  \E i \in 1..Len(backup.evs) :
                   i <= loaded + 1 /\ e.node = backup.evs[i]
      <4>1. PICK i \in 1..Len(backup.evs) :
              i <= loaded /\ e.node = backup.evs[i]
        BY <2>1 DEF TwinInv
      <4>2. i <= loaded + 1
        BY <1>0, <4>1
      <4> QED BY <4>1, <4>2
    <3>4. TwinInv'
      BY <2>1, <2>2, <3>1, <3>2, <3>3 DEF TwinInv
    <3> QED BY <2>3, <3>4
  <2>6. CASE IsM(n)
    <3>1. n \in MFiled /\ n.mid # 0 /\ n.code \notin SingleCode
      BY <2>4, <2>6 DEF MFiled, MOf, Filed, OrphanInv, IsM, SingleCode
    <3>2. PICK e \in Event : /\ e.code = n.code /\ e.key = n.key /\ e.node = n
                             /\ e.mid = n.mid /\ With(events, e, events')
      BY <1>2, <3>1, LoadEventCases
    <3>3. ASSUME NEW x \in MListed
          PROVE  x.key # e.key
      <4>1. PICK i \in 1..Len(backup.evs) :
              i <= loaded /\ x.node = backup.evs[i]
        BY <2>1 DEF TwinInv
      <4>2. IsM(backup.evs[i]) /\ backup.evs[i].key = x.key
        BY <4>1 DEF TwinInv, MFiled, MOf
      <4>3. i # loaded + 1
        BY <1>0, <4>1
      <4> QED BY <2>4, <2>6, <3>2, <4>2, <4>3 DEF TwinInv, ByKey
    <3>4. IsM(e)
      BY <2>6, <3>2 DEF IsM
    <3>5. MListed' = MListed \cup {e} /\ ByKey(events')
      BY <3>2, <3>3, <3>4, WithKeyed DEF MListed, TwinInv
    <3>6. e.node \in MFiled /\ e.node.key = e.key /\ e.node.mid = e.mid
      BY <3>1, <3>2
    <3>7. e.node = backup.evs[loaded + 1]
      BY <3>2
    <3> HIDE DEF n
    <3>8. ASSUME NEW i \in 1..Len(backup.evs), i <= loaded + 1,
                 IsM(backup.evs[i])
          PROVE  \E x \in MListed' : x.node = backup.evs[i]
      <4>1. CASE i = loaded + 1
        BY <3>5, <3>7, <4>1
      <4>2. CASE i # loaded + 1
        <5>1. i <= loaded
          BY <1>0, <3>8, <4>2
        <5> QED BY <2>1, <3>5, <3>8, <5>1 DEF TwinInv
      <4> QED BY <4>1, <4>2
    <3>9. ASSUME NEW x \in MListed'
          PROVE  \E i \in 1..Len(backup.evs) :
                   i <= loaded + 1 /\ x.node = backup.evs[i]
      <4>1. CASE x = e
        BY <1>0, <2>4, <3>7, <4>1
      <4>2. CASE x # e
        <5>1. PICK i \in 1..Len(backup.evs) :
                i <= loaded /\ x.node = backup.evs[i]
          BY <2>1, <3>5, <3>9, <4>2 DEF TwinInv
        <5>2. i <= loaded + 1
          BY <1>0, <5>1
        <5> QED BY <5>1, <5>2
      <4> QED BY <4>1, <4>2
    <3>10. \A x \in MListed' : /\ x.node \in MFiled'
                               /\ x.node.key = x.key /\ x.node.mid = x.mid
      BY <2>2, <3>5, <3>6 DEF TwinInv
    <3>11. TwinInv'
      BY <2>1, <3>5, <3>8, <3>9, <3>10 DEF TwinInv
    <3> QED BY <2>3, <3>11
  <2> QED BY <2>5, <2>6
<1>3. CASE BackupInitDone
  <2>1. /\ UNCHANGED <<events, acked, cut>> /\ pc = "load_event"
        /\ pc' = "config_load" /\ loaded = Len(backup.evs)
        /\ backup' = backup_update_all_complete_time(backup)
    BY <1>3 DEF BackupInitDone
  <2>2. backup'.evs = backup.evs
    BY <1>0, <2>1 DEF backup_update_all_complete_time, Backup
  <2>3. MListed' = MListed /\ MFiled' = MFiled
    BY <2>1, <2>2 DEF MListed, MFiled
  <2>4. ASSUME NEW n \in MFiled
        PROVE  \E e \in MListed : e.node = n
    <3>1. PICK i \in 1..Len(backup.evs) : n = backup.evs[i] /\ IsM(backup.evs[i])
      BY DEF MFiled, MOf, Elements
    <3>2. i <= loaded
      BY <1>0, <2>1
    <3> QED BY <2>1, <3>1, <3>2 DEF TwinInv
  <2>5. TwinInv'
    BY <2>1, <2>2, <2>3, <2>4 DEF TwinInv
  <2>6. /\ Len(backup'.tcs) = Len(backup.tcs)
        /\ \A i \in 1..Len(backup.tcs) :
             /\ backup'.tcs[i].key = backup.tcs[i].key
             /\ backup'.tcs[i].mid = backup.tcs[i].mid
    BY <1>0, <2>1, CompleteAllType, CompleteAllRecords
  <2>7. TcKeys' = TcKeys /\ AckedKeys' = AckedKeys
    BY <2>1, <2>6 DEF TcKeys, TcKeysOf, AckedKeys
  <2>8. OrphanInv'
    BY <2>1, <2>3, <2>6, <2>7 DEF OrphanInv
  <2> QED BY <2>5, <2>8
<1> QED BY <1>1, <1>2, <1>3


\* So does the start of a transfer: its key has no report yet.
LEMMA LaunchPreserves ==
  ASSUME TypeInv, TransferInv, TwinInv, OrphanInv,
         NEW t \in transfers, NEW fault \in BOOLEAN, Launch(t, fault)
  PROVE  TwinInv' /\ OrphanInv'
<1>1. /\ UNCHANGED <<backup, events, acked, cut, mid>>
      /\ pc = "idle" /\ pc' = "x_remove" /\ cur'.key = t.key
  BY DEF Launch, observed, queues
<1>2. TwinInv' /\ MFiled' = MFiled /\ TcKeys' = TcKeys /\ AckedKeys' = AckedKeys
  BY <1>1, SameTwins DEF TcKeys, AckedKeys
<1>3. t.key \notin TcKeys \cup AckedKeys
  BY DEF TransferInv, ListInv, TransferOnce
<1>4. \A n \in MFiled : n.key # cur'.key
  BY <1>1, <1>3 DEF OrphanInv
<1>5. OrphanInv'
  BY <1>1, <1>2, <1>4 DEF OrphanInv
<1> QED BY <1>2, <1>5

\* The TransferComplete is written before the event that goes with it.
LEMMA AddReportPreserves ==
  ASSUME TypeInv, TransferInv, TwinInv, OrphanInv, LaunchAddTransferComplete
  PROVE  TwinInv' /\ OrphanInv'
<1> DEFINE tc == [key |-> cur.key, mid |-> method_id + 1, fault |-> FALSE,
                  complete |-> FALSE]
<1>1. /\ UNCHANGED <<events, acked, cut, mid, cur>>
      /\ pc = "x_tc" /\ pc' = "x_event" /\ method_id' = method_id + 1
      /\ backup \in Backup /\ cur.key \in Keys /\ method_id \in Nat
  BY DEF LaunchAddTransferComplete, NextMethodId, observed, locals, TypeInv,
         TypeOK, CurInv, LaunchPoint
<1>2. backup.tcs \in Seq(TransferComplete) /\ tc \in TransferComplete
  BY <1>1 DEF Backup, TransferComplete
<1>3. backup'.evs = backup.evs /\ backup'.tcs = Append(backup.tcs, tc)
  BY <1>1 DEF LaunchAddTransferComplete, NextMethodId,
              backup_add_transfer_complete, Backup
<1>4. tc.key = cur.key /\ tc.mid = method_id'
  BY <1>1
<1> HIDE DEF tc
<1>5. /\ Len(backup.tcs) \in Nat /\ Len(backup'.tcs) = Len(backup.tcs) + 1
      /\ \A i \in 1..Len(backup.tcs) : backup'.tcs[i] = backup.tcs[i]
      /\ backup'.tcs[Len(backup.tcs) + 1] = tc
  BY <1>2, <1>3, AppendProperties, LenProperties
<1>6. TwinInv' /\ MFiled' = MFiled /\ AckedKeys' = AckedKeys
  BY <1>1, <1>3, SameTwins DEF AckedKeys
<1>7. TcKeys \subseteq TcKeys'
  <2>1. ASSUME NEW i \in 1..Len(backup.tcs)
        PROVE  backup.tcs[i].key \in TcKeys'
    <3>1. i \in 1..Len(backup'.tcs) /\ backup'.tcs[i] = backup.tcs[i]
      BY <1>5
    <3> QED BY <3>1 DEF TcKeys, TcKeysOf
  <2> QED BY <2>1 DEF TcKeys, TcKeysOf
<1>8. ASSUME NEW n \in MFiled'
      PROVE  /\ n.key \in TcKeys' \cup AckedKeys' /\ n.mid # 0
             /\ n.key # cur'.key
             /\ n.key \in TcKeys' \/ <<"rm_mid", n.key>> \in cut'
             /\ \A i \in 1..Len(backup'.tcs) :
                  backup'.tcs[i].key = n.key => backup'.tcs[i].mid = n.mid
  <2>1. /\ n \in MFiled /\ n.key # cur.key
    BY <1>1, <1>6 DEF OrphanInv
  <2>2. ASSUME NEW i \in 1..Len(backup'.tcs), backup'.tcs[i].key = n.key
        PROVE  backup'.tcs[i].mid = n.mid
    <3>1. i # Len(backup.tcs) + 1
      BY <1>4, <1>5, <2>1, <2>2
    <3>2. i \in 1..Len(backup.tcs)
      BY <1>5, <3>1
    <3>3. backup'.tcs[i] = backup.tcs[i] /\ backup.tcs[i].key = n.key
      BY <1>5, <2>2, <3>2
    <3>4. backup.tcs[i].mid = n.mid
      BY <2>1, <3>2, <3>3 DEF OrphanInv
    <3> QED BY <3>3, <3>4
  <2> QED BY <1>1, <1>6, <1>7, <2>1, <2>2 DEF OrphanInv
<1>9. backup'.tcs[Len(backup'.tcs)].mid = method_id' /\ method_id' # 0
  BY <1>1, <1>4, <1>5
<1>10. OrphanInv'
  BY <1>1, <1>8, <1>9 DEF OrphanInv
<1> QED BY <1>6, <1>10

\* The event is written with the method_id of the last TransferComplete.
LEMMA AddTwinPreserves ==
  ASSUME TypeInv, TransferInv, TwinInv, OrphanInv, LaunchAddMEvent
  PROVE  TwinInv' /\ OrphanInv'
<1> DEFINE code == MEvent[cur.kind]
           node == [code |-> code, key |-> cur.key, mid |-> method_id]
<1>1. /\ UNCHANGED <<acked, cut, mid, cur>>
      /\ pc = "x_m_event" /\ pc' \in {"x_fault", "x_apply", "x_complete"}
      /\ backup \in Backup /\ events \in Seq(Event) /\ cur.key \in KeyOrNone
      /\ method_id \in Nat /\ cur.kind \in Kind
      /\ cwmp_add_event(code, cur.key, method_id, TRUE)
  BY DEF LaunchAddMEvent, observed, locals, TypeInv, TypeOK
<1>2. code \in {"M_DOWNLOAD", "M_UPLOAD"}
  BY <1>1 DEF MEvent, Kind
<1>3. code \in Code /\ code \notin SingleCode
  BY <1>2 DEF Code, SingleCode, MultipleCode
<1> HIDE DEF code
<1> DEFINE e == [code |-> code, key |-> cur.key, mid |-> method_id,
                 node |-> node]
<1>4. node \in Node /\ e \in Event /\ backup.evs \in Seq(Node)
  BY <1>1, <1>3 DEF Node, Event, KeyOrNone, Backup
<1>5. /\ e.code = code /\ e.key = cur.key /\ e.mid = method_id
      /\ e.node = node
      /\ With(events, e, events') /\ With(backup.evs, node, backup'.evs)
  <2>1. /\ events' = Append(events, e)
        /\ backup'.evs = Append(backup.evs, node)
        /\ e.code = code /\ e.key = cur.key /\ e.mid = method_id
        /\ e.node = node
    BY <1>1, <1>3 DEF cwmp_add_event, backup_add_event, Backup
  <2> HIDE DEF e, node
  <2> QED BY <1>1, <1>4, <2>1, AppendWith
<1>6. /\ IsM(e) /\ IsM(node) /\ node.key = cur.key /\ node.mid = method_id
      /\ backup'.tcs = backup.tcs
  BY <1>1, <1>2, <1>3, <1>5, AddEventType DEF IsM, SameTransfers
<1> HIDE DEF node, e
<1>7. \A n \in MFiled : n.key # cur.key
  BY <1>1 DEF OrphanInv
<1>8. \A x \in MListed : x.key # cur.key
  BY <1>7 DEF TwinInv
<1>9. MFiled' = MFiled \cup {node} /\ ByKey(backup'.evs)
  BY <1>5, <1>6, <1>7, WithKeyed DEF TwinInv, MFiled
<1>10. MListed' = MListed \cup {e} /\ ByKey(events')
  BY <1>5, <1>6, <1>8, WithKeyed DEF TwinInv, MListed
<1>11. TwinInv'
  BY <1>1, <1>5, <1>6, <1>9, <1>10 DEF TwinInv
<1>12. TcKeys' = TcKeys /\ AckedKeys' = AckedKeys
  BY <1>1, <1>6 DEF TcKeys, TcKeysOf, AckedKeys
<1>13. /\ Len(backup.tcs) \in 1..Len(backup.tcs)
       /\ backup.tcs[Len(backup.tcs)].key = cur.key
       /\ backup.tcs[Len(backup.tcs)].mid = method_id /\ method_id # 0
  <2>1. backup.tcs # <<>> /\ backup.tcs \in Seq(TransferComplete)
    BY <1>1 DEF TypeInv, TypeOK, CurInv, TcPoint, Backup
  <2> QED BY <1>1, <2>1, EmptySeq DEF TransferInv, LaunchInv, TcPoint, OrphanInv
<1>14. /\ node.key \in TcKeys /\ node.mid # 0
       /\ \A i \in 1..Len(backup.tcs) :
            backup.tcs[i].key = node.key => backup.tcs[i].mid = node.mid
  BY <1>6, <1>13 DEF TcKeys, TcKeysOf, TransferInv, TransferOnce
<1>15. OrphanInv'
  BY <1>1, <1>6, <1>9, <1>12, <1>14 DEF OrphanInv
<1> QED BY <1>11, <1>15


\* The answer names the method_id of the TransferComplete that was sent.
LEMMA AnsweredPreserves ==
  ASSUME TypeInv, TwinInv, OrphanInv,
         NEW hold \in BOOLEAN, TransferCompleteAnswered(hold)
  PROVE  TwinInv' /\ OrphanInv'
<1>1. /\ UNCHANGED <<backup, events, cut>> /\ pc = "loop" /\ pc' = "tc_remove"
      /\ backup.tcs # <<>> /\ acked \subseteq acked'
      /\ cur'.key = Head(backup.tcs).key /\ mid' = Head(backup.tcs).mid
  BY DEF TransferCompleteAnswered, SendsTransferComplete, extract_method_id,
         NoCur
<1>2. 1 \in 1..Len(backup.tcs) /\ Head(backup.tcs) = backup.tcs[1]
  <2>1. backup.tcs \in Seq(TransferComplete)
    BY DEF TypeInv, TypeOK, Backup
  <2> QED BY <1>1, <2>1, EmptySeq
<1>3. /\ TwinInv' /\ MFiled' = MFiled /\ TcKeys' = TcKeys
      /\ AckedKeys \subseteq AckedKeys'
  BY <1>1, SameTwins DEF TcKeys, AckedKeys
<1>4. ASSUME NEW n \in MFiled, n.key = cur'.key
      PROVE  n.mid = mid'
  BY <1>1, <1>2, <1>4 DEF OrphanInv
<1>5. OrphanInv'
  BY <1>1, <1>3, <1>4 DEF OrphanInv
<1> QED BY <1>3, <1>5

\* The TransferComplete leaves the file before its event does.
LEMMA RemoveReportPreserves ==
  ASSUME TypeInv, TransferInv, TwinInv, OrphanInv,
         backup_remove_transfer_complete
  PROVE  TwinInv' /\ OrphanInv'
<1>1. /\ UNCHANGED <<events, acked, cut, cur, mid>>
      /\ pc = "tc_remove" /\ pc' = "rm_mid"
      /\ backup' = backup_remove_first_transfer_complete(backup)
      /\ backup \in Backup /\ backup.tcs # <<>>
  BY DEF backup_remove_transfer_complete, observed, locals, TypeInv, TypeOK,
         CurInv, TcPoint
<1>2. /\ Len(backup.tcs) \in Nat \ {0} /\ Len(backup'.tcs) = Len(backup.tcs) - 1
      /\ \A i \in 1..(Len(backup.tcs) - 1) : backup'.tcs[i] = backup.tcs[i + 1]
      /\ backup.tcs[1].key = cur.key /\ cur.key \in AckedKeys
  BY <1>1, RemoveFirstTransferCompleteType DEF TransferInv, LaunchInv
<1>3. backup'.evs = backup.evs
  BY <1>1 DEF backup_remove_first_transfer_complete, Backup
<1>4. TwinInv' /\ MFiled' = MFiled /\ AckedKeys' = AckedKeys
  BY <1>1, <1>3, SameTwins DEF AckedKeys
<1>5. ASSUME NEW k \in TcKeys, k # cur.key
      PROVE  k \in TcKeys'
  <2>1. PICK i \in 1..Len(backup.tcs) : backup.tcs[i].key = k
    BY DEF TcKeys, TcKeysOf
  <2>2. i - 1 \in 1..Len(backup'.tcs) /\ backup'.tcs[i - 1] = backup.tcs[i]
    <3>1. i # 1
      BY <1>2, <1>5, <2>1
    <3>2. i - 1 \in 1..(Len(backup.tcs) - 1) /\ (i - 1) + 1 = i
      BY <1>2, <3>1
    <3> QED BY <1>2, <3>2
  <2> QED BY <2>1, <2>2 DEF TcKeys, TcKeysOf
<1>6. ASSUME NEW n \in MFiled, NEW i \in 1..Len(backup'.tcs),
             backup'.tcs[i].key = n.key
      PROVE  backup'.tcs[i].mid = n.mid
  <2>1. i + 1 \in 1..Len(backup.tcs) /\ backup'.tcs[i] = backup.tcs[i + 1]
    BY <1>2
  <2> QED BY <1>6, <2>1 DEF OrphanInv
<1>7. ASSUME NEW n \in MFiled
      PROVE  /\ n.key \in TcKeys' \cup AckedKeys'
             /\ \/ n.key \in TcKeys'
                \/ pc' = "rm_mid" /\ cur'.key = n.key
                \/ <<"rm_mid", n.key>> \in cut'
  BY <1>1, <1>2, <1>4, <1>5 DEF OrphanInv
<1>8. OrphanInv'
  BY <1>1, <1>4, <1>6, <1>7 DEF OrphanInv
<1> QED BY <1>4, <1>8

\* cwmp_remove_event is done only when the event of the answered transfer is
\* gone: its entry carries the method_id that the loop looks for.
LEMMA RemoveDonePreserves ==
  ASSUME TypeInv, TwinInv, OrphanInv, RemoveMidDone
  PROVE  TwinInv' /\ OrphanInv'
<1>1. /\ UNCHANGED <<backup, events, acked, cut>> /\ pc = "rm_mid"
      /\ ~AnyRemovable("AFTER_TRANSFER_COMPLETE", mid)
      /\ \/ pc' = "rm_mid" /\ UNCHANGED cur
         \/ pc' = "loop"
  BY DEF RemoveMidDone, observed
<1>2. /\ TwinInv' /\ MFiled' = MFiled /\ TcKeys' = TcKeys
      /\ AckedKeys' = AckedKeys
  BY <1>1, SameTwins DEF TcKeys, AckedKeys
<1>3. ASSUME NEW n \in MFiled, n.key = cur.key
      PROVE  FALSE
  <2>1. n.mid = mid
    BY <1>1, <1>3 DEF OrphanInv
  <2>2. PICK e \in MListed : e.node = n
    BY <1>1 DEF TwinInv
  <2>3. PICK i \in 1..Len(events) : e = events[i] /\ IsM(e)
    BY DEF MListed, MOf, Elements
  <2>4. e.mid = mid
    BY <2>1, <2>2 DEF TwinInv
  <2>5. "AFTER_TRANSFER_COMPLETE" \in remove_policy(e.code)
    BY <2>3 DEF remove_policy, TransferCode, IsM
  <2>6. Removable(events[i], "AFTER_TRANSFER_COMPLETE", mid)
    BY <2>3, <2>4, <2>5 DEF Removable
  <2> QED BY <1>1, <2>6 DEF AnyRemovable
<1>4. OrphanInv'
  BY <1>1, <1>2, <1>3 DEF OrphanInv
<1> QED BY <1>2, <1>4

\* Twins and their reports stay in step in every reachable state.
LEMMA TwinInvariance == Spec => [](TwinInv /\ OrphanInv)
<1>1. Init => TwinInv /\ OrphanInv
  BY EmptySeq
     DEF Init, TwinInv, OrphanInv, NoBackup, MListed, MFiled, MOf, Elements,
         ByKey
<1>2. FullInv /\ NodeInv /\ TwinInv /\ OrphanInv /\ [Next]_vars
        => TwinInv' /\ OrphanInv'
  <2> SUFFICES ASSUME TypeInv, TransferInv, NodeInv, TwinInv, OrphanInv,
                      [Next]_vars
               PROVE  TwinInv' /\ OrphanInv'
    BY DEF FullInv
  <2>1. CASE Next
    <3>1. PairSteps
      BY <2>1, NextPairs
    <3> QED BY <3>1, PairPreserves, WipePreserves, LoadPreserves,
               LaunchPreserves, AddReportPreserves, AddTwinPreserves,
               AnsweredPreserves, RemoveReportPreserves, RemoveDonePreserves
            DEF PairSteps
  <2>2. CASE UNCHANGED vars
    BY <2>2
       DEF vars, observed, locals, queues, TwinInv, OrphanInv, MListed, MFiled,
           TcKeys, AckedKeys
  <2> QED BY <2>1, <2>2
<1> QED BY <1>1, <1>2, LedgerInvariance, NewsInvariance, PTL DEF Spec

\* "M Download" and "M Upload" leave the list with their TransferComplete, for
\* every number of transfers, sessions and power cuts (NoOrphanEvent).
THEOREM OrphansAreExplained == Spec => []NoOrphanEvent
<1>1. TwinInv /\ OrphanInv => NoOrphanEvent
  <2> SUFFICES ASSUME TwinInv, OrphanInv, NEW i \in 1..Len(events),
                      events[i].code \in {"M_DOWNLOAD", "M_UPLOAD"}
               PROVE  \/ events[i].key \in TcKeys
                      \/ pc = "rm_mid" /\ cur.key = events[i].key
                      \/ <<"rm_mid", events[i].key>> \in cut
    BY DEF NoOrphanEvent
  <2>1. events[i] \in MListed
    BY DEF MListed, MOf, Elements, IsM
  <2>2. events[i].node \in MFiled /\ events[i].node.key = events[i].key
    BY <2>1 DEF TwinInv
  <2> QED BY <2>2 DEF OrphanInv
<1> QED BY <1>1, TwinInvariance, PTL

----------------------------------------------------------------------------
\* The list and the nodes of the file, in order.

\* The entries of a list that have a node.
Stored(es) == {i \in 1..Len(es) : es[i].node # NoNode}

\* The list es and the first r of the nodes ns agree; the nodes without an entry
\* are those of a reboot that is under way (b).
InSync(es, ns, r, b) ==
  /\ \A i \in Stored(es) : \E j \in 1..r : es[i].node = ns[j]
  /\ \A i, l \in Stored(es), j, k \in 1..r :
       es[i].node = ns[j] /\ es[l].node = ns[k] /\ i < l => j < k
  /\ \A j \in 1..r :
       \/ \E i \in Stored(es) : es[i].node = ns[j]
       \/ /\ ns[j].code = "M_REBOOT" /\ b
          /\ \A i \in Stored(es), k \in 1..r : es[i].node = ns[k] => k < j

\* Two nodes that stand for the same event; in a file there are none.
SameEvent(m, n) == m.code = n.code /\ (m.code \in SingleCode \/ m.key = n.key)
Single(ns) == \A j, k \in 1..Len(ns) : SameEvent(ns[j], ns[k]) => j = k

LEMMA SingleDistinct ==
  ASSUME NEW ns, Single(ns), NEW j \in 1..Len(ns), NEW k \in 1..Len(ns), ns[j] = ns[k]
  PROVE  j = k
BY DEF Single, SameEvent

\* Where an element stood before the i-th was taken out.
At(i, x) == IF x < i THEN x ELSE x + 1

LEMMA WithoutAt ==
  ASSUME NEW s, NEW i, NEW t, Without(s, i, t)
  PROVE  /\ \A x \in 1..Len(t) : /\ At(i, x) \in 1..Len(s) /\ At(i, x) # i
                                 /\ t[x] = s[At(i, x)]
         /\ \A x, y \in 1..Len(t) : (x < y <=> At(i, x) < At(i, y))
                                    /\ (At(i, x) = At(i, y) => x = y)
         /\ \A l \in 1..Len(s) : l # i => \E x \in 1..Len(t) : At(i, x) = l
<1>1. Len(s) \in Nat /\ i \in 1..Len(s) /\ Len(t) = Len(s) - 1
  BY DEF Without
<1>2. ASSUME NEW x \in 1..Len(t)
      PROVE  At(i, x) \in 1..Len(s) /\ At(i, x) # i /\ t[x] = s[At(i, x)]
  BY <1>1 DEF Without, At
<1>3. ASSUME NEW x \in 1..Len(t), NEW y \in 1..Len(t)
      PROVE  (x < y <=> At(i, x) < At(i, y)) /\ (At(i, x) = At(i, y) => x = y)
  BY <1>1 DEF At
<1>4. ASSUME NEW l \in 1..Len(s), l # i
      PROVE  \E x \in 1..Len(t) : At(i, x) = l
  <2>1. CASE l < i
    <3>1. l \in 1..Len(t) /\ At(i, l) = l
      BY <1>1, <2>1 DEF At
    <3> QED BY <3>1
  <2>2. CASE l > i
    <3>1. l - 1 \in 1..Len(t) /\ At(i, l - 1) = l
      BY <1>1, <2>2 DEF At
    <3> QED BY <3>1
  <2> QED BY <1>1, <1>4, <2>1, <2>2
<1> QED BY <1>2, <1>3, <1>4

LEMMA WithoutSingle ==
  ASSUME NEW s, NEW i, NEW t, Without(s, i, t), Single(s)
  PROVE  Single(t)
<1>1. ASSUME NEW j \in 1..Len(t), NEW k \in 1..Len(t), SameEvent(t[j], t[k])
      PROVE  j = k
  <2>1. /\ At(i, j) \in 1..Len(s) /\ At(i, k) \in 1..Len(s)
        /\ t[j] = s[At(i, j)] /\ t[k] = s[At(i, k)]
        /\ (At(i, j) = At(i, k) => j = k)
    BY WithoutAt
  <2> QED BY <1>1, <2>1 DEF Single
<1> QED BY <1>1 DEF Single

LEMMA WithSingle ==
  ASSUME NEW s, NEW e, NEW t, With(s, e, t), Single(s),
         \A x \in Elements(s) : ~SameEvent(x, e)
  PROVE  Single(t)
<1>1. Len(s) \in Nat /\ Len(t) = Len(s) + 1 /\ t[Len(s) + 1] = e
  BY DEF With
<1>2. ASSUME NEW i \in 1..Len(t), i # Len(s) + 1
      PROVE  i \in 1..Len(s) /\ t[i] = s[i]
  BY <1>1, <1>2 DEF With
<1>3. ASSUME NEW i \in 1..Len(s)
      PROVE  ~SameEvent(s[i], e) /\ ~SameEvent(e, s[i])
  <2>1. ~SameEvent(s[i], e)
    BY DEF Elements
  <2> QED BY <2>1 DEF SameEvent
<1>4. ASSUME NEW i \in 1..Len(t), NEW j \in 1..Len(t), SameEvent(t[i], t[j])
      PROVE  i = j
  <2>1. CASE i = Len(s) + 1 /\ j = Len(s) + 1
    BY <2>1
  <2>2. CASE i # Len(s) + 1 /\ j = Len(s) + 1
    BY <1>1, <1>2, <1>3, <1>4, <2>2
  <2>3. CASE i = Len(s) + 1 /\ j # Len(s) + 1
    BY <1>1, <1>2, <1>3, <1>4, <2>3
  <2>4. CASE i # Len(s) + 1 /\ j # Len(s) + 1
    BY <1>2, <1>4, <2>4 DEF Single
  <2> QED BY <2>1, <2>2, <2>3, <2>4
<1> QED BY <1>4 DEF Single

\* An entry without a node is added.
LEMMA SyncUnsaved ==
  ASSUME NEW es, NEW e, NEW fs, With(es, e, fs), e.node = NoNode,
         NEW ns, NEW r, NEW b, InSync(es, ns, r, b)
  PROVE  InSync(fs, ns, r, b)
<1>1. Len(es) \in Nat /\ Len(fs) = Len(es) + 1 /\ fs[Len(es) + 1] = e
  BY DEF With
<1>2. Stored(fs) = Stored(es) /\ \A i \in Stored(es) : fs[i] = es[i]
  <2>1. \A i \in 1..Len(es) : i \in 1..Len(fs) /\ fs[i] = es[i]
    BY <1>1 DEF With
  <2>2. \A i \in 1..Len(fs) : i \in 1..Len(es) \/ i = Len(es) + 1
    BY <1>1
  <2> QED BY <1>1, <2>1, <2>2 DEF Stored
<1> QED BY <1>2 DEF InSync

\* The entry of the next node is added, as backup_load_event does.
LEMMA SyncNext ==
  ASSUME NEW es, NEW e, NEW fs, With(es, e, fs), e.node # NoNode,
         NEW ns, NEW r \in Nat, r + 1 <= Len(ns), Len(ns) \in Nat, Single(ns),
         e.node = ns[r + 1], InSync(es, ns, r, FALSE)
  PROVE  InSync(fs, ns, r + 1, FALSE)
<1>1. Len(es) \in Nat /\ Len(fs) = Len(es) + 1 /\ fs[Len(es) + 1] = e
  BY DEF With
<1> DEFINE n == Len(es) + 1
<1>2. /\ \A i \in Stored(fs) : i = n \/ (i \in Stored(es) /\ fs[i] = es[i])
      /\ n \in Stored(fs) /\ \A i \in Stored(es) : i \in Stored(fs) /\ fs[i] = es[i]
      /\ \A i \in Stored(es) : i < n /\ i \in Nat
  <2>1. \A i \in 1..Len(es) : i \in 1..Len(fs) /\ fs[i] = es[i] /\ i < n /\ i \in Nat
    BY <1>1 DEF With
  <2>2. \A i \in 1..Len(fs) : i \in 1..Len(es) \/ i = n
    BY <1>1
  <2>3. n \in 1..Len(fs)
    BY <1>1
  <2> QED BY <1>1, <2>1, <2>2, <2>3 DEF Stored
<1>3. /\ \A j \in 1..(r + 1) : j \in 1..Len(ns) /\ (j \in 1..r \/ j = r + 1)
      /\ r + 1 \in 1..(r + 1)
      /\ \A j \in 1..r : j \in 1..(r + 1) /\ j < r + 1 /\ j # r + 1
  OBVIOUS
<1>4. n \in Nat /\ fs[n] = e
  BY <1>1
<1> HIDE DEF n
<1>5. ASSUME NEW i \in Stored(es), NEW j \in 1..(r + 1), fs[i].node = ns[j]
      PROVE  j \in 1..r
  <2>1. PICK k \in 1..r : es[i].node = ns[k]
    BY DEF InSync
  <2>2. ns[k] = ns[j] /\ k \in 1..Len(ns) /\ j \in 1..Len(ns)
    BY <1>2, <1>3, <1>5, <2>1
  <2> QED BY <2>1, <2>2, SingleDistinct
<1>6. ASSUME NEW j \in 1..(r + 1), fs[n].node = ns[j]
      PROVE  j = r + 1
  <2>1. ns[j] = ns[r + 1]
    BY <1>4, <1>6
  <2>2. j \in 1..Len(ns) /\ r + 1 \in 1..Len(ns)
    BY <1>3
  <2> QED BY <2>1, <2>2, SingleDistinct, Zenon
<1>7. ASSUME NEW i \in Stored(fs)
      PROVE  \E j \in 1..(r + 1) : fs[i].node = ns[j]
  <2>1. CASE i = n
    BY <1>3, <1>4, <2>1
  <2>2. CASE i \in Stored(es) /\ fs[i] = es[i]
    <3>1. PICK j \in 1..r : es[i].node = ns[j]
      BY <2>2 DEF InSync
    <3> QED BY <1>3, <2>2, <3>1
  <2> QED BY <1>2, <2>1, <2>2
<1>8. ASSUME NEW i \in Stored(fs), NEW l \in Stored(fs),
             NEW j \in 1..(r + 1), NEW k \in 1..(r + 1),
             fs[i].node = ns[j], fs[l].node = ns[k], i < l
      PROVE  j < k
  <2>1. i # n
    BY <1>2, <1>4, <1>8
  <2>2. i \in Stored(es) /\ fs[i] = es[i]
    BY <1>2, <2>1
  <2>3. j \in 1..r
    BY <1>5, <1>8, <2>2
  <2>4. CASE l = n
    <3>1. k = r + 1
      BY <1>6, <1>8, <2>4
    <3> QED BY <1>3, <2>3, <3>1
  <2>5. CASE l \in Stored(es) /\ fs[l] = es[l]
    <3>1. k \in 1..r
      BY <1>5, <1>8, <2>5
    <3> QED BY <1>8, <2>2, <2>3, <2>5, <3>1 DEF InSync
  <2> QED BY <1>2, <2>4, <2>5
<1>9. ASSUME NEW j \in 1..(r + 1)
      PROVE  \E i \in Stored(fs) : fs[i].node = ns[j]
  <2>1. CASE j = r + 1
    BY <1>2, <1>4, <2>1
  <2>2. CASE j \in 1..r
    <3>1. PICK i \in Stored(es) : es[i].node = ns[j]
      BY <2>2 DEF InSync
    <3> QED BY <1>2, <3>1
  <2> QED BY <1>3, <2>1, <2>2
<1> QED BY <1>7, <1>8, <1>9 DEF InSync


\* A saved event: entry and node are added.
LEMMA SyncSaved ==
  ASSUME NEW es, NEW e, NEW fs, With(es, e, fs), e.node # NoNode,
         NEW ns, NEW ms, With(ns, e.node, ms), Single(ms),
         InSync(es, ns, Len(ns), FALSE)
  PROVE  InSync(fs, ms, Len(ms), FALSE)
<1> DEFINE r == Len(ns)
<1>1. /\ r \in Nat /\ Len(ms) = r + 1 /\ ms[r + 1] = e.node
      /\ \A j \in 1..r : ms[j] = ns[j]
  BY DEF With
<1>2. InSync(es, ms, r, FALSE)
  <2> HIDE DEF r
  <2>1. InSync(es, ns, r, FALSE)
    BY DEF r
  <2> QED BY <1>1, <2>1 DEF InSync
<1> HIDE DEF r
<1>3. r + 1 <= Len(ms) /\ Len(ms) \in Nat
  BY <1>1
<1>4. InSync(fs, ms, r + 1, FALSE)
  BY <1>1, <1>2, <1>3, SyncNext
<1> QED BY <1>1, <1>4

\* The node of a reboot is added, without an entry.
LEMMA SyncReboot ==
  ASSUME NEW es, NEW ns, NEW n, NEW ms, With(ns, n, ms), n.code = "M_REBOOT",
         Single(ms), NEW b, InSync(es, ns, Len(ns), b)
  PROVE  InSync(es, ms, Len(ms), TRUE)
<1> DEFINE r == Len(ns)
<1>1. /\ r \in Nat /\ Len(ms) = r + 1 /\ ms[r + 1] = n
      /\ \A j \in 1..r : ms[j] = ns[j]
  BY DEF With
<1> HIDE DEF r
<1>2. InSync(es, ns, r, b)
  BY DEF r
<1>3. /\ \A j \in 1..(r + 1) : j \in 1..Len(ms) /\ (j \in 1..r \/ j = r + 1)
      /\ \A j \in 1..r : j \in 1..(r + 1) /\ j < r + 1 /\ j # r + 1 /\ j \in 1..Len(ms)
  BY <1>1
<1>4. ASSUME NEW i \in Stored(es), NEW j \in 1..(r + 1), es[i].node = ms[j]
      PROVE  j \in 1..r /\ es[i].node = ns[j]
  <2>1. PICK k \in 1..r : es[i].node = ns[k]
    BY <1>2 DEF InSync
  <2>2. ms[k] = ms[j] /\ k \in 1..Len(ms) /\ j \in 1..Len(ms)
    BY <1>1, <1>3, <1>4, <2>1
  <2>3. k = j
    BY <2>2, SingleDistinct
  <2> QED BY <2>1, <2>3
<1>5. \A i \in Stored(es) : \E j \in 1..(r + 1) : es[i].node = ms[j]
  BY <1>1, <1>2, <1>3 DEF InSync
<1>6. ASSUME NEW i \in Stored(es), NEW l \in Stored(es),
             NEW j \in 1..(r + 1), NEW k \in 1..(r + 1),
             es[i].node = ms[j], es[l].node = ms[k], i < l
      PROVE  j < k
  <2>1. j \in 1..r /\ es[i].node = ns[j] /\ k \in 1..r /\ es[l].node = ns[k]
    BY <1>4, <1>6
  <2> QED BY <1>2, <1>6, <2>1 DEF InSync
<1>7. ASSUME NEW j \in 1..(r + 1)
      PROVE  \/ \E i \in Stored(es) : es[i].node = ms[j]
             \/ /\ ms[j].code = "M_REBOOT" /\ TRUE
                /\ \A i \in Stored(es), k \in 1..(r + 1) : es[i].node = ms[k] => k < j
  <2>1. CASE j = r + 1
    <3>1. ms[j].code = "M_REBOOT"
      BY <1>1, <2>1
    <3>2. \A i \in Stored(es), k \in 1..(r + 1) : es[i].node = ms[k] => k < j
      BY <1>3, <1>4, <2>1
    <3> QED BY <3>1, <3>2
  <2>2. CASE j \in 1..r
    <3>1. \/ \E i \in Stored(es) : es[i].node = ns[j]
          \/ /\ ns[j].code = "M_REBOOT"
             /\ \A i \in Stored(es), k \in 1..r : es[i].node = ns[k] => k < j
      BY <1>2, <2>2 DEF InSync
    <3>2. ms[j] = ns[j]
      BY <1>1, <2>2
    <3> QED BY <1>4, <3>1, <3>2
  <2> QED BY <1>3, <2>1, <2>2
<1>8. InSync(es, ms, r + 1, TRUE)
  BY <1>5, <1>6, <1>7 DEF InSync
<1> QED BY <1>1, <1>8

\* An entry without a node goes.
LEMMA SyncForget ==
  ASSUME NEW es, NEW i, NEW fs, Without(es, i, fs), es[i].node = NoNode,
         NEW ns, NEW r, NEW b, InSync(es, ns, r, b)
  PROVE  InSync(fs, ns, r, b)
<1>1. /\ \A x \in 1..Len(fs) : /\ At(i, x) \in 1..Len(es) /\ At(i, x) # i
                               /\ fs[x] = es[At(i, x)]
      /\ \A x, y \in 1..Len(fs) : (x < y <=> At(i, x) < At(i, y))
      /\ \A l \in 1..Len(es) : l # i => \E x \in 1..Len(fs) : At(i, x) = l
  BY WithoutAt
<1>2. /\ \A x \in Stored(fs) : At(i, x) \in Stored(es) /\ fs[x] = es[At(i, x)]
      /\ \A x, y \in Stored(fs) : x < y => At(i, x) < At(i, y)
      /\ \A l \in Stored(es) : \E x \in Stored(fs) : At(i, x) = l
  BY <1>1 DEF Stored
<1>3. \A x \in Stored(fs) : \E j \in 1..r : fs[x].node = ns[j]
  BY <1>2 DEF InSync
<1>4. ASSUME NEW x \in Stored(fs), NEW l \in Stored(fs), NEW j \in 1..r, NEW k \in 1..r,
             fs[x].node = ns[j], fs[l].node = ns[k], x < l
      PROVE  j < k
  BY <1>2, <1>4 DEF InSync
<1>5. ASSUME NEW j \in 1..r
      PROVE  \/ \E x \in Stored(fs) : fs[x].node = ns[j]
             \/ /\ ns[j].code = "M_REBOOT" /\ b
                /\ \A x \in Stored(fs), k \in 1..r : fs[x].node = ns[k] => k < j
  <2>1. CASE \E l \in Stored(es) : es[l].node = ns[j]
    <3>1. PICK l \in Stored(es) : es[l].node = ns[j]
      BY <2>1
    <3>2. PICK x \in Stored(fs) : At(i, x) = l
      BY <1>2, <3>1
    <3>3. fs[x].node = ns[j]
      BY <1>2, <3>1, <3>2
    <3> QED BY <3>3
  <2>2. CASE /\ ns[j].code = "M_REBOOT" /\ b
             /\ \A l \in Stored(es), k \in 1..r : es[l].node = ns[k] => k < j
    BY <1>2, <2>2
  <2> QED BY <2>1, <2>2 DEF InSync
<1> QED BY <1>3, <1>4, <1>5 DEF InSync

\* An entry and its node go.
LEMMA SyncRemoved ==
  ASSUME NEW es, NEW i, NEW fs, Without(es, i, fs), es[i].node # NoNode,
         NEW ns, NEW j, NEW ms, Without(ns, j, ms), Single(ns), es[i].node = ns[j],
         NEW b, InSync(es, ns, Len(ns), b)
  PROVE  InSync(fs, ms, Len(ms), b)
<1> DEFINE r == Len(ns)
           q == Len(ms)
<1>1. /\ \A x \in 1..Len(fs) : /\ At(i, x) \in 1..Len(es) /\ At(i, x) # i
                               /\ fs[x] = es[At(i, x)]
      /\ \A x, y \in 1..Len(fs) : (x < y <=> At(i, x) < At(i, y))
      /\ \A l \in 1..Len(es) : l # i => \E x \in 1..Len(fs) : At(i, x) = l
  BY WithoutAt
<1>2. /\ \A x \in Stored(fs) : /\ At(i, x) \in Stored(es) /\ At(i, x) # i
                               /\ fs[x] = es[At(i, x)]
      /\ \A x, y \in Stored(fs) : x < y => At(i, x) < At(i, y)
      /\ \A l \in Stored(es) : l # i => \E x \in Stored(fs) : At(i, x) = l
  BY <1>1 DEF Stored
<1>3. /\ \A y \in 1..q : At(j, y) \in 1..r /\ At(j, y) # j /\ ms[y] = ns[At(j, y)]
      /\ \A y, z \in 1..q : (y < z <=> At(j, y) < At(j, z))
      /\ \A k \in 1..r : k # j => \E y \in 1..q : At(j, y) = k
  BY WithoutAt
<1>4. i \in Stored(es) /\ j \in 1..r /\ Stored(es) \subseteq Int /\ 1..r \subseteq Int
  BY DEF Stored, Without
<1> HIDE DEF r, q
<1>5. InSync(es, ns, r, b)
  BY DEF r
<1>6. ASSUME NEW l \in Stored(es), l # i, NEW k \in 1..r, es[l].node = ns[k]
      PROVE  k # j
  <2>1. SUFFICES ASSUME k = j PROVE FALSE
    OBVIOUS
  <2>2. l < i \/ i < l
    BY <1>4, <1>6
  <2>3. j < j
    BY <1>4, <1>5, <1>6, <2>1, <2>2 DEF InSync
  <2> QED BY <1>4, <2>3
<1>7. ASSUME NEW x \in Stored(fs)
      PROVE  \E y \in 1..q : fs[x].node = ms[y]
  <2>1. At(i, x) \in Stored(es) /\ At(i, x) # i /\ fs[x] = es[At(i, x)]
    BY <1>2
  <2>2. PICK k \in 1..r : es[At(i, x)].node = ns[k]
    BY <1>5, <2>1 DEF InSync
  <2>3. k # j
    BY <1>6, <2>1, <2>2
  <2>4. PICK y \in 1..q : At(j, y) = k
    BY <1>3, <2>3
  <2>5. fs[x].node = ms[y]
    BY <1>3, <2>1, <2>2, <2>4
  <2> QED BY <2>5
<1>8. ASSUME NEW x \in Stored(fs), NEW l \in Stored(fs), NEW y \in 1..q, NEW z \in 1..q,
             fs[x].node = ms[y], fs[l].node = ms[z], x < l
      PROVE  y < z
  <2>1. /\ At(i, x) \in Stored(es) /\ At(i, l) \in Stored(es) /\ At(i, x) < At(i, l)
        /\ At(j, y) \in 1..r /\ At(j, z) \in 1..r
        /\ es[At(i, x)].node = ns[At(j, y)] /\ es[At(i, l)].node = ns[At(j, z)]
    BY <1>2, <1>3, <1>8
  <2>2. At(j, y) < At(j, z)
    BY <1>5, <2>1 DEF InSync
  <2> QED BY <1>3, <2>2
<1>9. ASSUME NEW y \in 1..q
      PROVE  \/ \E x \in Stored(fs) : fs[x].node = ms[y]
             \/ /\ ms[y].code = "M_REBOOT" /\ b
                /\ \A x \in Stored(fs), z \in 1..q : fs[x].node = ms[z] => z < y
  <2>1. At(j, y) \in 1..r /\ At(j, y) # j /\ ms[y] = ns[At(j, y)]
    BY <1>3
  <2>2. CASE \E l \in Stored(es) : es[l].node = ns[At(j, y)]
    <3>1. PICK l \in Stored(es) : es[l].node = ns[At(j, y)]
      BY <2>2
    <3>2. l # i
      <4> SUFFICES ASSUME l = i PROVE FALSE
        OBVIOUS
      <4>1. ns[At(j, y)] = ns[j]
        BY <3>1
      <4> QED BY <1>4, <2>1, <4>1, SingleDistinct DEF r
    <3>3. PICK x \in Stored(fs) : At(i, x) = l
      BY <1>2, <3>1, <3>2
    <3>4. fs[x].node = ms[y]
      BY <1>2, <2>1, <3>1, <3>3
    <3> QED BY <3>4
  <2>3. CASE /\ ns[At(j, y)].code = "M_REBOOT" /\ b
             /\ \A l \in Stored(es), k \in 1..r : es[l].node = ns[k] => k < At(j, y)
    <3>1. ASSUME NEW x \in Stored(fs), NEW z \in 1..q, fs[x].node = ms[z]
          PROVE  z < y
      <4>1. /\ At(i, x) \in Stored(es) /\ At(j, z) \in 1..r
            /\ es[At(i, x)].node = ns[At(j, z)]
        BY <1>2, <1>3, <3>1
      <4>2. At(j, z) < At(j, y)
        BY <2>3, <4>1
      <4> QED BY <1>3, <4>2
    <3> QED BY <2>1, <2>3, <3>1
  <2> QED BY <1>5, <2>1, <2>2, <2>3 DEF InSync
<1>10. InSync(fs, ms, q, b)
  BY <1>7, <1>8, <1>9 DEF InSync
<1> QED BY <1>10 DEF q


----------------------------------------------------------------------------
\* The nodes of the file, step by step.

\* Where a Reboot request of the session may be waiting for its end.
RebootPoint == {"messages", "loop", "tc_remove", "rm_mid", "end"}

RebootDue == "reboot" \in end_session

\* The keys of saved M events are used up: they are those of no other request
\* and no ScheduleInform that is still to come.
SyncInv ==
  /\ \A n \in Filed : n.code \in {"M_SCHEDULEINFORM", "M_REBOOT"} => n.key \in used
  /\ \A n \in Filed : n.code = "M_SCHEDULEINFORM" => n.key \notin scheduled
  /\ RebootDue => pc \in RebootPoint
  /\ Single(backup.evs)
  /\ pc = "load_event" =>
       loaded <= Len(backup.evs) /\ \A e \in Listed : e.node # NoNode
  /\ pc # "down" =>
       InSync(events, backup.evs,
              IF pc = "load_event" THEN loaded ELSE Len(backup.evs), RebootDue)

\* What a step leaves alone while the daemon runs.
Steady ==
  /\ pc \notin {"down", "load_event"} /\ pc' \notin {"down", "load_event"}
  /\ used \subseteq used' /\ scheduled' \cap used \subseteq scheduled
  /\ RebootDue' <=> RebootDue
  /\ RebootDue' => pc' \in RebootPoint

\* What cwmp_add_event does when it adds an event.
SyncAdds ==
  /\ ~RebootDue
  /\ \E e \in Event, save \in BOOLEAN :
       /\ ~(e.code \in SingleCode /\ HasCode(e.code)) /\ e.code # "M_REBOOT"
       /\ e.code = "M_SCHEDULEINFORM" => e.key \in scheduled /\ e.key \notin scheduled'
       /\ e.node = IF save THEN [code |-> e.code, key |-> e.key, mid |-> e.mid]
                           ELSE NoNode
       /\ With(events, e, events')
       /\ IF save THEN With(backup.evs, e.node, backup'.evs)
                  ELSE backup'.evs = backup.evs

\* One turn of cwmp_remove_event.
SyncRemoves ==
  \E i \in 1..Len(events) :
    /\ Without(events, i, events')
    /\ backup'.evs = RemoveFirst(backup.evs, events[i].node)

\* The process ends or its lists are cleared.
SyncWipes ==
  /\ events' = <<>> /\ end_session' = {} /\ scheduled' = {} /\ used' = used
  /\ \/ pc' = "down" /\ (backup'.evs = backup.evs \/ backup'.evs = <<>>)
     \/ pc' = "bootstrap" /\ backup'.evs = <<>>

SyncStep ==
  \/ Steady /\ (KeepsEvents \/ SyncAdds \/ SyncRemoves)
  \/ SyncWipes \/ BackupInit \/ LoadEvent \/ BackupInitDone
  \/ \E k \in Keys : HandleReboot(k)

\* cwmp_add_event is such a step.
LEMMA AddEventSyncs ==
  ASSUME NEW code \in Code, NEW key \in KeyOrNone, NEW m \in Nat,
         NEW save \in BOOLEAN, backup \in Backup, events \in Seq(Event),
         cwmp_add_event(code, key, m, save), ~RebootDue, code # "M_REBOOT",
         code = "M_SCHEDULEINFORM" => key \in scheduled /\ key \notin scheduled'
  PROVE  KeepsEvents \/ SyncAdds
<1>1. CASE UNCHANGED <<events, backup>>
  BY <1>1 DEF KeepsEvents
<1>2. ASSUME NEW e \in Event,
             ~(code \in SingleCode /\ HasCode(code)),
             e.code = code, e.key = key, e.mid = m,
             e.node = IF save THEN [code |-> code, key |-> key, mid |-> m]
                              ELSE NoNode,
             With(events, e, events'),
             IF save THEN With(backup.evs, e.node, backup'.evs)
                     ELSE backup' = backup
      PROVE  SyncAdds
  <2>1. IF save THEN With(backup.evs, e.node, backup'.evs)
                ELSE backup'.evs = backup.evs
    BY <1>2
  <2> QED BY <1>2, <2>1, Zenon DEF SyncAdds
<1> QED BY <1>1, <1>2, AddEventCases

\* Every step of the daemon is one of those.
LEMMA NextSyncs ==
  TypeInv /\ CurrentKnown /\ SyncInv /\ Next => SyncStep
<1> SUFFICES ASSUME TypeInv, CurrentKnown, SyncInv, Next PROVE SyncStep
  OBVIOUS
<1> USE DEF session, locals, queues, observed
<1>0. /\ cur.key \in KeyOrNone /\ NoKey \in KeyOrNone /\ method_id \in Nat
      /\ backup \in Backup /\ events \in Seq(Event) /\ 0 \in Nat
      /\ {"BOOTSTRAP", "BOOT", "PERIODIC", "SCHEDULED", "VALUE_CHANGE",
          "TRANSFER_COMPLETE"} \cup UbusCode
            \subseteq Code \ {"M_REBOOT", "M_SCHEDULEINFORM"}
      /\ MEvent[cur.kind] \in Code \ {"M_REBOOT", "M_SCHEDULEINFORM"}
      /\ "M_SCHEDULEINFORM" \in Code \ {"M_REBOOT"}
  BY DEF Code, UbusCode, SingleCode, MultipleCode, KeyOrNone, TypeInv, TypeOK,
         MEvent, Kind
<1>01. RebootDue => pc \in RebootPoint
  BY DEF SyncInv
<1>02. pc \notin RebootPoint => ~RebootDue
  BY <1>01
<1>1. CASE Startup
  <2>1. CASE ConfigLoadSame
    <3>1. Steady
      BY <1>02, <2>1 DEF Steady, RebootPoint, RebootDue, ConfigLoadSame, Return
    <3> QED BY <2>1, <3>1 DEF SyncStep, KeepsEvents, ConfigLoadSame
  <2>2. CASE BackupAddAcsUrl
    BY <2>2 DEF SyncStep, SyncWipes, BackupAddAcsUrl, backup_add_acsurl, NoBackup
  <2>3. CASE AddBootstrap \/ StartBoot \/ StartGetRpcMethod
    <3>1. Steady /\ ~RebootDue
      BY <1>02, <2>3
         DEF Steady, RebootPoint, RebootDue, AddBootstrap, StartBoot,
             StartGetRpcMethod, Return
    <3>2. KeepsEvents \/ SyncAdds
      BY <1>0, <2>3, <3>1, AddEventSyncs DEF AddBootstrap, StartBoot, StartGetRpcMethod
    <3> QED BY <3>1, <3>2 DEF SyncStep
  <2> QED BY <1>1, <2>1, <2>2, <2>3 DEF Startup, SyncStep
<1>2. CASE Callbacks
  <2>1. ASSUME \/ \E t \in timers : cwmp_do_inform(t)
               \/ \E url \in Urls : Reload(url)
               \/ \E t \in transfers :
                    LaunchFails(t) \/ \E fault \in BOOLEAN : Launch(t, fault)
        PROVE  Steady /\ KeepsEvents
    BY <1>02, <2>1
       DEF Steady, RebootPoint, RebootDue, KeepsEvents, cwmp_do_inform, Reload,
           LaunchFails, Launch
  <2>2. CASE ScheduledInformDone
    <3>1. Steady /\ ~RebootDue
      BY <1>02, <2>2 DEF Steady, RebootPoint, RebootDue, ScheduledInformDone
    <3>2. cur.key \in scheduled /\ cur.key \notin scheduled'
      BY <2>2 DEF CurrentKnown, ScheduledInformDone
    <3>3. KeepsEvents \/ SyncAdds
      BY <1>0, <2>2, <3>1, <3>2, AddEventSyncs DEF ScheduledInformDone
    <3> QED BY <3>1, <3>3 DEF SyncStep
  <2>3. ASSUME \/ \E k \in scheduled : ScheduledInform(k)
               \/ \E code \in InformCodes : cwmp_connection_request(code)
               \/ \E active \in BOOLEAN : Notify(active)
               \/ cwmp_periodic_inform
        PROVE  Steady /\ (KeepsEvents \/ SyncAdds)
    <3>1. Steady /\ ~RebootDue
      BY <1>02, <2>3
         DEF Steady, RebootPoint, RebootDue, ScheduledInform,
             cwmp_connection_request, Notify, cwmp_periodic_inform
    <3>2. KeepsEvents \/ SyncAdds
      BY <1>0, <2>3, <3>1, AddEventSyncs, StimuliAssumption
         DEF ScheduledInform, cwmp_connection_request, Notify, cwmp_periodic_inform
    <3> QED BY <3>1, <3>2
  <2> QED BY <1>2, <2>1, <2>2, <2>3 DEF Callbacks, SyncStep
<1>3. CASE Transfer
  <2>1. CASE \/ LaunchRemove \/ LaunchAddTransferComplete \/ LaunchFault
             \/ LaunchComplete
    <3>1. KeepsEvents
      BY <1>0, <2>1
         DEF KeepsEvents, LaunchRemove, LaunchAddTransferComplete, LaunchFault,
             LaunchComplete, backup_remove_transfer,
             backup_add_transfer_complete, backup_update_fault,
             backup_update_complete_time, Backup
    <3>2. Steady
      BY <1>02, <2>1
         DEF Steady, RebootPoint, RebootDue, LaunchRemove,
             LaunchAddTransferComplete, LaunchFault, LaunchComplete
    <3> QED BY <3>1, <3>2 DEF SyncStep
  <2>2. CASE LaunchAddEvent \/ LaunchAddMEvent
    <3>1. Steady /\ ~RebootDue
      BY <1>02, <2>2
         DEF Steady, RebootPoint, RebootDue, LaunchAddEvent, LaunchAddMEvent
    <3>2. KeepsEvents \/ SyncAdds
      BY <1>0, <2>2, <3>1, AddEventSyncs DEF LaunchAddEvent, LaunchAddMEvent
    <3> QED BY <3>1, <3>2 DEF SyncStep
  <2>3. ASSUME NEW status \in ApplyStatus, LaunchApply(status)
        PROVE  SyncStep
    <3>1. CASE status = "exit"
      BY <2>3, <3>1 DEF SyncStep, SyncWipes, LaunchApply, ProcessGone
    <3>2. CASE status # "exit"
      BY <1>02, <2>3, <3>2
         DEF SyncStep, Steady, RebootPoint, RebootDue, KeepsEvents, LaunchApply
    <3> QED BY <3>1, <3>2
  <2> QED BY <1>3, <2>1, <2>2, <2>3 DEF Transfer
<1>4. CASE Session
  <2>1. CASE RemoveAfterInform \/ RemoveAfterTransferComplete
    <3>1. Steady
      BY <1>02, <2>1
         DEF Steady, RebootPoint, RebootDue, RemoveAfterInform,
             RemoveAfterTransferComplete
    <3>2. SyncRemoves
      BY <1>0, <2>1, RemoveEventCases
         DEF SyncRemoves, RemoveAfterInform, RemoveAfterTransferComplete
    <3> QED BY <3>1, <3>2 DEF SyncStep
  <2>2. CASE \/ ClearNotifications \/ RemoveMidDone \/ HandleMessages
             \/ EndReload \/ EndPlain \/ SessionSuccess
    <3>1. Steady
      BY <1>02, <2>2
         DEF Steady, RebootPoint, RebootDue, ClearNotifications, RemoveMidDone,
             HandleMessages, EndReload, EndPlain, SessionSuccess
    <3>2. KeepsEvents
      BY <2>2
         DEF KeepsEvents, ClearNotifications, RemoveMidDone, HandleMessages,
             EndReload, EndPlain, SessionSuccess
    <3> QED BY <3>1, <3>2 DEF SyncStep
  <2>3. CASE backup_remove_transfer_complete
    <3>1. KeepsEvents
      BY <1>0, <2>3
         DEF KeepsEvents, backup_remove_transfer_complete,
             backup_remove_first_transfer_complete, Backup
    <3>2. Steady
      BY <2>3 DEF Steady, RebootPoint, RebootDue, backup_remove_transfer_complete
    <3> QED BY <3>1, <3>2 DEF SyncStep
  <2>4. CASE EndFactoryReset \/ EndReboot
    BY <2>4 DEF SyncStep, SyncWipes, EndFactoryReset, EndReboot, ProcessGone, NoBackup
  <2>5. CASE cwmp_retry_session
    <3>1. Steady
      BY <1>02, <2>5 DEF Steady, RebootPoint, RebootDue, cwmp_retry_session
    <3>2. KeepsEvents \/ SyncRemoves
      <4>1. CASE AnyRemovable("NO_RETRY", 0)
        BY <1>0, <2>5, <4>1, RemoveEventCases DEF SyncRemoves, cwmp_retry_session
      <4>2. CASE ~AnyRemovable("NO_RETRY", 0)
        BY <2>5, <4>2 DEF cwmp_retry_session, KeepsEvents
      <4> QED BY <4>1, <4>2
    <3> QED BY <3>1, <3>2 DEF SyncStep
  <2> QED BY <1>4, <2>1, <2>2, <2>3, <2>4, <2>5 DEF Session
<1>5. CASE AcsAnswers \/ EmptyMessage
  <2>1. ASSUME NEW hold \in BOOLEAN,
               \/ InformAnswered(hold) \/ TransferCompleteAnswered(hold)
               \/ GetRpcMethodsAnswered(hold)
        PROVE  Steady /\ KeepsEvents
    BY <1>02, <2>1
       DEF Steady, RebootPoint, RebootDue, KeepsEvents, InformAnswered,
           TransferCompleteAnswered, GetRpcMethodsAnswered,
           SendsTransferComplete, SendsGetRpcMethods
  <2>2. CASE EmptyMessage
    BY <2>2 DEF SyncStep, Steady, RebootPoint, RebootDue, KeepsEvents, EmptyMessage
  <2> QED BY <1>5, <2>1, <2>2 DEF AcsAnswers, SyncStep
<1>6. CASE AcsRequests
  <2>1. ASSUME HandleFactoryReset \/ \E url \in Urls : HandleSetUrl(url)
        PROVE  Steady /\ KeepsEvents
    BY <2>1
       DEF Steady, RebootPoint, RebootDue, KeepsEvents, HandleFactoryReset,
           HandleSetUrl
  <2>2. ASSUME NEW k \in Keys, HandleScheduleInform(k)
        PROVE  Steady /\ KeepsEvents
    BY <2>2
       DEF Steady, RebootPoint, RebootDue, KeepsEvents, HandleScheduleInform,
           FreshKey
  <2>3. ASSUME NEW k \in Keys, NEW r \in Requests, HandleTransfer(r, k)
        PROVE  Steady /\ KeepsEvents
    <3>1. KeepsEvents
      BY <1>0, <2>3 DEF KeepsEvents, HandleTransfer, backup_add_transfer, Backup
    <3>2. Steady
      BY <2>3 DEF Steady, RebootPoint, RebootDue, HandleTransfer
    <3> QED BY <3>1, <3>2
  <2> QED BY <1>6, <2>1, <2>2, <2>3 DEF AcsRequests, SyncStep
<1>7. CASE Failures
  <2>1. CASE ExchangeFails \/ Fault8005
    BY <1>02, <2>1
       DEF SyncStep, Steady, RebootPoint, RebootDue, KeepsEvents, ExchangeFails,
           Fault8005, Exchanging, SendsTransferComplete, SendsGetRpcMethods
  <2>2. CASE ConfigLoadFails \/ Crash \/ CrashInSave
    BY <2>2
       DEF SyncStep, SyncWipes, ConfigLoadFails, Crash, CrashInSave,
           ProcessGone, NoBackup
  <2> QED BY <1>7, <2>1, <2>2 DEF Failures
<1> QED BY <1>1, <1>2, <1>3, <1>4, <1>5, <1>6, <1>7 DEF Next


\* An event is added: its node stands for no event that has one.
LEMMA SyncAddsPreserves ==
  ASSUME TypeInv, OwnerInv, NodeInv, TwinInv', SyncInv, Steady, SyncAdds
  PROVE  SyncInv'
<1>1. PICK e \in Event, save \in BOOLEAN :
       /\ ~(e.code \in SingleCode /\ HasCode(e.code)) /\ e.code # "M_REBOOT"
       /\ e.code = "M_SCHEDULEINFORM" => e.key \in scheduled /\ e.key \notin scheduled'
       /\ e.node = IF save THEN [code |-> e.code, key |-> e.key, mid |-> e.mid]
                           ELSE NoNode
       /\ With(events, e, events')
       /\ IF save THEN With(backup.evs, e.node, backup'.evs)
                  ELSE backup'.evs = backup.evs
  BY DEF SyncAdds
<1>2. pc \notin {"down", "load_event"} /\ pc' \notin {"down", "load_event"} /\ ~RebootDue
      /\ ~RebootDue' /\ used \subseteq used' /\ scheduled' \cap used \subseteq scheduled
  BY DEF Steady, SyncAdds
<1>3. InSync(events, backup.evs, Len(backup.evs), FALSE)
  <2>1. InSync(events, backup.evs, Len(backup.evs), RebootDue)
    BY <1>2 DEF SyncInv
  <2>2. RebootDue = FALSE
    BY <1>2 DEF RebootDue
  <2> QED BY <2>1, <2>2
<1>4. CASE ~save
  <2>1. e.node = NoNode /\ With(events, e, events') /\ backup'.evs = backup.evs
    BY <1>1, <1>4
  <2>2. InSync(events', backup'.evs, Len(backup'.evs), FALSE)
    BY <1>3, <2>1, SyncUnsaved
  <2>3. RebootDue' = FALSE
    BY <1>2 DEF RebootDue
  <2>4. InSync(events', backup'.evs, Len(backup'.evs), RebootDue')
    BY <2>2, <2>3
  <2>5. Filed' = Filed /\ Single(backup'.evs)
    BY <2>1 DEF Filed, SyncInv
  <2> QED BY <1>2, <2>4, <2>5 DEF SyncInv
<1>5. CASE save
  <2> DEFINE n == e.node
  <2>1. /\ n = [code |-> e.code, key |-> e.key, mid |-> e.mid]
        /\ With(events, e, events') /\ With(backup.evs, n, backup'.evs)
    BY <1>1, <1>5
  <2>2. n.code = e.code /\ n.key = e.key /\ n # NoNode
    <3>1. e.code # "none"
      BY DEF Event, Code, SingleCode, MultipleCode
    <3>2. n.code = e.code /\ n.key = e.key /\ NoNode.code = "none"
      BY <2>1 DEF NoNode
    <3> QED BY <3>1, <3>2
  <2> HIDE DEF n
  <2>3. /\ Len(backup.evs) \in Nat /\ Len(backup'.evs) = Len(backup.evs) + 1
        /\ backup'.evs[Len(backup.evs) + 1] = n
        /\ \A j \in 1..Len(backup.evs) : backup'.evs[j] = backup.evs[j]
    BY <2>1 DEF With
  <2>4. ASSUME NEW x \in Filed
        PROVE  ~SameEvent(x, n)
    <3> SUFFICES ASSUME SameEvent(x, n) PROVE FALSE
      OBVIOUS
    <3>1. PICK j \in 1..Len(backup.evs) : x = backup.evs[j]
      BY DEF Filed, Elements
    <3>2. x.code = e.code /\ (e.code \in SingleCode \/ x.key = e.key)
      BY <2>2 DEF SameEvent
    <3>3. CASE e.code \in SingleCode
      <4>1. PICK i \in Stored(events) : events[i].node = x
        BY <1>3, <3>1 DEF InSync
      <4>2. i \in 1..Len(events) /\ events[i].node # NoNode /\ events[i] \in Listed
        BY DEF Stored, Listed, Elements
      <4>3. events[i].code = e.code
        BY <3>2, <4>1, <4>2 DEF NodeInv
      <4> QED BY <1>1, <3>3, <4>2, <4>3 DEF HasCode
    <3>4. CASE IsM(e)
      <4>1. IsM(x) /\ IsM(n) /\ x.key = n.key
        BY <2>2, <3>2, <3>4 DEF IsM, SingleCode
      <4>2. /\ j \in 1..Len(backup'.evs) /\ Len(backup.evs) + 1 \in 1..Len(backup'.evs)
            /\ j # Len(backup.evs) + 1
        BY <2>3
      <4>3. backup'.evs[j] = x /\ backup'.evs[Len(backup.evs) + 1] = n
        BY <2>3, <3>1
      <4>4. ByKey(backup'.evs)
        BY DEF TwinInv
      <4> QED BY <4>1, <4>2, <4>3, <4>4 DEF ByKey
    <3>5. CASE e.code = "M_SCHEDULEINFORM"
      <4>1. x.key = e.key
        BY <3>2, <3>5 DEF SingleCode
      <4>2. x.key \notin scheduled
        BY <3>2, <3>5 DEF SyncInv
      <4> QED BY <1>1, <3>5, <4>1, <4>2
    <3>6. e.code \in Code
      BY DEF Event
    <3> QED BY <1>1, <3>3, <3>4, <3>5, <3>6 DEF Code, MultipleCode, IsM
  <2>5. Single(backup'.evs)
    BY <2>1, <2>4, WithSingle DEF SyncInv, Filed
  <2>6. InSync(events', backup'.evs, Len(backup'.evs), FALSE)
    <3>1. e.node # NoNode /\ With(backup.evs, e.node, backup'.evs)
      BY <2>1, <2>2 DEF n
    <3> QED BY <1>3, <2>1, <2>5, <3>1, SyncSaved
  <2>7. InSync(events', backup'.evs, Len(backup'.evs), RebootDue')
    <3>1. RebootDue' = FALSE
      BY <1>2 DEF RebootDue
    <3> QED BY <2>6, <3>1
  <2>8. Filed' = Filed \cup {n}
    BY <2>1, WithElements DEF Filed
  <2>9. e.code = "M_SCHEDULEINFORM" => e.key \in used
    BY <1>1 DEF OwnerInv
  <2>10. ASSUME NEW x \in Filed', x.code \in {"M_SCHEDULEINFORM", "M_REBOOT"}
         PROVE  x.key \in used' /\ (x.code = "M_SCHEDULEINFORM" => x.key \notin scheduled')
    <3>1. CASE x = n
      BY <1>1, <1>2, <2>2, <2>9, <2>10, <3>1
    <3>2. CASE x \in Filed
      <4>1. x.key \in used /\ (x.code = "M_SCHEDULEINFORM" => x.key \notin scheduled)
        BY <2>10, <3>2 DEF SyncInv
      <4> QED BY <1>2, <4>1
    <3> QED BY <2>8, <3>1, <3>2
  <2> QED BY <1>2, <2>5, <2>7, <2>10 DEF SyncInv
<1> QED BY <1>4, <1>5

\* What a steady step that adds no node leaves of the keys on file.
LEMMA SyncKeys ==
  ASSUME SyncInv, Steady, Filed' \subseteq Filed
  PROVE  /\ \A n \in Filed' : n.code \in {"M_SCHEDULEINFORM", "M_REBOOT"} => n.key \in used'
         /\ \A n \in Filed' : n.code = "M_SCHEDULEINFORM" => n.key \notin scheduled'
         /\ RebootDue' => pc' \in RebootPoint
         /\ pc' \notin {"down", "load_event"} /\ pc \notin {"down", "load_event"}
         /\ RebootDue' = RebootDue
<1>1. /\ pc \notin {"down", "load_event"} /\ pc' \notin {"down", "load_event"}
      /\ used \subseteq used' /\ scheduled' \cap used \subseteq scheduled
      /\ (RebootDue' <=> RebootDue) /\ (RebootDue' => pc' \in RebootPoint)
  BY DEF Steady
<1>2. ASSUME NEW n \in Filed', n.code \in {"M_SCHEDULEINFORM", "M_REBOOT"}
      PROVE  n.key \in used' /\ (n.code = "M_SCHEDULEINFORM" => n.key \notin scheduled')
  <2>1. n.key \in used /\ (n.code = "M_SCHEDULEINFORM" => n.key \notin scheduled)
    BY <1>2 DEF SyncInv
  <2> QED BY <1>1, <2>1
<1>3. RebootDue' = RebootDue
  BY <1>1 DEF RebootDue
<1> QED BY <1>1, <1>2, <1>3

\* An event and its node are removed: mxmlDelete hits the right one.
LEMMA SyncRemovesPreserves ==
  ASSUME TypeInv, SyncInv, Steady, SyncRemoves
  PROVE  SyncInv'
<1>1. PICK i \in 1..Len(events) :
        /\ Without(events, i, events')
        /\ backup'.evs = RemoveFirst(backup.evs, events[i].node)
  BY DEF SyncRemoves
<1>2. pc \notin {"down", "load_event"} /\ backup.evs \in Seq(Node)
  BY DEF Steady, TypeInv, TypeOK, Backup
<1>3. InSync(events, backup.evs, Len(backup.evs), RebootDue) /\ Single(backup.evs)
  BY <1>2 DEF SyncInv
<1>4. CASE events[i].node = NoNode
  <2>1. NoNode \notin Filed
    <3>1. \A x \in Filed : x \in Node
      BY <1>2, ElementOfSeq DEF Filed, Elements
    <3>2. NoNode \notin Node
      BY DEF NoNode, Node, Code, SingleCode, MultipleCode
    <3> QED BY <3>1, <3>2
  <2>2. backup'.evs = backup.evs
    BY <1>1, <1>2, <1>4, <2>1, RemoveFirstElements DEF Filed, Elements
  <2>3. InSync(events', backup.evs, Len(backup.evs), RebootDue)
    BY <1>1, <1>3, <1>4, SyncForget
  <2>4. Filed' = Filed
    BY <2>2 DEF Filed
  <2>5. RebootDue' = RebootDue /\ pc' \notin {"down", "load_event"}
    BY <2>4, SyncKeys
  <2>6. InSync(events', backup'.evs, Len(backup'.evs), RebootDue')
    BY <2>2, <2>3, <2>5
  <2>7. Single(backup'.evs)
    BY <1>3, <2>2
  <2> QED BY <2>4, <2>5, <2>6, <2>7, SyncKeys DEF SyncInv
<1>5. CASE events[i].node # NoNode
  <2>1. i \in Stored(events)
    BY <1>5 DEF Stored
  <2>2. PICK k \in 1..Len(backup.evs) : events[i].node = backup.evs[k]
    BY <1>3, <2>1 DEF InSync
  <2>3. events[i].node \in Elements(backup.evs)
    BY <2>2 DEF Elements
  <2>4. PICK j \in 1..Len(backup.evs) :
          backup.evs[j] = events[i].node /\ Without(backup.evs, j, backup'.evs)
    BY <1>1, <1>2, <2>3, RemoveFirstElements
  <2>5. Single(backup'.evs)
    BY <1>3, <2>4, WithoutSingle
  <2>6. InSync(events', backup'.evs, Len(backup'.evs), RebootDue)
    BY <1>1, <1>3, <1>5, <2>4, SyncRemoved
  <2>7. Filed' \subseteq Filed
    BY <2>4, WithoutElements DEF Filed
  <2>8. RebootDue' = RebootDue /\ pc' \notin {"down", "load_event"}
    BY <2>7, SyncKeys
  <2>9. InSync(events', backup'.evs, Len(backup'.evs), RebootDue')
    BY <2>6, <2>8
  <2> QED BY <2>5, <2>7, <2>8, <2>9, SyncKeys DEF SyncInv
<1> QED BY <1>4, <1>5

\* Nothing is added or removed.
LEMMA SyncKeepsPreserves ==
  ASSUME SyncInv, Steady, KeepsEvents
  PROVE  SyncInv'
<1>1. events' = events /\ backup'.evs = backup.evs /\ Filed' = Filed
  BY DEF KeepsEvents, Filed
<1>2. RebootDue' = RebootDue /\ pc' \notin {"down", "load_event"} /\ pc \notin {"down", "load_event"}
  BY <1>1, SyncKeys
<1>3. InSync(events, backup.evs, Len(backup.evs), RebootDue) /\ Single(backup.evs)
  BY <1>2 DEF SyncInv
<1>4. InSync(events', backup'.evs, Len(backup'.evs), RebootDue') /\ Single(backup'.evs)
  BY <1>1, <1>2, <1>3
<1> QED BY <1>1, <1>2, <1>4, SyncKeys DEF SyncInv

\* With no entry and no node reached, there is nothing to agree on.
LEMMA SyncNothing ==
  ASSUME NEW ns, NEW b
  PROVE  InSync(<<>>, ns, 0, b)
<1>1. Stored(<<>>) = {} /\ 1..0 = {}
  BY EmptySeq DEF Stored
<1> QED BY <1>1 DEF InSync

\* The process ends or its lists are cleared.
LEMMA SyncWipesPreserves ==
  ASSUME TypeInv, SyncInv, SyncWipes
  PROVE  SyncInv'
<1>1. /\ events' = <<>> /\ end_session' = {} /\ scheduled' = {} /\ used' = used
      /\ \/ pc' = "down" /\ (backup'.evs = backup.evs \/ backup'.evs = <<>>)
         \/ pc' = "bootstrap" /\ backup'.evs = <<>>
  BY DEF SyncWipes
<1>2. ~RebootDue'
  BY <1>1 DEF RebootDue
<1>3. ASSUME backup'.evs = <<>>
      PROVE  Filed' = {} /\ Single(backup'.evs) /\ Len(backup'.evs) = 0
  BY <1>3, EmptySeq DEF Filed, Elements, Single
<1>4. Filed' \subseteq Filed /\ Single(backup'.evs)
  BY <1>1, <1>3 DEF Filed, SyncInv
<1>5. ASSUME pc' # "down"
      PROVE  pc' # "load_event" /\ InSync(events', backup'.evs, Len(backup'.evs), RebootDue')
  BY <1>1, <1>3, <1>5, SyncNothing
<1>6. \A n \in Filed' : n.code \in {"M_SCHEDULEINFORM", "M_REBOOT"} => n.key \in used'
  BY <1>1, <1>4 DEF SyncInv
<1>7. pc' # "load_event"
  BY <1>1
<1> QED BY <1>1, <1>2, <1>4, <1>5, <1>6, <1>7 DEF SyncInv


\* backup_init starts with no entry and no node reached.
LEMMA SyncStarts ==
  ASSUME TypeInv, TwinInv, SyncInv, BackupInit
  PROVE  SyncInv'
<1> USE DEF session, locals, queues, observed
<1>1. /\ pc = "down" /\ pc' = "load_event"
      /\ UNCHANGED <<backup, events, scheduled, end_session, used, loaded>>
  BY DEF BackupInit
<1>2. events = <<>> /\ loaded = 0
  BY <1>1 DEF TwinInv
<1>3. ~RebootDue'
  BY <1>1 DEF SyncInv, RebootDue, RebootPoint
<1>4. Filed' = Filed /\ Single(backup'.evs)
  BY <1>1 DEF Filed, SyncInv
<1>5. /\ InSync(events', backup'.evs, loaded', RebootDue')
      /\ Listed' = {} /\ loaded' <= Len(backup'.evs)
  <2>1. InSync(<<>>, backup'.evs, 0, RebootDue')
    BY SyncNothing
  <2>2. events' = <<>> /\ loaded' = 0
    BY <1>1, <1>2
  <2>3. Len(backup.evs) \in Nat
    BY LenProperties DEF TypeInv, TypeOK, Backup
  <2> QED BY <2>1, <2>2, <2>3, <1>1, EmptySeq DEF Listed, Elements
<1> QED BY <1>1, <1>3, <1>4, <1>5 DEF SyncInv

\* backup_load_event adds the entry of the next node: its guard against a
\* second entry of one code is never the reason that a node has none.
LEMMA SyncLoads ==
  ASSUME TypeInv, NodeInv, SyncInv, LoadEvent
  PROVE  SyncInv'
<1> USE DEF session, locals, queues, observed
<1> DEFINE n == backup.evs[loaded + 1]
<1>0. backup.evs \in Seq(Node) /\ Len(backup.evs) \in Nat /\ loaded \in Nat
  BY LenProperties DEF TypeInv, TypeOK, Backup
<1>1. /\ pc = "load_event" /\ pc' = "load_event" /\ loaded' = loaded + 1
      /\ UNCHANGED <<backup, scheduled, end_session, used>>
  BY DEF LoadEvent
<1>2. loaded + 1 \in 1..Len(backup.evs) /\ n \in Filed /\ n \in Node
  BY LoadEventCases
<1>3. /\ \A e \in Listed : e.node # NoNode
      /\ InSync(events, backup.evs, loaded, RebootDue) /\ Single(backup.evs)
  BY <1>1 DEF SyncInv
<1>4. RebootDue = FALSE /\ RebootDue' = FALSE
  BY <1>1 DEF SyncInv, RebootDue, RebootPoint
<1>5. n # NoNode
  BY <1>2 DEF NoNode, Node, Code, SingleCode, MultipleCode
<1>6. ~(n.code \in SingleCode /\ HasCode(n.code))
  <2> SUFFICES ASSUME n.code \in SingleCode, HasCode(n.code) PROVE FALSE
    OBVIOUS
  <2>1. PICK i \in 1..Len(events) : events[i].code = n.code
    BY DEF HasCode
  <2>2. events[i] \in Listed /\ events[i].node # NoNode
    BY <1>3 DEF Listed, Elements
  <2>3. events[i].node.code = n.code
    BY <2>1, <2>2 DEF NodeInv
  <2>4. i \in Stored(events)
    BY <2>2 DEF Stored
  <2>5. PICK j \in 1..loaded : events[i].node = backup.evs[j]
    BY <1>3, <2>4 DEF InSync
  <2>6. SameEvent(backup.evs[j], n)
    BY <2>3, <2>5 DEF SameEvent
  <2>7. j \in 1..Len(backup.evs) /\ j # loaded + 1
    BY <1>0, <1>2
  <2> QED BY <1>2, <1>3, <2>6, <2>7 DEF Single
<1>7. PICK e \in Event : e.node = n /\ With(events, e, events')
  BY <1>6, LoadEventCases
<1>8. InSync(events', backup.evs, loaded + 1, FALSE)
  <2>1. loaded + 1 <= Len(backup.evs)
    BY <1>0, <1>2
  <2>2. InSync(events, backup.evs, loaded, FALSE)
    BY <1>3, <1>4
  <2>3. e.node = backup.evs[loaded + 1] /\ e.node # NoNode
    BY <1>5, <1>7
  <2> HIDE DEF n
  <2> QED BY <1>0, <1>3, <1>7, <2>1, <2>2, <2>3, SyncNext
<1>9. \A x \in Listed' : x.node # NoNode
  <2>1. Listed' = Listed \cup {e}
    BY <1>7, WithElements DEF Listed
  <2> QED BY <1>3, <1>5, <1>7, <2>1
<1> HIDE DEF n
<1>10. /\ InSync(events', backup'.evs, loaded', RebootDue')
       /\ Single(backup'.evs) /\ Filed' = Filed
       /\ loaded' <= Len(backup'.evs)
  <2>1. backup' = backup /\ loaded' = loaded + 1 /\ loaded + 1 <= Len(backup.evs)
    BY <1>0, <1>1, <1>2
  <2>2. InSync(events', backup'.evs, loaded', RebootDue')
    BY <1>4, <1>8, <2>1
  <2> QED BY <1>3, <2>1, <2>2 DEF Filed
<1> QED BY <1>1, <1>4, <1>9, <1>10 DEF SyncInv

\* backup_init ends once every node has been reached.
LEMMA SyncLoaded ==
  ASSUME SyncInv, BackupInitDone
  PROVE  SyncInv'
<1> USE DEF session, locals, queues, observed
<1>1. /\ pc = "load_event" /\ pc' = "config_load" /\ loaded = Len(backup.evs)
      /\ UNCHANGED <<events, scheduled, end_session, used>>
  BY DEF BackupInitDone
<1>2. backup'.evs = backup.evs
  BY DEF BackupInitDone, backup_update_all_complete_time
<1>3. InSync(events, backup.evs, loaded, RebootDue) /\ Single(backup.evs)
  BY <1>1 DEF SyncInv
<1>4. RebootDue' = RebootDue /\ ~RebootDue
  BY <1>1 DEF SyncInv, RebootDue, RebootPoint
<1>5. /\ InSync(events', backup'.evs, Len(backup'.evs), RebootDue')
      /\ Single(backup'.evs) /\ Filed' = Filed
  BY <1>1, <1>2, <1>3, <1>4 DEF Filed
<1> QED BY <1>1, <1>4, <1>5 DEF SyncInv

\* xml_handle_reboot saves a node that no list entry will delete.
LEMMA SyncReboots ==
  ASSUME TypeInv, OwnerInv, SyncInv, NEW k \in Keys, HandleReboot(k)
  PROVE  SyncInv'
<1> USE DEF session, locals, queues, observed
<1> DEFINE n == [code |-> "M_REBOOT", key |-> k, mid |-> 0]
<1>0. backup.evs \in Seq(Node)
  BY DEF TypeInv, TypeOK, Backup
<1>1. /\ pc = "messages" /\ pc' = "messages" /\ k \notin used /\ used' = used \cup {k}
      /\ end_session' = end_session \cup {"reboot"}
      /\ UNCHANGED <<events, scheduled>>
  BY DEF HandleReboot, FreshKey
<1>2. n \in Node /\ n.code = "M_REBOOT" /\ n.key = k
  BY DEF Node, Code, MultipleCode
<1>3. With(backup.evs, n, backup'.evs)
  <2>1. backup'.evs = Append(backup.evs, n)
    BY DEF HandleReboot, backup_add_event, TypeInv, TypeOK, Backup
  <2> QED BY <1>0, <1>2, <2>1, AppendWith
<1> HIDE DEF n
<1>4. InSync(events, backup.evs, Len(backup.evs), RebootDue) /\ Single(backup.evs)
  BY <1>1 DEF SyncInv
<1>5. \A x \in Elements(backup.evs) : ~SameEvent(x, n)
  <2> SUFFICES ASSUME NEW x \in Elements(backup.evs), SameEvent(x, n) PROVE FALSE
    OBVIOUS
  <2>1. x.code = "M_REBOOT" /\ x.key = k
    BY <1>2 DEF SameEvent, SingleCode
  <2> QED BY <1>1, <2>1 DEF SyncInv, Filed
<1>6. Single(backup'.evs)
  BY <1>3, <1>4, <1>5, WithSingle
<1>7. RebootDue' = TRUE
  BY <1>1 DEF RebootDue
<1>8. InSync(events', backup'.evs, Len(backup'.evs), RebootDue')
  BY <1>1, <1>2, <1>3, <1>4, <1>6, <1>7, SyncReboot
<1>9. Filed' = Filed \cup {n}
  BY <1>3, WithElements DEF Filed
<1>10. ASSUME NEW x \in Filed', x.code \in {"M_SCHEDULEINFORM", "M_REBOOT"}
       PROVE  x.key \in used' /\ (x.code = "M_SCHEDULEINFORM" => x.key \notin scheduled')
  <2>1. CASE x = n
    BY <1>1, <1>2, <2>1
  <2>2. CASE x \in Filed
    BY <1>1, <1>10, <2>2 DEF SyncInv
  <2> QED BY <1>9, <2>1, <2>2
<1> QED BY <1>1, <1>6, <1>8, <1>10 DEF SyncInv, RebootPoint


\* List and nodes stay in step in every reachable state.
LEMMA SyncInvariance == Spec => []SyncInv
<1>1. Init => SyncInv
  <2> SUFFICES ASSUME Init PROVE SyncInv
    OBVIOUS
  <2>1. backup.evs = <<>> /\ pc = "down" /\ end_session = {}
    BY DEF Init, NoBackup
  <2>2. Filed = {} /\ Single(backup.evs)
    BY <2>1, EmptySeq DEF Filed, Elements, Single
  <2> QED BY <2>1, <2>2 DEF SyncInv, RebootDue
<1>2. /\ FullInv /\ NodeInv /\ TwinInv /\ TwinInv' /\ SyncInv /\ [Next]_vars
      => SyncInv'
  <2> SUFFICES ASSUME TypeInv, CurrentKnown, OwnerInv, NodeInv, TwinInv, TwinInv',
                      SyncInv, [Next]_vars
               PROVE  SyncInv'
    BY DEF FullInv, LedgerInv
  <2>1. CASE Next
    <3>1. SyncStep
      BY <2>1, NextSyncs
    <3> QED BY <3>1, SyncAddsPreserves, SyncRemovesPreserves, SyncKeepsPreserves,
               SyncWipesPreserves, SyncStarts, SyncLoads, SyncLoaded, SyncReboots
            DEF SyncStep
  <2>2. CASE UNCHANGED vars
    <3>1. UNCHANGED <<backup, pc, events, loaded, scheduled, used, end_session>>
      BY <2>2 DEF vars, session, locals, queues
    <3>2. Filed' = Filed /\ Listed' = Listed /\ RebootDue' = RebootDue
      BY <3>1 DEF Filed, Listed, RebootDue
    <3> QED BY <3>1, <3>2 DEF SyncInv
  <2> QED BY <2>1, <2>2
<1> QED BY <1>1, <1>2, LedgerInvariance, NewsInvariance, TwinInvariance, PTL DEF Spec

\* cwmp->events and the event nodes of the backup file stay in step, whatever
\* cwmp_add_event and cwmp_remove_event add and delete, through the restarts of
\* backup_load_event, and but for the M Reboot node of xml_handle_reboot: no
\* backup_node pointer dangles and no node is left behind (NodesInSync).
THEOREM NodesStayInSync == Spec => []NodesInSync
<1>1. TwinInv /\ SyncInv => NodesInSync
  <2> SUFFICES ASSUME TwinInv, SyncInv PROVE NodesInSync
    OBVIOUS
  <2>1. \A j, k \in 1..Len(backup.evs) : backup.evs[j] = backup.evs[k] => j = k
    BY SingleDistinct DEF SyncInv
  <2>2. pc = "down" => events = <<>>
    BY DEF TwinInv
  <2>3. ASSUME pc # "down"
        PROVE  /\ \A i \in Saved : \E j \in Reached : Tied(i, j)
               /\ \A i, l \in Saved, j, k \in Reached :
                    Tied(i, j) /\ Tied(l, k) /\ i < l => j < k
               /\ \A j \in Reached :
                    \/ \E i \in Saved : Tied(i, j)
                    \/ /\ backup.evs[j].code = "M_REBOOT" /\ "reboot" \in end_session
                       /\ \A i \in Saved, k \in Reached : Tied(i, k) => k < j
    <3> DEFINE r == IF pc = "load_event" THEN loaded ELSE Len(backup.evs)
    <3>1. InSync(events, backup.evs, r, RebootDue)
      BY <2>3 DEF SyncInv
    <3>2. Saved = Stored(events) /\ Reached = 1..r
      BY DEF Saved, Stored, Reached
    <3> HIDE DEF r
    <3> QED BY <3>1, <3>2 DEF InSync, Tied, RebootDue
  <2> QED BY <2>1, <2>2, <2>3 DEF NodesInSync
<1> QED BY <1>1, TwinInvariance, SyncInvariance, PTL


----------------------------------------------------------------------------
\* What an Inform announces and what it clears, restarts included.

\* An event or node that belongs to TransferCompletes, which a step must not
\* lose, is on file.
TcFiled == \E n \in Filed : n.code = "TRANSFER_COMPLETE"
Named(k) == \E n \in MFiled : n.key = k

\* Only M nodes are saved with a method_id; another event has one only if
\* backup_load_event carried it over from a node in front.
StrayInv ==
  /\ \A n \in Filed : n.mid # 0 => IsM(n)
  /\ \A e \in Listed : e.mid # 0 /\ ~IsM(e) => e.node \in behind
  /\ \A e \in Listed : e.code = "TRANSFER_COMPLETE" => e.node # NoNode
  /\ pc = "down" => mid = 0
  /\ pc = "load_event" => /\ behind = BehindId
                          /\ mid # 0 => \E l \in 1..loaded : backup.evs[l].mid # 0

\* The removal with this method_id takes events of the i-th TransferComplete.
Crosses(i, id) ==
  \/ backup.tcs[i].mid = id
  \/ \E e \in Listed : e.code = "TRANSFER_COMPLETE" /\ e.mid = id

\* One process gives out an id once, and the keys of the TransferCompletes that
\* the removal under way concerns are known.
ReportIds ==
  /\ \A i \in 1..Len(backup.tcs) : backup.tcs[i].mid # 0
  /\ pc # "down" =>
       /\ \A i \in 1..Len(backup.tcs) :
            backup.tcs[i].key \in inherited \/ backup.tcs[i].mid <= method_id
       /\ \A i, j \in 1..Len(backup.tcs) :
            backup.tcs[i].mid = backup.tcs[j].mid =>
              i = j \/ {backup.tcs[i].key, backup.tcs[j].key} \cap inherited # {}
  /\ pc = "tc_remove" => mid = backup.tcs[1].mid
  /\ pc = "rm_mid" =>
       /\ mid = 0 => Len(backup.tcs) = 0
       /\ \A i \in 1..Len(backup.tcs) :
            Crosses(i, mid) => backup.tcs[i].key \in shared

\* A TransferComplete has the nodes of its two events, or
\* cwmp_download_launch is adding them, or one of the two causes that
\* AnnouncesTransfers names has lost them.
Excused(k) == k \in shared \/ <<"x_event", k>> \in cut

NewsOf(i) ==
  \/ Excused(backup.tcs[i].key)
  \/ pc = "x_event" /\ i = Len(backup.tcs)
  \/ /\ TcFiled
     /\ \/ Named(backup.tcs[i].key)
        \/ <<"x_m_event", backup.tcs[i].key>> \in cut
        \/ pc = "x_m_event" /\ i = Len(backup.tcs)

AnnounceInv ==
  /\ StrayInv /\ ReportIds
  /\ \A i \in 1..Len(backup.tcs) : NewsOf(i)

\* A step that loses no node of a transfer and adds neither node nor event of
\* one or with a method_id.
KeepsNews ==
  /\ \A n \in Filed : n.code \in TransferCode => n \in Filed'
  /\ \A n \in Filed' : n \in Filed \/ n.mid = 0
  /\ \A e \in Listed' : e \in Listed \/ (e.mid = 0 /\ e.code \notin TransferCode)

\* The keys and ids of TransferCompletes stay.
KeepsReports ==
  /\ Len(backup'.tcs) = Len(backup.tcs)
  /\ \A i \in 1..Len(backup.tcs) : /\ backup'.tcs[i].key = backup.tcs[i].key
                                   /\ backup'.tcs[i].mid = backup.tcs[i].mid

\* ... and no piece of work on one starts or ends.
SteadyStep ==
  /\ KeepsNews /\ KeepsReports
  /\ UNCHANGED <<method_id, cut>>
  /\ pc \notin {"down", "x_event", "x_m_event"}
  /\ pc' \notin {"down", "load_event", "x_event", "x_m_event", "tc_remove", "rm_mid"}

\* The process ends, or forgets everything for a new ACS.
ForgetStep ==
  /\ events' = <<>> /\ cut \subseteq cut'
  /\ \/ pc' = "down" /\ mid' = 0
     \/ pc' = "bootstrap"
  /\ \/ backup'.evs = <<>> /\ backup'.tcs = <<>>
     \/ /\ pc' = "down" /\ UNCHANGED backup
        /\ pc \in {"x_event", "x_m_event"} => <<pc, cur.key>> \in cut'

AnnounceStep ==
  \/ SteadyStep \/ ForgetStep \/ BackupInit \/ LoadEvent
  \/ LaunchAddTransferComplete \/ LaunchAddEvent \/ LaunchAddMEvent
  \/ \E hold \in BOOLEAN : TransferCompleteAnswered(hold)
  \/ backup_remove_transfer_complete
  \/ RemoveAfterTransferComplete \/ RemoveMidDone

\* An untouched list keeps everything.
LEMMA SameKeepsNews == KeepsEvents => KeepsNews
BY DEF KeepsEvents, KeepsNews, Listed, Filed, Elements

\* So does cwmp_add_event without a method_id.
LEMMA AddKeepsNews ==
  ASSUME NEW code \in Code \ TransferCode, NEW key \in KeyOrNone,
         NEW save \in BOOLEAN, backup \in Backup, events \in Seq(Event),
         cwmp_add_event(code, key, 0, save)
  PROVE  KeepsNews
<1>1. CASE UNCHANGED <<events, backup>>
  BY <1>1, SameKeepsNews DEF KeepsEvents
<1>2. ASSUME NEW e \in Event, e.code = code, e.mid = 0,
             e.node = IF save THEN [code |-> code, key |-> key, mid |-> 0]
                              ELSE NoNode,
             With(events, e, events'),
             IF save THEN With(backup.evs, e.node, backup'.evs)
                     ELSE backup' = backup
      PROVE  KeepsNews
  <2>1. Listed' = Listed \cup {e}
    BY <1>2, WithElements DEF Listed
  <2>2. Filed' = IF save THEN Filed \cup {e.node} ELSE Filed
    BY <1>2, WithElements DEF Filed
  <2>3. save => e.node.mid = 0
    BY <1>2
  <2> QED BY <1>2, <2>1, <2>2, <2>3 DEF KeepsNews
<1> QED BY <1>1, <1>2, AddEventCases

\* And cwmp_remove_event where no TransferComplete has been answered.
LEMMA RemoveKeepsNews ==
  ASSUME NEW policy \in {"AFTER_INFORM", "NO_RETRY"}, NEW m, backup \in Backup,
         events \in Seq(Event), AnyRemovable(policy, m),
         RemoveOneEvent(policy, m), NodeInv
  PROVE  KeepsNews
<1>1. PICK e \in Event : Removable(e, policy, m) /\ Removes(e)
  BY RemoveEventRemoves
<1>2. e.code \notin TransferCode
  BY <1>1 DEF Removable, remove_policy, TransferCode
<1>3. e.node.code \notin TransferCode
  BY <1>1, <1>2 DEF NodeInv, Removes, NoNode, TransferCode
<1> QED BY <1>1, <1>2, <1>3 DEF Removes, KeepsNews

\* And the M Reboot node that goes to the file only.
LEMMA RebootKeepsNews ==
  ASSUME TypeInv, NEW k \in Keys, HandleReboot(k)
  PROVE  KeepsNews /\ backup'.tcs = backup.tcs
<1> DEFINE n == [code |-> "M_REBOOT", key |-> k, mid |-> 0]
<1>1. n \in Node /\ backup.evs \in Seq(Node) /\ UNCHANGED events /\ n.mid = 0
  BY DEF Node, Code, MultipleCode, TypeInv, TypeOK, Backup, HandleReboot
<1>2. backup'.evs = Append(backup.evs, n) /\ backup'.tcs = backup.tcs
  BY DEF HandleReboot, backup_add_event, TypeInv, TypeOK, Backup
<1> HIDE DEF n
<1>3. Filed' = Filed \cup {n} /\ Listed' = Listed
  BY <1>1, <1>2, AppendWith, WithElements DEF Filed, Listed
<1> QED BY <1>1, <1>2, <1>3 DEF KeepsNews


\* Every step is of those kinds.
LEMMA AnnounceSteps == TypeInv /\ NodeInv /\ Next => AnnounceStep
<1> SUFFICES ASSUME TypeInv, NodeInv, Next PROVE AnnounceStep
  OBVIOUS
<1> USE DEF session, locals, queues, observed
<1>0. /\ cur.key \in KeyOrNone /\ NoKey \in KeyOrNone
      /\ backup \in Backup /\ events \in Seq(Event)
      /\ {"BOOTSTRAP", "BOOT", "PERIODIC", "SCHEDULED", "VALUE_CHANGE",
          "M_SCHEDULEINFORM"} \cup UbusCode \subseteq Code \ TransferCode
      /\ pc \in TcPoint => backup.tcs # <<>>
  BY DEF Code, UbusCode, TransferCode, SingleCode, MultipleCode, KeyOrNone,
         TypeInv, TypeOK, CurInv
<1>01. UNCHANGED <<events, backup>> => KeepsNews /\ KeepsReports
  BY SameKeepsNews DEF KeepsEvents, KeepsReports
<1>02. backup'.tcs = backup.tcs => KeepsReports
  BY DEF KeepsReports
<1>1. CASE Startup
  <2>1. CASE ConfigLoadSame
    BY <1>01, <2>1 DEF AnnounceStep, SteadyStep, ConfigLoadSame, Return
  <2>2. CASE BackupAddAcsUrl
    BY <2>2
       DEF AnnounceStep, ForgetStep, BackupAddAcsUrl, backup_add_acsurl, NoBackup
  <2>3. CASE AddBootstrap \/ StartBoot \/ StartGetRpcMethod
    <3>1. KeepsNews /\ KeepsReports
      BY <1>0, <1>02, <2>3, AddKeepsNews, AddEventType
         DEF AddBootstrap, StartBoot, StartGetRpcMethod, SameTransfers
    <3> QED BY <2>3, <3>1
            DEF AnnounceStep, SteadyStep, AddBootstrap, StartBoot,
                StartGetRpcMethod, Return
  <2>4. CASE BackupInitDone
    <3>1. backup'.evs = backup.evs
      BY <1>0, <2>4
         DEF BackupInitDone, backup_update_all_complete_time, Backup
    <3>2. KeepsNews
      BY <2>4, <3>1, SameKeepsNews DEF BackupInitDone, KeepsEvents
    <3>3. KeepsReports
      BY <1>0, <2>4, CompleteAllType, CompleteAllRecords
         DEF BackupInitDone, KeepsReports
    <3> QED BY <2>4, <3>2, <3>3 DEF AnnounceStep, SteadyStep, BackupInitDone
  <2> QED BY <1>1, <2>1, <2>2, <2>3, <2>4 DEF Startup, AnnounceStep
<1>2. CASE Callbacks
  <2>1. ASSUME \/ \E t \in timers : cwmp_do_inform(t)
               \/ \E url \in Urls : Reload(url)
               \/ \E t \in transfers :
                    LaunchFails(t) \/ \E fault \in BOOLEAN : Launch(t, fault)
        PROVE  SteadyStep
    <3>1. KeepsNews /\ KeepsReports
      BY <1>01, <2>1 DEF cwmp_do_inform, Reload, LaunchFails, Launch
    <3> QED BY <2>1, <3>1
            DEF SteadyStep, cwmp_do_inform, Reload, LaunchFails, Launch
  <2>2. ASSUME \/ \E k \in scheduled : ScheduledInform(k)
               \/ ScheduledInformDone
               \/ \E code \in InformCodes : cwmp_connection_request(code)
               \/ \E active \in BOOLEAN : Notify(active)
               \/ cwmp_periodic_inform
        PROVE  SteadyStep
    <3>1. KeepsNews /\ KeepsReports
      BY <1>0, <1>02, <2>2, AddKeepsNews, AddEventType, StimuliAssumption
         DEF ScheduledInform, ScheduledInformDone, cwmp_connection_request,
             Notify, cwmp_periodic_inform, SameTransfers
    <3> QED BY <2>2, <3>1
            DEF SteadyStep, ScheduledInform, ScheduledInformDone,
                cwmp_connection_request, Notify, cwmp_periodic_inform
  <2> QED BY <1>2, <2>1, <2>2 DEF Callbacks, AnnounceStep
<1>3. CASE Transfer
  <2>1. CASE LaunchRemove
    <3>1. backup'.tcs = backup.tcs /\ backup'.evs = backup.evs
      BY <1>0, <2>1 DEF LaunchRemove, backup_remove_transfer, Backup
    <3>2. KeepsNews /\ KeepsReports
      BY <1>02, <2>1, <3>1, SameKeepsNews DEF LaunchRemove, KeepsEvents
    <3> QED BY <2>1, <3>2 DEF AnnounceStep, SteadyStep, LaunchRemove
  <2>2. ASSUME NEW status \in ApplyStatus, LaunchApply(status)
        PROVE  AnnounceStep
    <3>1. CASE status = "exit"
      BY <2>2, <3>1 DEF AnnounceStep, ForgetStep, LaunchApply, ProcessGone
    <3>2. CASE status # "exit"
      <4>1. KeepsNews /\ KeepsReports
        BY <1>01, <2>2, <3>2 DEF LaunchApply
      <4> QED BY <2>2, <3>2, <4>1 DEF AnnounceStep, SteadyStep, LaunchApply
    <3> QED BY <3>1, <3>2
  <2>3. CASE LaunchFault
    <3>1. KeepsReports
      BY <1>0, <2>3, UpdateFaultType, UpdateFaultRecords
         DEF LaunchFault, TcPoint, KeepsReports
    <3>2. KeepsNews
      BY <1>0, <2>3, SameKeepsNews
         DEF LaunchFault, backup_update_fault, Backup, KeepsEvents
    <3> QED BY <2>3, <3>1, <3>2 DEF AnnounceStep, SteadyStep, LaunchFault
  <2>4. CASE LaunchComplete
    <3>1. KeepsReports
      BY <1>0, <2>4, UpdateCompleteTimeType, UpdateCompleteTimeRecords
         DEF LaunchComplete, TcPoint, KeepsReports
    <3>2. KeepsNews
      BY <1>0, <2>4, SameKeepsNews
         DEF LaunchComplete, backup_update_complete_time, Backup, KeepsEvents
    <3> QED BY <2>4, <3>1, <3>2 DEF AnnounceStep, SteadyStep, LaunchComplete
  <2> QED BY <1>3, <2>1, <2>2, <2>3, <2>4 DEF Transfer, AnnounceStep
<1>4. CASE Session
  <2>1. CASE RemoveAfterInform
    <3>1. KeepsNews /\ KeepsReports
      BY <1>0, <1>02, <2>1, RemoveKeepsNews, RemoveEventType
         DEF RemoveAfterInform, SameTransfers
    <3> QED BY <2>1, <3>1 DEF AnnounceStep, SteadyStep, RemoveAfterInform
  <2>2. CASE \/ ClearNotifications \/ HandleMessages \/ EndReload \/ EndPlain
             \/ SessionSuccess
    <3>1. KeepsNews /\ KeepsReports
      BY <1>01, <2>2
         DEF ClearNotifications, HandleMessages, EndReload, EndPlain,
             SessionSuccess
    <3> QED BY <2>2, <3>1
            DEF AnnounceStep, SteadyStep, ClearNotifications, HandleMessages,
                EndReload, EndPlain, SessionSuccess
  <2>3. CASE EndFactoryReset \/ EndReboot
    BY <2>3
       DEF AnnounceStep, ForgetStep, EndFactoryReset, EndReboot, ProcessGone,
           NoBackup
  <2>4. CASE cwmp_retry_session
    <3>1. KeepsNews /\ KeepsReports
      <4>1. CASE AnyRemovable("NO_RETRY", 0)
        BY <1>0, <1>02, <2>4, <4>1, RemoveKeepsNews, RemoveEventType
           DEF cwmp_retry_session, SameTransfers
      <4>2. CASE ~AnyRemovable("NO_RETRY", 0)
        BY <1>01, <2>4, <4>2 DEF cwmp_retry_session
      <4> QED BY <4>1, <4>2
    <3> QED BY <2>4, <3>1 DEF AnnounceStep, SteadyStep, cwmp_retry_session
  <2> QED BY <1>4, <2>1, <2>2, <2>3, <2>4 DEF Session, AnnounceStep
<1>5. CASE AcsAnswers \/ EmptyMessage
  <2>1. ASSUME \/ EmptyMessage
               \/ \E hold \in BOOLEAN :
                    InformAnswered(hold) \/ GetRpcMethodsAnswered(hold)
        PROVE  SteadyStep
    <3>1. KeepsNews /\ KeepsReports
      BY <1>01, <2>1
         DEF EmptyMessage, InformAnswered, GetRpcMethodsAnswered
    <3> QED BY <2>1, <3>1
            DEF SteadyStep, EmptyMessage, InformAnswered,
                GetRpcMethodsAnswered, SendsGetRpcMethods
  <2> QED BY <1>5, <2>1 DEF AcsAnswers, AnnounceStep
<1>6. CASE AcsRequests
  <2>1. ASSUME \/ HandleFactoryReset
               \/ \E url \in Urls : HandleSetUrl(url)
               \/ \E k \in Keys : \/ HandleScheduleInform(k) \/ HandleReboot(k)
                                  \/ \E r \in Requests : HandleTransfer(r, k)
        PROVE  SteadyStep
    <3>1. CASE \/ HandleFactoryReset \/ \E url \in Urls : HandleSetUrl(url)
               \/ \E k \in Keys : HandleScheduleInform(k)
      BY <1>01, <3>1
         DEF HandleFactoryReset, HandleSetUrl, HandleScheduleInform, SteadyStep
    <3>2. ASSUME NEW k \in Keys, HandleReboot(k)
          PROVE  SteadyStep
      BY <1>02, <3>2, RebootKeepsNews DEF HandleReboot, SteadyStep
    <3>3. ASSUME NEW k \in Keys, NEW r \in Requests, HandleTransfer(r, k)
          PROVE  SteadyStep
      <4>1. backup'.tcs = backup.tcs /\ KeepsEvents
        BY <1>0, <3>3
           DEF HandleTransfer, backup_add_transfer, Backup, KeepsEvents
      <4> QED BY <1>02, <3>3, <4>1, SameKeepsNews DEF HandleTransfer, SteadyStep
    <3> QED BY <2>1, <3>1, <3>2, <3>3
  <2> QED BY <1>6, <2>1 DEF AcsRequests, AnnounceStep
<1>7. CASE Failures
  <2>1. CASE ExchangeFails \/ Fault8005
    <3>1. KeepsNews /\ KeepsReports
      BY <1>01, <2>1 DEF ExchangeFails, Fault8005
    <3> QED BY <2>1, <3>1
            DEF AnnounceStep, SteadyStep, ExchangeFails, Fault8005, Exchanging,
                SendsTransferComplete, SendsGetRpcMethods
  <2>2. CASE ConfigLoadFails \/ Crash \/ CrashInSave
    BY <2>2
       DEF AnnounceStep, ForgetStep, ConfigLoadFails, Crash, CrashInSave,
           ProcessGone, NoBackup, CutPoint
  <2> QED BY <1>7, <2>1, <2>2 DEF Failures
<1> QED BY <1>1, <1>2, <1>3, <1>4, <1>5, <1>6, <1>7 DEF Next


\* What is on file or excused stays so.
LEMMA NewsKept ==
  ASSUME KeepsNews
  PROVE  /\ TcFiled => TcFiled'
         /\ \A k : Named(k) => Named(k)'
<1>1. \A n : IsM(n) => n.code \in TransferCode
  BY DEF IsM, TransferCode
<1>2. "TRANSFER_COMPLETE" \in TransferCode
  BY DEF TransferCode
<1>3. TcFiled => TcFiled'
  BY <1>2 DEF KeepsNews, TcFiled
<1>4. \A n \in MFiled : n \in MFiled'
  BY <1>1 DEF KeepsNews, MFiled, MOf, Filed
<1>5. \A k : Named(k) => Named(k)'
  BY <1>4 DEF Named
<1> QED BY <1>3, <1>5

LEMMA ExcusesKept ==
  ASSUME cut \subseteq cut', Records
  PROVE  /\ shared \subseteq shared'
         /\ \A k : Excused(k) => Excused(k)'
BY DEF Excused, Records

\* Outside the start and the end of a process the histories of loading stay;
\* only the removal of an answered TransferComplete adds to the third.
LEMMA HistoryKept ==
  ASSUME Records, pc # "down", pc' # "down"
  PROVE  /\ UNCHANGED <<inherited, behind>>
         /\ pc # "tc_remove" \/ pc' # "rm_mid" => UNCHANGED shared
BY DEF Records, Loaded

\* A steady step keeps it all.
LEMMA SteadyPreserves ==
  ASSUME AnnounceInv, SteadyStep, Records
  PROVE  AnnounceInv'
<1>1. UNCHANGED <<inherited, behind, shared>>
  BY HistoryKept DEF SteadyStep
<1>2. /\ TcFiled => TcFiled'
      /\ \A k : Named(k) => Named(k)'
      /\ \A k : Excused(k) => Excused(k)'
  BY NewsKept, ExcusesKept DEF SteadyStep
<1>3. "TRANSFER_COMPLETE" \in TransferCode
  BY DEF TransferCode
<1>4. StrayInv'
  BY <1>1, <1>3 DEF AnnounceInv, StrayInv, SteadyStep, KeepsNews, IsM
<1>5. ReportIds'
  BY <1>1 DEF AnnounceInv, ReportIds, SteadyStep, KeepsReports
<1>6. ASSUME NEW i \in 1..Len(backup'.tcs)
      PROVE  NewsOf(i)'
  <2>1. i \in 1..Len(backup.tcs) /\ backup'.tcs[i].key = backup.tcs[i].key
    BY DEF SteadyStep, KeepsReports
  <2>2. \/ Excused(backup.tcs[i].key)
        \/ /\ TcFiled
           /\ \/ Named(backup.tcs[i].key)
              \/ <<"x_m_event", backup.tcs[i].key>> \in cut
    BY <2>1 DEF AnnounceInv, NewsOf, SteadyStep
  <2>3. \/ \E k : k = backup.tcs[i].key /\ Excused(k)'
        \/ /\ TcFiled'
           /\ \/ \E k : k = backup.tcs[i].key /\ Named(k)'
              \/ <<"x_m_event", backup.tcs[i].key>> \in cut'
    BY <1>2, <2>2 DEF SteadyStep
  <2> QED BY <2>1, <2>3 DEF NewsOf, Excused, Named
<1> QED BY <1>4, <1>5, <1>6 DEF AnnounceInv

\* Neither does a process that ends: what it loses of a TransferComplete on file
\* it loses at a point that cut records.
LEMMA ForgetPreserves ==
  ASSUME TypeInv, TransferInv, AnnounceInv, ForgetStep, Records
  PROVE  AnnounceInv'
<1>1. Listed' = {}
  BY EmptySeq DEF ForgetStep, Listed, Elements
<1>2. Filed' \subseteq Filed
  BY EmptySeq DEF ForgetStep, Filed, Elements
<1>3. pc' \in {"down", "bootstrap"} /\ (pc' = "down" => mid' = 0)
  BY DEF ForgetStep
<1>4. StrayInv'
  BY <1>1, <1>2, <1>3 DEF AnnounceInv, StrayInv
<1>5. \A k : Excused(k) => Excused(k)'
  BY ExcusesKept DEF ForgetStep
<1>6. CASE backup'.evs = <<>> /\ backup'.tcs = <<>>
  <2>1. Len(backup'.tcs) = 0 /\ 1..Len(backup'.tcs) = {}
    BY <1>6, EmptySeq
  <2> QED BY <1>3, <1>4, <2>1 DEF AnnounceInv, ReportIds
<1>7. ASSUME pc' = "down", UNCHANGED backup,
             pc \in {"x_event", "x_m_event"} => <<pc, cur.key>> \in cut'
      PROVE  AnnounceInv'
  <2>1. ReportIds'
    BY <1>7 DEF AnnounceInv, ReportIds
  <2>2. TcFiled' = TcFiled /\ \A k : Named(k) => Named(k)'
    BY <1>7 DEF TcFiled, Named, Filed, MFiled
  <2>3. pc \in {"x_event", "x_m_event"} =>
          backup.tcs[Len(backup.tcs)].key = cur.key
    BY DEF TransferInv, LaunchInv, TcPoint
  <2>4. ASSUME NEW i \in 1..Len(backup'.tcs)
        PROVE  NewsOf(i)'
    <3>1. i \in 1..Len(backup.tcs) /\ backup'.tcs[i].key = backup.tcs[i].key
      BY <1>7
    <3> DEFINE k == backup.tcs[i].key
    <3>2. \/ Excused(k)
          \/ pc = "x_event" /\ k = cur.key
          \/ /\ TcFiled
             /\ \/ Named(k) \/ <<"x_m_event", k>> \in cut
                \/ pc = "x_m_event" /\ k = cur.key
      BY <2>3, <3>1 DEF AnnounceInv, NewsOf
    <3>3. \E x : x = k
      OBVIOUS
    <3> HIDE DEF k
    <3>4. PICK x : x = k
      BY <3>3
    <3>5. \/ Excused(x)'
          \/ <<"x_event", x>> \in cut'
          \/ /\ TcFiled'
             /\ Named(x)' \/ <<"x_m_event", x>> \in cut'
      BY <1>5, <1>7, <2>2, <3>2, <3>4 DEF ForgetStep
    <3>6. x = backup'.tcs[i].key
      BY <3>1, <3>4 DEF k
    <3> QED BY <3>5, <3>6 DEF NewsOf, Excused, Named
  <2> QED BY <1>4, <2>1, <2>4 DEF AnnounceInv
<1> QED BY <1>6, <1>7 DEF ForgetStep


\* A process starts by inheriting all TransferCompletes on file.
LEMMA StartPreserves ==
  ASSUME AnnounceInv, TwinInv, BackupInit, Records
  PROVE  AnnounceInv'
<1>1. /\ UNCHANGED <<backup, events, mid, loaded, cut, shared>>
      /\ pc = "down" /\ pc' = "load_event"
      /\ inherited' = TcKeys /\ behind' = BehindId
  BY DEF BackupInit, locals, observed, Records, Loaded
<1>2. events = <<>> /\ mid = 0
  BY <1>1 DEF TwinInv, AnnounceInv, StrayInv
<1>3. Listed' = {} /\ Filed' = Filed /\ BehindId' = BehindId
  BY <1>1, <1>2, EmptySeq DEF Listed, Filed, Elements, BehindId
<1>4. StrayInv'
  BY <1>1, <1>2, <1>3 DEF AnnounceInv, StrayInv
<1>5. \A i \in 1..Len(backup'.tcs) : backup'.tcs[i].key \in inherited'
  BY <1>1 DEF TcKeys, TcKeysOf
<1>6. ReportIds'
  BY <1>1, <1>5 DEF AnnounceInv, ReportIds
<1>7. \A i \in 1..Len(backup'.tcs) : NewsOf(i)'
  BY <1>1 DEF AnnounceInv, NewsOf, Excused, TcFiled, Named, Filed, MFiled
<1> QED BY <1>4, <1>6, <1>7 DEF AnnounceInv

\* backup_load_event gives a node without a method_id that of a node in front.
LEMMA LoadKeepsStrays ==
  ASSUME TypeInv, AnnounceInv, LoadEvent, Records
  PROVE  StrayInv'
<1> DEFINE n == backup.evs[loaded + 1]
           m == IF n.mid # 0 THEN n.mid ELSE mid
<1>1. /\ UNCHANGED <<backup, cut, shared, inherited, behind>>
      /\ pc = "load_event" /\ pc' = "load_event"
      /\ loaded' = loaded + 1 /\ mid' = m
  BY HistoryKept DEF LoadEvent, observed
<1>2. loaded \in Nat /\ loaded + 1 \in 1..Len(backup.evs) /\ n \in Filed /\ n \in Node
  BY LoadEventCases DEF TypeInv, TypeOK
<1>3. Filed' = Filed /\ BehindId' = BehindId /\ behind = BehindId
  BY <1>1 DEF Filed, BehindId, AnnounceInv, StrayInv
<1>4. mid # 0 => \E l \in 1..loaded : backup.evs[l].mid # 0
  BY <1>1 DEF AnnounceInv, StrayInv
<1>5. m # 0 => \E l \in 1..(loaded + 1) : backup.evs[l].mid # 0
  BY <1>2, <1>4
<1>6. n.mid = 0 /\ mid # 0 => n \in behind
  <2> SUFFICES ASSUME n.mid = 0, mid # 0 PROVE n \in behind
    OBVIOUS
  <2>1. PICK l \in 1..loaded : backup.evs[l].mid # 0
    BY <1>4
  <2>2. l \in 1..((loaded + 1) - 1)
    BY <1>2, <2>1
  <2> QED BY <1>2, <1>3, <2>1, <2>2 DEF BehindId
<1> HIDE DEF n
<1>7. ASSUME NEW e \in Listed'
      PROVE  /\ e.mid # 0 /\ ~IsM(e) => e.node \in behind
             /\ e.code = "TRANSFER_COMPLETE" => e.node # NoNode
  <2>1. CASE e \in Listed
    BY <2>1 DEF AnnounceInv, StrayInv
  <2>2. ASSUME e \notin Listed
        PROVE  e.code = n.code /\ e.node = n /\ e.mid = m
    <3>1. events' # events
      BY <2>2 DEF Listed
    <3>2. PICK x \in Event : /\ x.code = n.code /\ x.node = n
                             /\ x.mid = IF n.mid # 0 THEN n.mid ELSE mid
                             /\ With(events, x, events')
      BY <3>1, LoadEventCases DEF n
    <3>3. e = x
      BY <2>2, <3>2, WithElements DEF Listed
    <3> QED BY <3>2, <3>3
  <2>3. n # NoNode
    BY <1>2 DEF Node, NoNode, Code, SingleCode, MultipleCode
  <2>4. n.mid # 0 => IsM(n)
    BY <1>2 DEF AnnounceInv, StrayInv
  <2> QED BY <1>6, <2>1, <2>2, <2>3, <2>4 DEF IsM
<1> QED BY <1>1, <1>3, <1>5, <1>7 DEF AnnounceInv, StrayInv

LEMMA LoadPreservesNews ==
  ASSUME TypeInv, AnnounceInv, LoadEvent, Records
  PROVE  AnnounceInv'
<1>1. /\ UNCHANGED <<backup, cut, shared, inherited, method_id>>
      /\ pc = "load_event" /\ pc' = "load_event"
  BY HistoryKept DEF LoadEvent, observed, queues
<1>2. ReportIds'
  BY <1>1 DEF AnnounceInv, ReportIds
<1>3. \A i \in 1..Len(backup'.tcs) : NewsOf(i)'
  BY <1>1 DEF AnnounceInv, NewsOf, Excused, TcFiled, Named, Filed, MFiled
<1> QED BY <1>2, <1>3, LoadKeepsStrays DEF AnnounceInv

\* ++cwmp->method_id makes the new id larger than those this process gave out.
LEMMA NewReportPreserves ==
  ASSUME TypeInv, AnnounceInv, LaunchAddTransferComplete, Records
  PROVE  AnnounceInv'
<1> DEFINE tc == [key |-> cur.key, mid |-> method_id + 1, fault |-> FALSE,
                  complete |-> FALSE]
<1>1. /\ UNCHANGED <<events, mid, cut, inherited, behind, shared>>
      /\ pc = "x_tc" /\ pc' = "x_event" /\ method_id' = method_id + 1
      /\ backup \in Backup /\ cur.key \in Keys /\ method_id \in Nat
  BY HistoryKept
     DEF LaunchAddTransferComplete, NextMethodId, observed, locals, TypeInv,
         TypeOK, CurInv, LaunchPoint
<1>2. backup.tcs \in Seq(TransferComplete) /\ tc \in TransferComplete
  BY <1>1 DEF Backup, TransferComplete
<1>3. backup'.tcs = Append(backup.tcs, tc) /\ backup'.evs = backup.evs
  BY <1>1 DEF LaunchAddTransferComplete, NextMethodId,
              backup_add_transfer_complete, Backup
<1>4. tc.mid = method_id + 1
  OBVIOUS
<1> HIDE DEF tc
<1>5. /\ Len(backup.tcs) \in Nat /\ Len(backup'.tcs) = Len(backup.tcs) + 1
      /\ \A i \in 1..Len(backup.tcs) : backup'.tcs[i] = backup.tcs[i]
      /\ backup'.tcs[Len(backup.tcs) + 1] = tc
  BY <1>2, <1>3, AppendProperties, LenProperties
<1>6. \A i \in 1..Len(backup.tcs) :
        /\ backup.tcs[i].mid \in Nat \ {0}
        /\ backup.tcs[i].key \in inherited \/ backup.tcs[i].mid <= method_id
  <2>1. \A i \in 1..Len(backup.tcs) : backup.tcs[i] \in TransferComplete
    BY <1>2, ElementOfSeq
  <2> QED BY <1>1, <2>1 DEF TransferComplete, AnnounceInv, ReportIds
<1>7. \A i \in 1..Len(backup'.tcs) :
        i \in 1..Len(backup.tcs) \/ i = Len(backup'.tcs)
  BY <1>5
<1>8. backup'.tcs[Len(backup'.tcs)].mid = method_id + 1
  BY <1>4, <1>5
<1>9. ReportIds'
  <2>1. ASSUME NEW i \in 1..Len(backup'.tcs)
        PROVE  /\ backup'.tcs[i].mid # 0
               /\ \/ backup'.tcs[i].key \in inherited
                  \/ backup'.tcs[i].mid <= method_id'
    <3>1. CASE i \in 1..Len(backup.tcs)
      <4>1. backup'.tcs[i] = backup.tcs[i]
        BY <1>5, <3>1
      <4> QED BY <1>1, <1>6, <3>1, <4>1
    <3>2. CASE i = Len(backup'.tcs)
      BY <1>1, <1>8, <3>2
    <3> QED BY <1>7, <3>1, <3>2
  <2>2. ASSUME NEW i \in 1..Len(backup'.tcs), NEW j \in 1..Len(backup'.tcs),
               backup'.tcs[i].mid = backup'.tcs[j].mid
        PROVE  \/ i = j
               \/ {backup'.tcs[i].key, backup'.tcs[j].key} \cap inherited # {}
    <3>1. CASE i \in 1..Len(backup.tcs) /\ j \in 1..Len(backup.tcs)
      <4>1. backup'.tcs[i] = backup.tcs[i] /\ backup'.tcs[j] = backup.tcs[j]
        BY <1>5, <3>1
      <4> QED BY <1>1, <2>2, <3>1, <4>1 DEF AnnounceInv, ReportIds
    <3>2. ASSUME NEW k \in 1..Len(backup.tcs)
          PROVE  \/ backup'.tcs[k].mid # backup'.tcs[Len(backup'.tcs)].mid
                 \/ backup'.tcs[k].key \in inherited
      <4>1. backup'.tcs[k] = backup.tcs[k]
        BY <1>5
      <4> QED BY <1>1, <1>6, <1>8, <4>1
    <3> QED BY <1>7, <2>2, <3>1, <3>2
  <2> QED BY <1>1, <2>1, <2>2 DEF ReportIds
<1>10. ASSUME NEW i \in 1..Len(backup'.tcs)
       PROVE  NewsOf(i)'
  <2>1. CASE i = Len(backup'.tcs)
    BY <1>1, <2>1 DEF NewsOf
  <2>2. CASE i \in 1..Len(backup.tcs)
    <3>1. backup'.tcs[i] = backup.tcs[i] /\ NewsOf(i)
      BY <1>5, <2>2 DEF AnnounceInv
    <3> QED BY <1>1, <1>3, <3>1
            DEF NewsOf, Excused, TcFiled, Named, Filed, MFiled
  <2> QED BY <1>7, <2>1, <2>2
<1>11. StrayInv'
  BY <1>1, <1>3 DEF AnnounceInv, StrayInv, Listed, Filed
<1> QED BY <1>9, <1>10, <1>11 DEF AnnounceInv


\* A node that backup_load_event has come to is on file.
LEMMA FiledReached ==
  ASSUME TypeInv, SyncInv, NEW j \in Reached
  PROVE  backup.evs[j] \in Filed
<1>1. loaded \in Nat /\ Len(backup.evs) \in Nat
  BY LenProperties DEF TypeInv, TypeOK, Backup
<1>2. j \in 1..Len(backup.evs)
  BY <1>1 DEF Reached, SyncInv
<1> QED BY <1>2 DEF Filed, Elements

\* A listed "7 TRANSFER COMPLETE" has its node on file.
LEMMA ListedTcIsFiled ==
  ASSUME TypeInv, NodeInv, SyncInv, NodesInSync, AnnounceInv,
         HasCode("TRANSFER_COMPLETE")
  PROVE  TcFiled
<1>1. PICK i \in 1..Len(events) : events[i].code = "TRANSFER_COMPLETE"
  BY DEF HasCode
<1>2. events[i] \in Listed /\ events[i].node # NoNode
  BY <1>1 DEF AnnounceInv, StrayInv, Listed, Elements
<1>3. events[i].node.code = "TRANSFER_COMPLETE"
  BY <1>1, <1>2 DEF NodeInv
<1>4. pc # "down"
  <2>1. pc = "down" => 1..Len(events) = {}
    BY EmptySeq DEF NodesInSync
  <2> QED BY <2>1
<1>5. i \in Saved
  BY <1>2 DEF Saved
<1>6. PICK j \in Reached : Tied(i, j)
  BY <1>4, <1>5 DEF NodesInSync
<1>7. events[i].node = backup.evs[j]
  BY <1>6 DEF Tied
<1>8. backup.evs[j] \in Filed
  BY <1>6, FiledReached
<1> QED BY <1>3, <1>7, <1>8 DEF TcFiled

\* An event that is saved comes with its node.
LEMMA SavedEventCases ==
  ASSUME NEW code \in Code, NEW key \in KeyOrNone, NEW m \in Nat,
         backup \in Backup, events \in Seq(Event),
         cwmp_add_event(code, key, m, TRUE),
         ~(code \in SingleCode /\ HasCode(code))
  PROVE  LET n == [code |-> code, key |-> key, mid |-> m]
             e == [code |-> code, key |-> key, mid |-> m, node |-> n]
         IN Listed' = Listed \cup {e} /\ Filed' = Filed \cup {n}
<1> DEFINE n == [code |-> code, key |-> key, mid |-> m]
           e == [code |-> code, key |-> key, mid |-> m, node |-> n]
<1>1. n \in Node /\ e \in Event /\ backup.evs \in Seq(Node)
  BY DEF Node, Event, KeyOrNone, Backup
<1>2. events' = Append(events, e) /\ backup'.evs = Append(backup.evs, n)
  BY DEF cwmp_add_event, backup_add_event, Backup
<1> HIDE DEF e, n
<1>3. With(events, e, events') /\ With(backup.evs, n, backup'.evs)
  BY <1>1, <1>2, AppendWith
<1>4. Listed' = Listed \cup {e} /\ Filed' = Filed \cup {n}
  BY <1>3, WithElements DEF Listed, Filed
<1> QED BY <1>4 DEF e, n

\* LaunchAddEvent makes sure of that node ...
LEMMA TcNewsPreserves ==
  ASSUME TypeInv, NodeInv, SyncInv, NodesInSync, AnnounceInv, LaunchAddEvent,
         Records
  PROVE  AnnounceInv'
<1>0. /\ backup \in Backup /\ events \in Seq(Event)
      /\ NoKey \in KeyOrNone /\ "TRANSFER_COMPLETE" \in Code /\ 0 \in Nat
      /\ TRUE \in BOOLEAN
  BY DEF TypeInv, TypeOK, KeyOrNone, Code, SingleCode
<1>1. /\ pc = "x_event" /\ pc' = "x_m_event"
      /\ UNCHANGED <<method_id, cut, inherited, behind, shared>>
      /\ cwmp_add_event("TRANSFER_COMPLETE", NoKey, 0, TRUE)
  BY HistoryKept DEF LaunchAddEvent, queues, observed
<1>2. backup'.tcs = backup.tcs
  BY <1>0, <1>1, AddEventType DEF SameTransfers
<1>3. ReportIds'
  BY <1>1, <1>2 DEF AnnounceInv, ReportIds
<1>4. /\ TcFiled' /\ Filed \subseteq Filed'
      /\ \A n \in Filed' : n \in Filed \/ n.mid = 0
      /\ \A e \in Listed' : e \in Listed \/ (e.mid = 0 /\ e.node # NoNode)
  <2>1. CASE HasCode("TRANSFER_COMPLETE")
    <3>1. UNCHANGED <<events, backup>>
      BY <1>1, <2>1 DEF cwmp_add_event, SingleCode
    <3> QED BY <2>1, <3>1, ListedTcIsFiled DEF TcFiled, Filed, Listed
  <2>2. CASE ~HasCode("TRANSFER_COMPLETE")
    <3> DEFINE n == [code |-> "TRANSFER_COMPLETE", key |-> NoKey, mid |-> 0]
               e == [code |-> "TRANSFER_COMPLETE", key |-> NoKey, mid |-> 0,
                     node |-> n]
    <3>1. Listed' = Listed \cup {e} /\ Filed' = Filed \cup {n}
      BY <1>0, <1>1, <2>2, SavedEventCases
    <3>2. n.code = "TRANSFER_COMPLETE" /\ n.mid = 0 /\ n # NoNode
      BY DEF NoNode
    <3>3. e.mid = 0 /\ e.node = n
      OBVIOUS
    <3> HIDE DEF e, n
    <3> QED BY <3>1, <3>2, <3>3 DEF TcFiled
  <2> QED BY <2>1, <2>2
<1>5. StrayInv'
  BY <1>1, <1>4 DEF AnnounceInv, StrayInv
<1>6. \A k : Named(k) => Named(k)'
  BY <1>4 DEF Named, MFiled, MOf, Filed
<1>7. ASSUME NEW i \in 1..Len(backup'.tcs)
      PROVE  NewsOf(i)'
  BY <1>1, <1>2, <1>4, <1>6 DEF AnnounceInv, NewsOf, Excused
<1> QED BY <1>3, <1>5, <1>7 DEF AnnounceInv

\* ... and LaunchAddMEvent of the one with the command key.
LEMMA MNewsPreserves ==
  ASSUME TypeInv, TransferInv, AnnounceInv, LaunchAddMEvent, Records
  PROVE  AnnounceInv'
<1> DEFINE code == MEvent[cur.kind]
<1>0. /\ backup \in Backup /\ events \in Seq(Event) /\ method_id \in Nat
      /\ cur.key \in KeyOrNone /\ TRUE \in BOOLEAN
      /\ code \in Code \cap {"M_DOWNLOAD", "M_UPLOAD"} /\ code \notin SingleCode
  BY DEF TypeInv, TypeOK, MEvent, Kind, Code, SingleCode, MultipleCode
<1> HIDE DEF code
<1>1. /\ pc = "x_m_event" /\ pc' \in {"x_fault", "x_apply", "x_complete"}
      /\ UNCHANGED <<method_id, cut, inherited, behind, shared>>
      /\ cwmp_add_event(code, cur.key, method_id, TRUE)
  BY HistoryKept DEF LaunchAddMEvent, queues, observed, code
<1>2. backup'.tcs = backup.tcs
  BY <1>0, <1>1, AddEventType DEF SameTransfers
<1>3. ReportIds'
  BY <1>1, <1>2 DEF AnnounceInv, ReportIds
<1> DEFINE n == [code |-> code, key |-> cur.key, mid |-> method_id]
           e == [code |-> code, key |-> cur.key, mid |-> method_id, node |-> n]
<1>4. Listed' = Listed \cup {e} /\ Filed' = Filed \cup {n}
  BY <1>0, <1>1, SavedEventCases
<1>5. /\ IsM(e) /\ IsM(n) /\ n.key = cur.key
      /\ e.code # "TRANSFER_COMPLETE"
  BY <1>0 DEF IsM
<1> HIDE DEF e, n
<1>6. StrayInv'
  BY <1>1, <1>4, <1>5 DEF AnnounceInv, StrayInv
<1>7. /\ TcFiled => TcFiled'
      /\ \A k : Named(k) => Named(k)'
      /\ \E x \in MFiled' : x.key = cur.key
  BY <1>4, <1>5 DEF TcFiled, Named, MFiled, MOf, Filed
<1>8. backup.tcs[Len(backup.tcs)].key = cur.key
  BY <1>1 DEF TransferInv, LaunchInv, TcPoint
<1>9. ASSUME NEW i \in 1..Len(backup'.tcs)
      PROVE  NewsOf(i)'
  <2>1. i \in 1..Len(backup.tcs) /\ NewsOf(i)
    BY <1>2 DEF AnnounceInv
  <2>2. CASE i = Len(backup.tcs)
    <3>1. Named(backup.tcs[i].key)'
      BY <1>2, <1>7, <1>8, <2>2 DEF Named
    <3> QED BY <1>1, <1>2, <1>7, <2>1, <3>1 DEF NewsOf, Excused
  <2>3. CASE i # Len(backup.tcs)
    BY <1>1, <1>2, <1>7, <2>1, <2>3 DEF NewsOf, Excused
  <2> QED BY <2>2, <2>3
<1> QED BY <1>3, <1>6, <1>9 DEF AnnounceInv

\* The thread goes on with the id of the first TransferComplete.
LEMMA AnsweredPreservesNews ==
  ASSUME TypeInv, AnnounceInv, NEW hold \in BOOLEAN,
         TransferCompleteAnswered(hold), Records
  PROVE  AnnounceInv'
<1>1. /\ UNCHANGED <<backup, events, method_id, cut, inherited, behind, shared>>
      /\ pc = "loop" /\ pc' = "tc_remove"
      /\ backup.tcs # <<>> /\ mid' = Head(backup.tcs).mid
  BY HistoryKept
     DEF TransferCompleteAnswered, SendsTransferComplete, extract_method_id, queues
<1>2. Head(backup.tcs) = backup.tcs[1]
  <2>1. backup.tcs \in Seq(TransferComplete)
    BY DEF TypeInv, TypeOK, Backup
  <2> QED BY <1>1, <2>1
<1>3. ReportIds'
  BY <1>1, <1>2 DEF AnnounceInv, ReportIds
<1>4. StrayInv'
  BY <1>1 DEF AnnounceInv, StrayInv, Listed, Filed
<1>5. \A i \in 1..Len(backup'.tcs) : NewsOf(i)'
  BY <1>1 DEF AnnounceInv, NewsOf, Excused, TcFiled, Named, Filed, MFiled
<1> QED BY <1>3, <1>4, <1>5 DEF AnnounceInv

\* With it goes its id, and the pending TransferCompletes that the removal by
\* this id concerns are those of SharesId.
LEMMA ReportRemovedPreserves ==
  ASSUME TypeInv, AnnounceInv, backup_remove_transfer_complete, Records
  PROVE  AnnounceInv'
<1> DEFINE tc == backup.tcs[1]
<1>1. /\ UNCHANGED <<events, mid, method_id, cut, inherited, behind>>
      /\ pc = "tc_remove" /\ pc' = "rm_mid" /\ backup.tcs # <<>>
      /\ backup' = backup_remove_first_transfer_complete(backup)
      /\ backup \in Backup
  BY HistoryKept
     DEF backup_remove_transfer_complete, locals, queues, observed, TypeInv,
         TypeOK, CurInv, TcPoint
<1>2. /\ Len(backup.tcs) \in Nat \ {0}
      /\ Len(backup'.tcs) = Len(backup.tcs) - 1
      /\ \A i \in 1..(Len(backup.tcs) - 1) : backup'.tcs[i] = backup.tcs[i + 1]
      /\ Head(backup.tcs) = tc
  BY <1>1, RemoveFirstTransferCompleteType
<1>3. ASSUME NEW i \in 1..Len(backup'.tcs)
      PROVE  i + 1 \in 1..Len(backup.tcs) /\ backup'.tcs[i] = backup.tcs[i + 1]
  BY <1>2
<1>4. backup'.evs = backup.evs
  BY <1>1 DEF backup_remove_first_transfer_complete, Backup
<1>5. shared' = shared \cup SharesId(tc)
  BY <1>1, <1>2 DEF Records
<1>6. mid = tc.mid /\ mid # 0
  BY <1>1, <1>2 DEF AnnounceInv, ReportIds
<1>7. ASSUME NEW i \in 1..Len(backup'.tcs), Crosses(i, mid)'
      PROVE  backup'.tcs[i].key \in SharesId(tc)
  <2>1. CASE backup'.tcs[i].mid = mid
    <3>1. {tc.key, backup'.tcs[i].key} \cap inherited # {}
      <4>1. 1 \in 1..Len(backup.tcs) /\ 1 # i + 1
        BY <1>2
      <4>2. backup.tcs[1].mid = backup.tcs[i + 1].mid
        BY <1>3, <1>6, <2>1
      <4> QED BY <1>1, <1>3, <4>1, <4>2 DEF AnnounceInv, ReportIds
    <3> QED BY <1>6, <2>1, <3>1 DEF SharesId
  <2>2. CASE \E e \in Listed' : e.code = "TRANSFER_COMPLETE" /\ e.mid = mid'
    <3>1. PICK e \in Listed : e.code = "TRANSFER_COMPLETE" /\ e.mid = mid
      BY <1>1, <2>2 DEF Listed
    <3>2. Stray(e)
      BY <1>6, <3>1 DEF AnnounceInv, StrayInv, Stray, IsM
    <3>3. \E l \in 1..Len(events) : e = events[l]
      BY DEF Listed, Elements
    <3> QED BY <1>6, <3>1, <3>2, <3>3 DEF SharesId
  <2> QED BY <1>1, <1>7, <2>1, <2>2 DEF Crosses
<1> HIDE DEF tc
<1>8. ReportIds'
  <2>1. ASSUME NEW i \in 1..Len(backup'.tcs)
        PROVE  /\ backup'.tcs[i].mid # 0
               /\ \/ backup'.tcs[i].key \in inherited
                  \/ backup'.tcs[i].mid <= method_id
    BY <1>1, <1>3 DEF AnnounceInv, ReportIds
  <2>2. ASSUME NEW i \in 1..Len(backup'.tcs), NEW j \in 1..Len(backup'.tcs),
               backup'.tcs[i].mid = backup'.tcs[j].mid
        PROVE  \/ i = j
               \/ {backup'.tcs[i].key, backup'.tcs[j].key} \cap inherited # {}
    <3>1. /\ i + 1 \in 1..Len(backup.tcs) /\ j + 1 \in 1..Len(backup.tcs)
          /\ backup'.tcs[i] = backup.tcs[i + 1]
          /\ backup'.tcs[j] = backup.tcs[j + 1]
      BY <1>3
    <3>2. \/ i + 1 = j + 1
          \/ {backup.tcs[i + 1].key, backup.tcs[j + 1].key} \cap inherited # {}
      BY <1>1, <2>2, <3>1 DEF AnnounceInv, ReportIds
    <3> QED BY <1>2, <3>1, <3>2
  <2>3. \A i \in 1..Len(backup'.tcs) :
          Crosses(i, mid)' => backup'.tcs[i].key \in shared'
    BY <1>5, <1>7
  <2> QED BY <1>1, <1>6, <2>1, <2>2, <2>3 DEF ReportIds
<1>9. StrayInv'
  BY <1>1, <1>4 DEF AnnounceInv, StrayInv, Listed, Filed
<1>10. ASSUME NEW i \in 1..Len(backup'.tcs)
       PROVE  NewsOf(i)'
  <2>1. NewsOf(i + 1) /\ backup'.tcs[i] = backup.tcs[i + 1]
    BY <1>3 DEF AnnounceInv
  <2> QED BY <1>1, <1>4, <1>5, <2>1
          DEF NewsOf, Excused, TcFiled, Named, Filed, MFiled
<1> QED BY <1>8, <1>9, <1>10 DEF AnnounceInv


\* cwmp_remove_event with the id of an answered TransferComplete takes nodes of
\* others only from those whose keys are known.
LEMMA RemovedNewsPreserves ==
  ASSUME TypeInv, NodeInv, TwinInv, OrphanInv, AnnounceInv,
         RemoveAfterTransferComplete, Records
  PROVE  AnnounceInv'
<1>1. /\ backup \in Backup /\ events \in Seq(Event)
      /\ pc = "rm_mid" /\ pc' = "rm_mid"
      /\ UNCHANGED <<mid, method_id, cut, inherited, behind, shared>>
  BY HistoryKept
     DEF RemoveAfterTransferComplete, locals, queues, observed, TypeInv, TypeOK
<1>2. PICK e \in Event : e.mid = mid /\ Removes(e)
  BY <1>1, RemoveEventRemoves DEF RemoveAfterTransferComplete, Removable
<1>3. backup'.tcs = backup.tcs
  BY <1>1, RemoveEventType DEF RemoveAfterTransferComplete, SameTransfers
<1>4. /\ Listed' \subseteq Listed /\ Filed' \subseteq Filed
      /\ Filed \subseteq Filed' \cup {e.node} /\ e \in Listed
  BY <1>2 DEF Removes
<1>5. StrayInv'
  BY <1>1, <1>4 DEF AnnounceInv, StrayInv
<1>6. ReportIds'
  BY <1>1, <1>3, <1>4 DEF AnnounceInv, ReportIds, Crosses
<1>7. e.node = NoNode \/ e.node.code = e.code
  BY <1>4 DEF NodeInv
<1>8. ASSUME NEW i \in 1..Len(backup.tcs), ~Crosses(i, mid)
      PROVE  /\ TcFiled => TcFiled'
             /\ Named(backup.tcs[i].key) => \E n \in MFiled' : n.key = backup.tcs[i].key
  <2>1. e.node.code # "TRANSFER_COMPLETE"
    BY <1>2, <1>4, <1>7, <1>8 DEF Crosses, NoNode
  <2>2. TcFiled => TcFiled'
    BY <1>4, <2>1 DEF TcFiled
  <2>3. ASSUME NEW n \in MFiled, n.key = backup.tcs[i].key
        PROVE  n \in MFiled'
    <3>1. backup.tcs[i].mid = n.mid /\ backup.tcs[i].mid # mid
      BY <1>8, <2>3 DEF OrphanInv, Crosses
    <3>2. n = e.node => e \in MListed
      BY <1>4, <1>7 DEF MFiled, MListed, MOf, Listed, IsM, NoNode
    <3>3. n # e.node
      BY <1>2, <3>1, <3>2 DEF TwinInv
    <3> QED BY <1>4, <3>3 DEF MFiled, MOf, Filed
  <2> QED BY <2>2, <2>3 DEF Named
<1>9. ASSUME NEW i \in 1..Len(backup'.tcs)
      PROVE  NewsOf(i)'
  <2>1. i \in 1..Len(backup.tcs) /\ NewsOf(i)
    BY <1>3 DEF AnnounceInv
  <2>2. CASE Crosses(i, mid)
    BY <1>1, <1>3, <2>1, <2>2 DEF AnnounceInv, ReportIds, NewsOf, Excused
  <2>3. CASE ~Crosses(i, mid)
    BY <1>1, <1>3, <1>8, <2>1, <2>3 DEF NewsOf, Excused, Named
  <2> QED BY <2>2, <2>3
<1> QED BY <1>5, <1>6, <1>9 DEF AnnounceInv

\* Then the id 0 is looked for, but only when no TransferComplete is left.
LEMMA RemovalDonePreserves ==
  ASSUME TypeInv, AnnounceInv, RemoveMidDone, Records
  PROVE  AnnounceInv'
<1>1. /\ UNCHANGED <<backup, events, method_id, cut, inherited, behind, shared>>
      /\ pc = "rm_mid"
      /\ \/ pc' = "rm_mid" /\ backup.tcs = <<>>
         \/ pc' = "loop"
  BY HistoryKept DEF RemoveMidDone, queues, observed
<1>2. StrayInv'
  BY <1>1 DEF AnnounceInv, StrayInv, Listed, Filed
<1>3. ReportIds'
  <2>1. backup.tcs = <<>> => Len(backup.tcs) = 0 /\ 1..Len(backup.tcs) = {}
    BY EmptySeq
  <2> QED BY <1>1, <2>1 DEF AnnounceInv, ReportIds
<1>4. \A i \in 1..Len(backup'.tcs) : NewsOf(i)'
  BY <1>1 DEF AnnounceInv, NewsOf, Excused, TcFiled, Named, Filed, MFiled
<1> QED BY <1>2, <1>3, <1>4 DEF AnnounceInv

\* The histories are recorded on the side: nothing Spec forbids can happen.
LEMMA HistoryImplementsSpec == HistorySpec => Spec
<1>1. [Next /\ Records]_HistoryVars => [Next]_vars
  BY DEF HistoryVars
<1> QED BY <1>1, PTL DEF HistorySpec, Spec

\* AnnounceInv holds in every reachable state, of any number of processes.
LEMMA AnnounceInvariance == HistorySpec => []AnnounceInv
<1>1. Init /\ inherited = {} /\ behind = {} /\ shared = {} => AnnounceInv
  <2> SUFFICES ASSUME Init PROVE AnnounceInv
    OBVIOUS
  <2>1. /\ Len(backup.tcs) = 0 /\ 1..Len(backup.tcs) = {} /\ pc = "down"
        /\ mid = 0 /\ Listed = {} /\ Filed = {}
    BY EmptySeq DEF Init, NoBackup, Listed, Filed, Elements
  <2> QED BY <2>1 DEF AnnounceInv, StrayInv, ReportIds
<1>2. /\ FullInv /\ NodeInv /\ TwinInv /\ OrphanInv /\ SyncInv /\ NodesInSync
      /\ AnnounceInv /\ [Next /\ Records]_HistoryVars
      => AnnounceInv'
  <2> SUFFICES ASSUME TypeInv, TransferInv, NodeInv, TwinInv, OrphanInv, SyncInv,
                      NodesInSync, AnnounceInv, [Next /\ Records]_HistoryVars
               PROVE  AnnounceInv'
    BY DEF FullInv
  <2>1. CASE Next /\ Records
    <3>1. AnnounceStep
      BY <2>1, AnnounceSteps
    <3> QED BY <2>1, <3>1, SteadyPreserves, ForgetPreserves, StartPreserves,
               LoadPreservesNews, NewReportPreserves, TcNewsPreserves,
               MNewsPreserves, AnsweredPreservesNews, ReportRemovedPreserves,
               RemovedNewsPreserves, RemovalDonePreserves
            DEF AnnounceStep
  <2>2. CASE UNCHANGED HistoryVars
    <3>1. UNCHANGED <<backup, events, pc, mid, loaded, method_id, cut, inherited,
                      behind, shared>>
      BY <2>2 DEF HistoryVars, vars, locals, queues, observed
    <3>2. Filed' = Filed /\ Listed' = Listed /\ MFiled' = MFiled
          /\ BehindId' = BehindId
      BY <3>1 DEF Filed, Listed, MFiled, BehindId
    <3>3. StrayInv' /\ ReportIds'
      BY <3>1, <3>2 DEF AnnounceInv, StrayInv, ReportIds, Crosses
    <3>4. \A i \in 1..Len(backup'.tcs) : NewsOf(i)'
      BY <3>1, <3>2 DEF AnnounceInv, NewsOf, Excused, TcFiled, Named
    <3> QED BY <3>3, <3>4 DEF AnnounceInv
  <2> QED BY <2>1, <2>2
<1> QED BY <1>1, <1>2, HistoryImplementsSpec, LedgerInvariance, NewsInvariance,
           TwinInvariance, SyncInvariance, NodesStayInSync, PTL
        DEF HistorySpec

\* Every Inform names the completed transfers that its session reports, restarts
\* included (AnnouncesTransfers): whatever fails, is held, repeated, reloaded or
\* removed in between, cwmp_remove_event takes an event that a TransferComplete
\* on file still needs only for an id that two processes gave out, and
\* cwmp_download_launch leaves one out only in a power cut between its saves.
THEOREM TransfersAreAnnounced == HistorySpec => []AnnouncesTransfers
<1>1. TypeInv /\ NodeInv /\ TwinInv /\ NodesInSync /\ AnnounceInv
        => AnnouncesTransfers
  <2> SUFFICES ASSUME TypeInv, NodeInv, TwinInv, NodesInSync, AnnounceInv,
                      pc = "inform", NEW k \in TcKeys, ~Excused(k)
               PROVE  /\ HasCode("TRANSFER_COMPLETE")
                      /\ \/ <<"x_m_event", k>> \in cut
                         \/ \E i \in 1..Len(events) :
                              IsM(events[i]) /\ events[i].key = k
    BY DEF AnnouncesTransfers, Excused
  <2>1. PICK j \in 1..Len(backup.tcs) : backup.tcs[j].key = k
    BY DEF TcKeys, TcKeysOf
  <2>2. TcFiled /\ (Named(k) \/ <<"x_m_event", k>> \in cut)
    BY <2>1 DEF AnnounceInv, NewsOf
  <2>3. HasCode("TRANSFER_COMPLETE")
    <3>1. PICK l \in 1..Len(backup.evs) : backup.evs[l].code = "TRANSFER_COMPLETE"
      BY <2>2 DEF TcFiled, Filed, Elements
    <3>2. PICK i \in Saved : Tied(i, l)
      BY <3>1 DEF NodesInSync, Reached
    <3>3. /\ i \in 1..Len(events) /\ events[i].node # NoNode
          /\ events[i].node.code = "TRANSFER_COMPLETE"
      BY <3>1, <3>2 DEF Saved, Tied
    <3> QED BY <3>3 DEF NodeInv, Listed, Elements, HasCode
  <2>4. ASSUME Named(k)
        PROVE  \E i \in 1..Len(events) : IsM(events[i]) /\ events[i].key = k
    <3>1. PICK n \in MFiled : n.key = k
      BY <2>4 DEF Named
    <3>2. PICK e \in MListed : e.node = n
      BY <3>1 DEF TwinInv
    <3>3. e.key = k
      BY <3>1, <3>2 DEF TwinInv
    <3> QED BY <3>3 DEF MListed, MOf, Elements
  <2> QED BY <2>2, <2>3, <2>4
<1> QED BY <1>1, AnnounceInvariance, HistoryImplementsSpec, LedgerInvariance,
           NewsInvariance, TwinInvariance, NodesStayInSync, PTL
        DEF FullInv

\* After an InformResponse no event is left that it should have removed, but for
\* those that this process loaded with the method_id of another node
\* (InformClearsOwnEvents).  The events that a process raises itself never carry
\* one, so the removal with id 0 reaches them, and the reload of
\* backup_load_event misleads it about nodes behind an M node and no others.
THEOREM InformsClearOwnEvents == HistorySpec => []InformClearsOwnEvents
<1>1. WakeInv /\ AnnounceInv => InformClearsOwnEvents
  <2> SUFFICES ASSUME WakeInv, AnnounceInv, pc = "loop", NEW i \in 1..Len(events),
                      "AFTER_INFORM" \in remove_policy(events[i].code)
               PROVE  Stray(events[i])
    BY DEF InformClearsOwnEvents
  <2>1. events[i] \in Listed
    BY DEF Listed, Elements
  <2>2. events[i].code \notin TransferCode
    BY DEF remove_policy
  <2>3. events[i].mid # 0 /\ ~IsM(events[i])
    BY <2>1, <2>2 DEF WakeInv, Delivered, OnlyWaiting, IsM, TransferCode
  <2> QED BY <2>1, <2>3 DEF AnnounceInv, StrayInv, Stray
<1> QED BY <1>1, AnnounceInvariance, HistoryImplementsSpec, WakeInvariance, PTL
============================================================================
