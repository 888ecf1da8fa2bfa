------------------------- MODULE ParameterRpcProofs -------------------------
(***************************************************************************)
(* The conversations between easycwmpd and its script, for any parameters, *)
(* pipe capacities and numbers of requests and deaths: the two never block *)
(* each other, no answer is left for the next request, and what the ACS is *)
(* told agrees with what was committed.                                    *)
(***************************************************************************)
EXTENDS ParameterRpc, SequenceTheorems, TLAPS

-----------------------------------------------------------------------------
(* Pipes and files as sequences *)

\* The elements of a sequence, and that x comes before y in it.
Elements(s) == {s[i] : i \in 1..Len(s)}
After(s, x, y) == \E i, j \in 1..Len(s) : i < j /\ s[i] = x /\ s[j] = y

\* An empty pipe or file has no elements.
LEMMA NoElements ==
  ASSUME NEW S, NEW s \in Seq(S)
  PROVE  /\ Elements(s) \subseteq S
         /\ s = <<>> <=> Elements(s) = {}
         /\ s # <<>> => 1 \in 1..Len(s) /\ Len(s) \in 1..Len(s)
         /\ \A x, y : After(s, x, y) => x \in Elements(s) /\ y \in Elements(s)
<1>1. /\ Len(s) \in Nat /\ \A i \in 1..Len(s) : s[i] \in S
      /\ s # <<>> => Len(s) \in Nat \ {0}
      /\ Len(<<>>) = 0
  BY LenProperties, ElementOfSeq, EmptySeq
<1>2. s # <<>> => 1 \in 1..Len(s) /\ Len(s) \in 1..Len(s)
  BY <1>1
<1>3. s = <<>> <=> Elements(s) = {}
  <2>1. s # <<>> => s[1] \in Elements(s)
    BY <1>2 DEF Elements
  <2>2. s = <<>> => 1..Len(s) = {}
    BY <1>1
  <2> QED BY <2>1, <2>2 DEF Elements
<1>4. \A x, y : After(s, x, y) => x \in Elements(s) /\ y \in Elements(s)
  BY DEF After, Elements
<1> QED BY <1>1, <1>2, <1>3, <1>4 DEF Elements

\* The empty sequence.
LEMMA Nothing ==
  /\ \A S : <<>> \in Seq(S)
  /\ Elements(<<>>) = {} /\ Len(<<>>) = 0
  /\ \A x, y : ~After(<<>>, x, y)
<1>1. Len(<<>>) = 0
  BY EmptySeq
<1> QED BY <1>1, EmptySeq DEF Elements, After

\* Writing at the end of a pipe or a file, reading from its front.
Written(s, e, t) == t = Append(s, e)
Taken(s, h, t) == s # <<>> /\ h = Head(s) /\ t = Tail(s)

\* What is in the pipe after a write.
LEMMA Appends ==
  ASSUME NEW S, NEW s \in Seq(S), NEW e \in S, NEW t, Written(s, e, t)
  PROVE  /\ t \in Seq(S) /\ t # <<>>
         /\ Len(s) \in Nat /\ Len(t) = Len(s) + 1
         /\ Elements(t) = Elements(s) \cup {e}
         /\ \A x, y : After(t, x, y) =>
                        After(s, x, y) \/ (x \in Elements(s) /\ y = e)
<1>1. /\ t \in Seq(S) /\ t # <<>> /\ Len(s) \in Nat /\ Len(t) = Len(s) + 1
      /\ \A i \in 1..Len(s) : t[i] = s[i]
      /\ t[Len(s) + 1] = e
  BY AppendProperties, LenProperties DEF Written
<1>2. 1..Len(t) = 1..Len(s) \cup {Len(s) + 1}
  BY <1>1
<1>3. Elements(t) = Elements(s) \cup {e}
  BY <1>1, <1>2 DEF Elements
<1>4. ASSUME NEW i \in 1..Len(t), NEW j \in 1..Len(t), i < j
      PROVE  /\ i \in 1..Len(s) /\ t[i] = s[i]
             /\ (j \in 1..Len(s) /\ t[j] = s[j]) \/ t[j] = e
  <2>1. i \in 1..Len(s)
    BY <1>1, <1>4
  <2> QED BY <1>1, <1>2, <2>1
<1>5. \A x, y : After(t, x, y) =>
                  After(s, x, y) \/ (x \in Elements(s) /\ y = e)
  BY <1>4 DEF After, Elements
<1> QED BY <1>1, <1>3, <1>5

\* What was, and what is left, after a read.
LEMMA Reads ==
  ASSUME NEW S, NEW s \in Seq(S), NEW h, NEW t, Taken(s, h, t)
  PROVE  /\ h \in S /\ t \in Seq(S) /\ h = s[1]
         /\ Len(s) \in Nat \ {0} /\ Len(t) = Len(s) - 1
         /\ Elements(s) = {h} \cup Elements(t)
         /\ \A x, y : After(t, x, y) => After(s, x, y)
         /\ \A x \in Elements(t) : After(s, h, x)
<1>1. /\ h \in S /\ t \in Seq(S) /\ h = s[1]
      /\ Len(s) \in Nat \ {0} /\ Len(t) = Len(s) - 1
      /\ \A i \in 1..Len(t) : t[i] = s[i + 1]
  BY HeadTailProperties, EmptySeq DEF Taken
<1>2. ASSUME NEW i \in 1..Len(t)
      PROVE  i + 1 \in 1..Len(s) /\ 1 < i + 1 /\ t[i] = s[i + 1]
  BY <1>1
<1>3. ASSUME NEW i \in 1..Len(s), i # 1
      PROVE  i - 1 \in 1..Len(t) /\ t[i - 1] = s[i]
  <2>1. i - 1 \in 1..Len(t) /\ (i - 1) + 1 = i
    BY <1>1, <1>3
  <2> QED BY <1>1, <2>1
<1>4. Elements(s) = {s[1]} \cup Elements(t)
  <2>1. 1 \in 1..Len(s)
    BY <1>1
  <2>2. ASSUME NEW x \in Elements(s), x # s[1]
        PROVE  x \in Elements(t)
    BY <1>3, <2>2 DEF Elements
  <2>3. Elements(t) \subseteq Elements(s)
    BY <1>2 DEF Elements
  <2> QED BY <2>1, <2>2, <2>3 DEF Elements
<1>5. ASSUME NEW i \in 1..Len(t), NEW j \in 1..Len(t), i < j
      PROVE  After(s, t[i], t[j])
  <2>1. i + 1 < j + 1
    BY <1>1, <1>5
  <2> QED BY <1>2, <2>1 DEF After
<1>6. ASSUME NEW x, NEW y, After(t, x, y)
      PROVE  After(s, x, y)
  <2>1. PICK i \in 1..Len(t), j \in 1..Len(t) : i < j /\ t[i] = x /\ t[j] = y
    BY <1>6 DEF After
  <2> QED BY <1>5, <2>1
<1>7. ASSUME NEW x \in Elements(t)
      PROVE  After(s, s[1], x)
  <2>1. 1 \in 1..Len(s)
    BY <1>1
  <2> QED BY <1>2, <2>1 DEF Elements, After
<1> QED BY <1>1, <1>4, <1>6, <1>7

\* One command or line.
LEMMA OneElement ==
  ASSUME NEW S, NEW e \in S
  PROVE  /\ <<e>> \in Seq(S) /\ <<e>> # <<>> /\ Elements(<<e>>) = {e}
         /\ Head(<<e>>) = e /\ Tail(<<e>>) = <<>>
         /\ \A x, y : ~After(<<e>>, x, y)
<1>1. Len(<<e>>) = 1 /\ <<e>>[1] = e /\ 1..1 = {1}
  OBVIOUS
<1>2. Elements(<<e>>) = {e} /\ \A x, y : ~After(<<e>>, x, y)
  BY <1>1 DEF Elements, After
<1>3. /\ <<e>> \in Seq(S) /\ <<e>> # <<>>
      /\ Head(<<e>>) = e /\ Tail(<<e>>) = <<>>
  OBVIOUS
<1> QED BY <1>2, <1>3

\* One command and the "end" after it.
LEMMA TwoElements ==
  ASSUME NEW S, NEW d \in S, NEW e \in S
  PROVE  /\ <<d, e>> \in Seq(S) /\ <<d, e>> # <<>>
         /\ Elements(<<d, e>>) = {d, e}
         /\ \A x, y : After(<<d, e>>, x, y) => x = d /\ y = e
<1>1. /\ Len(<<d, e>>) = 2 /\ <<d, e>>[1] = d /\ <<d, e>>[2] = e
      /\ 1..2 = {1, 2} /\ <<d, e>> \in Seq(S) /\ <<d, e>> # <<>>
  OBVIOUS
<1>2. Elements(<<d, e>>) = {d, e}
  BY <1>1 DEF Elements
<1>3. \A x, y : After(<<d, e>>, x, y) => x = d /\ y = e
  BY <1>1 DEF After
<1> QED BY <1>1, <1>2, <1>3

-----------------------------------------------------------------------------
(* Types *)

\* A command that names something names a parameter, and so does a line that
\* may enter external_list_parameter.
Naming == {"set", "add", "delete", "get"}
NameInv ==
  /\ \A x \in Elements(inp) \cup Elements(toSend) :
       x.op \in Naming => x.name \in Params
  /\ \A l \in Elements(outp) \cup Elements(say) \cup Elements(list)
                \cup Elements(fault_file) :
       l.what \notin {"status", "prompt"} => l.name \in Params
  /\ \A l \in Elements(list) : l.what \notin {"status", "prompt"}
  /\ \A x \in Elements(inp) \cup Elements(toSend) :
       x.op = "set" => x.kind \in SetKind
  /\ cpc = "print" <=> say # <<>>

\* The inductive strengthening of TypeOK.
TypeInv == TypeOK /\ NameInv

\* Ids count the requests.
LEMMA IdType == /\ Id \subseteq Nat /\ 0 \in Id
                /\ \A n \in Id : n < MaxReq => n + 1 \in Id
BY PipeAssumption DEF Id

\* What the operators build has the types of commands and lines.
LEMMA CmdType ==
  /\ \A op \in {"end", "exit", "apply_service"} :
       Plain(op) \in Cmd /\ Plain(op).op = op /\ Plain(op).id = 0
  /\ \A op \in Op, name \in Name,
        r \in [id: Id, kind: Kind \cup {NoKind}, names: Seq(Params)] :
       LET c == Command(op, r, name) IN
       c \in Cmd /\ c.op = op /\ c.name = name /\ c.kind = r.kind /\ c.id = r.id
  /\ \A what \in {"prompt", "status", "noinstance", "fault", "value"},
        name \in Name, id \in Id :
       LET l == Say(what, name, id) IN
       l \in Line /\ l.what = what /\ l.name = name /\ l.id = id
  /\ Params \subseteq Name /\ NoName \in Name
BY IdType DEF Plain, Command, Say, Cmd, Line, Name, Op

\* The name lists of a request are sequences of names, and every method but
\* the Set methods carries at least one.
LEMMA NameListsType ==
  ASSUME NEW kind \in Kind, NEW names \in NameLists(kind)
  PROVE  names \in Seq(Params) /\ (kind \notin SetKind => names # <<>>)
<1> DEFINE least == IF kind \in SetKind THEN 0 ELSE 1
           most == IF kind \in ObjectKind THEN 1 ELSE Cardinality(Params)
<1>1. PICK n \in least..most : names \in [1..n -> Params]
  BY DEF NameLists
<1>2. n \in Nat /\ (kind \notin SetKind => n >= 1)
  BY <1>1
<1>3. names \in Seq(Params) /\ Len(names) = n
  BY <1>1, <1>2
<1>4. kind \notin SetKind => names # <<>>
  BY <1>2, <1>3, EmptySeq
<1> QED BY <1>3, <1>4

\* The commands of a conversation, in order: a Set's "set" commands, one for
\* each name, then "apply"; one command of any other method; then "end".
LEMMA ConversationShape ==
  ASSUME NEW r \in [id: Id, kind: Kind, names: Seq(Params)],
         r.kind \notin SetKind => r.names # <<>>
  PROVE  LET c == Conversation(r) IN
         /\ c \in Seq(Cmd) /\ c # <<>>
         /\ \E x \in Elements(c) : x.op = "end"
         /\ \A x \in Elements(c) : \/ x.op = "end" /\ x.id = 0
                                   \/ x.id = r.id /\ x.kind = r.kind
         /\ r.kind \in SetKind =>
              /\ \A x \in Elements(c) :
                   /\ x.op \in {"set", "apply", "end"}
                   /\ x.op = "set" => x.name \in Params
              /\ \E x \in Elements(c) : x.op = "apply"
              /\ \A n \in Names(r.names) :
                   \E x \in Elements(c) : x.op = "set" /\ x.name = n
              /\ \A x, y : After(c, x, y) =>
                   \/ x.op = "set" /\ y.op \in {"set", "apply", "end"}
                   \/ x.op = "apply" /\ y.op = "end"
         /\ r.kind \notin SetKind =>
              /\ Head(r.names) \in Params
              /\ \A x \in Elements(c) :
                   \/ x.op = "end"
                   \/ x.op = r.kind /\ x.name = Head(r.names)
              /\ \E x \in Elements(c) : x.op = r.kind
              /\ \A x, y : After(c, x, y) => x.op = r.kind /\ y.op = "end"
<1> DEFINE c == Conversation(r)
           e == Plain("end")
           a == Command("apply", r, NoName)
           sets == [i \in DOMAIN r.names |-> Command("set", r, r.names[i])]
           one == Command(r.kind, r, Head(r.names))
<1>1. /\ r \in [id: Id, kind: Kind \cup {NoKind}, names: Seq(Params)]
      /\ r.names \in Seq(Params) /\ DOMAIN r.names = 1..Len(r.names)
      /\ Len(r.names) \in Nat /\ \A i \in 1..Len(r.names) : r.names[i] \in Params
  <2>1. r.names \in Seq(Params)
    OBVIOUS
  <2> QED BY <2>1, LenProperties, ElementOfSeq
<1>2. /\ e \in Cmd /\ e.op = "end" /\ e.id = 0 /\ a \in Cmd /\ a.op = "apply"
      /\ a.id = r.id /\ a.kind = r.kind
  BY <1>1, CmdType DEF Op
<1>3. CASE r.kind \in SetKind
  <2>1. /\ sets \in Seq(Cmd) /\ Len(sets) = Len(r.names)
        /\ \A i \in 1..Len(r.names) :
             /\ sets[i].op = "set" /\ sets[i].name = r.names[i]
             /\ sets[i].id = r.id /\ sets[i].kind = r.kind
    <3>1. \A i \in 1..Len(r.names) :
            LET x == Command("set", r, r.names[i]) IN
            x \in Cmd /\ x.op = "set" /\ x.name = r.names[i]
              /\ x.id = r.id /\ x.kind = r.kind
      BY <1>1, CmdType DEF Op
    <3>2. sets \in [1..Len(r.names) -> Cmd]
      BY <1>1, <3>1
    <3>3. sets \in Seq(Cmd) /\ Len(sets) = Len(r.names)
      BY <1>1, <3>2
    <3> QED BY <1>1, <3>1, <3>3
  <2>2. c = Append(sets \o <<a>>, e)
    BY <1>3 DEF Conversation, SetKind, ObjectKind, GetKind
  <2> DEFINE s == sets \o <<a>>
  <2> HIDE DEF sets, a, e, c
  <2>3. /\ s \in Seq(Cmd) /\ Len(s) = Len(sets) + 1
        /\ \A i \in 1..(Len(sets) + 1) :
             s[i] = IF i <= Len(sets) THEN sets[i] ELSE a
    <3>1. <<a>> \in Seq(Cmd) /\ Len(<<a>>) = 1 /\ <<a>>[1] = a
      BY <1>2
    <3>2. /\ s \in Seq(Cmd) /\ Len(s) = Len(sets) + 1
          /\ \A i \in 1..(Len(sets) + 1) :
               s[i] = IF i <= Len(sets) THEN sets[i] ELSE <<a>>[i - Len(sets)]
      BY <2>1, <3>1, ConcatProperties
    <3>3. ASSUME NEW i \in 1..(Len(sets) + 1), ~(i <= Len(sets))
          PROVE  i - Len(sets) = 1
      BY <1>1, <2>1, <3>3
    <3> HIDE DEF s
    <3> QED BY <3>1, <3>2, <3>3
  <2> HIDE DEF s
  <2>4. ASSUME NEW i \in 1..Len(s)
        PROVE  \/ s[i] = a /\ i = Len(s)
               \/ /\ i \in 1..Len(r.names) /\ i < Len(s)
                  /\ s[i].op = "set" /\ s[i].name \in Params
                  /\ s[i].id = r.id /\ s[i].kind = r.kind
    BY <1>1, <2>1, <2>3
  <2>5. /\ \A x \in Elements(s) : \/ x = a
                                  \/ /\ x.op = "set" /\ x.name \in Params
                                     /\ x.id = r.id /\ x.kind = r.kind
        /\ \A x, y : After(s, x, y) => x.op = "set" /\ (y = a \/ y.op = "set")
    <3>1. \A x \in Elements(s) : \/ x = a
                                 \/ /\ x.op = "set" /\ x.name \in Params
                                    /\ x.id = r.id /\ x.kind = r.kind
      BY <2>4 DEF Elements
    <3>2. ASSUME NEW i \in 1..Len(s), NEW j \in 1..Len(s), i < j
          PROVE  s[i].op = "set" /\ (s[j] = a \/ s[j].op = "set")
      <4>1. i # Len(s)
        BY <1>1, <2>1, <2>3, <3>2
      <4> QED BY <2>4, <4>1
    <3> QED BY <3>1, <3>2 DEF After
  <2>6. a \in Elements(s)
    <3>1. Len(s) \in 1..Len(s) /\ s[Len(s)] = a
      BY <1>1, <2>1, <2>3
    <3> QED BY <3>1 DEF Elements
  <2>7. ASSUME NEW n \in Names(r.names)
        PROVE  \E x \in Elements(s) : x.op = "set" /\ x.name = n
    <3>1. PICK i \in 1..Len(r.names) : r.names[i] = n
      BY <1>1 DEF Names
    <3>2. i \in 1..Len(s) /\ s[i] = sets[i]
      BY <1>1, <2>1, <2>3
    <3> QED BY <2>1, <3>1, <3>2 DEF Elements
  <2>8. /\ c \in Seq(Cmd) /\ c # <<>> /\ Elements(c) = Elements(s) \cup {e}
        /\ \A x, y : After(c, x, y) =>
                       After(s, x, y) \/ (x \in Elements(s) /\ y = e)
    <3>1. Written(s, e, c)
      BY <2>2 DEF s, Written
    <3> QED BY <1>2, <2>3, <3>1, Appends
  <2> QED BY <1>2, <1>3, <2>5, <2>6, <2>7, <2>8 DEF c
<1>4. CASE r.kind \notin SetKind
  <2>1. r.kind \in {"add", "delete", "get"}
    BY <1>4 DEF Kind, SetKind, ObjectKind, GetKind
  <2>2. Head(r.names) \in Params
    BY <1>1, <1>4, HeadTailProperties
  <2>3. /\ one \in Cmd /\ one.op = r.kind /\ one.name = Head(r.names)
        /\ one.id = r.id /\ one.kind = r.kind
    BY <1>1, <2>1, <2>2, CmdType DEF Op
  <2>4. c = Append(<<one>>, e)
    <3>1. CASE r.kind \in ObjectKind
      BY <1>4, <3>1 DEF Conversation, SetKind, ObjectKind, GetKind
    <3>2. CASE r.kind = "get"
      BY <3>2 DEF Conversation, SetKind, ObjectKind, GetKind
    <3> QED BY <2>1, <3>1, <3>2 DEF ObjectKind
  <2> HIDE DEF one, e, c
  <2>5. <<one>> \in Seq(Cmd) /\ Elements(<<one>>) = {one}
        /\ \A x, y : ~After(<<one>>, x, y)
    BY <2>3, OneElement
  <2>6. /\ c \in Seq(Cmd) /\ c # <<>> /\ Elements(c) = {one, e}
        /\ \A x, y : After(c, x, y) => x = one /\ y = e
    <3> DEFINE s == <<one>>
    <3> HIDE DEF s
    <3>1. /\ s \in Seq(Cmd) /\ Written(s, e, c) /\ Elements(s) = {one}
          /\ \A x, y : ~After(s, x, y)
      BY <2>4, <2>5 DEF s, Written
    <3>2. /\ c \in Seq(Cmd) /\ c # <<>> /\ Elements(c) = Elements(s) \cup {e}
          /\ \A x, y : After(c, x, y) =>
                         After(s, x, y) \/ (x \in Elements(s) /\ y = e)
      BY <1>2, <3>1, Appends
    <3> QED BY <3>1, <3>2
  <2> QED BY <1>2, <1>4, <2>2, <2>3, <2>6 DEF c
<1> QED BY <1>3, <1>4


\* The script reads a command.
LEMMA TookType ==
  ASSUME TypeInv, inp # <<>>, Took
  PROVE  /\ Taken(inp, ccmd', inp') /\ ccmd' = Head(inp)
         /\ ccmd' \in Cmd /\ inp' \in Seq(Cmd) /\ Len(inp') <= InCap
         /\ Elements(inp) = {ccmd'} \cup Elements(inp')
         /\ \A x, y : After(inp', x, y) => After(inp, x, y)
         /\ \A x \in Elements(inp') : After(inp, ccmd', x)
<1>1. Taken(inp, ccmd', inp') /\ ccmd' = Head(inp) /\ inp \in Seq(Cmd)
  BY DEF Taken, Took, TypeInv, TypeOK
<1>2. /\ ccmd' \in Cmd /\ inp' \in Seq(Cmd)
      /\ Len(inp) \in Nat \ {0} /\ Len(inp') = Len(inp) - 1
      /\ Elements(inp) = {ccmd'} \cup Elements(inp')
      /\ \A x, y : After(inp', x, y) => After(inp, x, y)
      /\ \A x \in Elements(inp') : After(inp, ccmd', x)
  BY <1>1, Reads
<1>3. Len(inp') <= InCap
  BY <1>2, PipeAssumption DEF TypeInv, TypeOK
<1> QED BY <1>1, <1>2, <1>3

\* The types hold at the start.
LEMMA TypeInit == Init => TypeInv
<1> SUFFICES ASSUME Init PROVE TypeInv
  OBVIOUS
<1>1. Plain("end") \in Cmd /\ NoReq \in [id: Id, kind: Kind \cup {NoKind}, names: Seq(Params)]
  BY CmdType, IdType DEF NoReq
<1>2. Len(<<>>) <= InCap /\ Len(<<>>) <= OutCap /\ 0 \in Id /\ 0 \in 0..MaxDeath
  BY PipeAssumption, Nothing, IdType
<1> QED BY <1>1, <1>2, Nothing DEF Init, TypeInv, TypeOK, NameInv

\* The steps of the script keep the types.
LEMMA ScriptTypeStep == TypeInv /\ (ScriptStep \/ ScriptDies) => TypeInv'
<1> SUFFICES ASSUME TypeInv, ScriptStep \/ ScriptDies PROVE TypeInv'
  OBVIOUS
<1> USE DEF daemon, script, stores, pipes, observers
<1>0. Len(<<>>) <= InCap /\ 0 \in Id
  BY PipeAssumption, Nothing, IdType
<1>1. CASE SetValue
  <2>1. inp # <<>> /\ Took /\ Head(inp).op = "set"
    BY <1>1 DEF SetValue, ScriptReads
  <2> DEFINE c == Head(inp)
             e == [name |-> c.name, id |-> c.id]
             l == Say("fault", c.name, c.id)
  <2>2. /\ ccmd' = c /\ ccmd' \in Cmd /\ inp' \in Seq(Cmd) /\ Len(inp') <= InCap
        /\ Elements(inp) = {c} \cup Elements(inp')
    BY <2>1, TookType
  <2>3. c.name \in Params /\ c.id \in Id
    BY <2>1, <2>2 DEF TypeInv, NameInv, Naming, Cmd
  <2>4. e \in Entry /\ l \in Line /\ l.name \in Params
    BY <2>3, CmdType DEF Entry
  <2>5. \/ Written(command_file, e, command_file') /\ UNCHANGED fault_file
        \/ Written(fault_file, l, fault_file') /\ UNCHANGED command_file
    BY <1>1 DEF SetValue, Written
  <2>6. /\ UNCHANGED <<staged, config, outp, daemon, observers, say, todo, rev>>
        /\ cpc' = "read" /\ cpc = "read"
    BY <1>1 DEF SetValue, ReadOn, ScriptReads
  <2> HIDE DEF c, e, l
  <2>7. command_file' \in Seq(Entry)
    BY <2>4, <2>5, Appends DEF TypeInv, TypeOK
  <2>8. /\ fault_file' \in Seq(Line)
        /\ \A x \in Elements(fault_file') :
             x.what \notin {"status", "prompt"} => x.name \in Params
    BY <2>4, <2>5, Appends DEF TypeInv, TypeOK, NameInv
  <2> QED BY <2>2, <2>6, <2>7, <2>8 DEF TypeInv, TypeOK, NameInv
<1>2. CASE SetNotification
  <2>1. inp # <<>> /\ Took /\ Head(inp).op = "set"
    BY <1>2 DEF SetNotification, ScriptReads
  <2> DEFINE c == Head(inp)
             l == Say("fault", c.name, c.id)
  <2>2. /\ ccmd' = c /\ ccmd' \in Cmd /\ inp' \in Seq(Cmd) /\ Len(inp') <= InCap
        /\ Elements(inp) = {c} \cup Elements(inp')
    BY <2>1, TookType
  <2>3. c.name \in Params /\ c.id \in Id
    BY <2>1, <2>2 DEF TypeInv, NameInv, Naming, Cmd
  <2>4. l \in Line /\ l.name \in Params
    BY <2>3, CmdType
  <2>5. \/ UNCHANGED fault_file /\
           staged' = [staged EXCEPT ![<<"notification", c.name>>] = c.id]
        \/ Written(fault_file, l, fault_file') /\ UNCHANGED staged
    BY <1>2 DEF SetNotification, Written
  <2>6. /\ UNCHANGED <<command_file, config, outp, daemon, observers, say, todo, rev>>
        /\ cpc' = "read" /\ cpc = "read"
    BY <1>2 DEF SetNotification, ReadOn, ScriptReads
  <2> HIDE DEF c, l
  <2>7. staged' \in [Slot -> Id]
    BY <2>3, <2>5 DEF TypeInv, TypeOK
  <2>8. /\ fault_file' \in Seq(Line)
        /\ \A x \in Elements(fault_file') :
             x.what \notin {"status", "prompt"} => x.name \in Params
    BY <2>4, <2>5, Appends DEF TypeInv, TypeOK, NameInv
  <2> QED BY <2>2, <2>6, <2>7, <2>8 DEF TypeInv, TypeOK, NameInv
<1>3. CASE Apply
  <2>1. /\ inp # <<>> /\ Took /\ rev' = FALSE
        /\ UNCHANGED <<stores, outp, daemon, observers>> /\ cpc = "read"
        /\ \/ /\ fault_file # <<>> /\ cpc' = "print" /\ say' = fault_file
              /\ UNCHANGED todo
           \/ cpc' = "eval" /\ todo' = command_file /\ UNCHANGED say
    BY <1>3 DEF Apply, ScriptReads
  <2>2. /\ ccmd' \in Cmd /\ inp' \in Seq(Cmd) /\ Len(inp') <= InCap
        /\ Elements(inp') \subseteq Elements(inp)
    BY <2>1, TookType
  <2> QED BY <2>1, <2>2 DEF TypeInv, TypeOK, NameInv
<1>4. CASE EvalLine
  <2> DEFINE e == Head(todo)
             l == Say("fault", e.name, e.id)
  <2>1. Taken(todo, e, todo') /\ todo \in Seq(Entry)
    BY <1>4 DEF EvalLine, Taken, TypeInv, TypeOK
  <2>2. e \in Entry /\ todo' \in Seq(Entry)
    <3> HIDE DEF e
    <3> QED BY <2>1, Reads
  <2>3. e.name \in Params /\ e.id \in Id
    BY <2>2 DEF Entry
  <2>4. l \in Line /\ l.name \in Params
    BY <2>3, CmdType
  <2>5. \/ staged' = [staged EXCEPT ![<<"value", e.name>>] = e.id]
            /\ UNCHANGED <<cpc, say, rev>>
        \/ rev' = TRUE /\ cpc' = "print" /\ say' = <<l>> /\ UNCHANGED staged
    BY <1>4 DEF EvalLine
  <2>6. /\ UNCHANGED <<ccmd, command_file, fault_file, config, pipes, daemon,
                       observers>>
        /\ cpc = "eval"
    BY <1>4 DEF EvalLine
  <2>7. <<l>> \in Seq(Line) /\ <<l>> # <<>> /\ Elements(<<l>>) = {l}
    BY <2>4, OneElement
  <2> HIDE DEF e, l
  <2>8. staged' \in [Slot -> Id]
    BY <2>3, <2>5 DEF TypeInv, TypeOK
  <2> QED BY <2>2, <2>4, <2>5, <2>6, <2>7, <2>8 DEF TypeInv, TypeOK, NameInv
<1>5. CASE EvalDone
  <2> DEFINE l == Say("status", NoName, ccmd.id)
  <2>1. ccmd.id \in Id
    BY DEF TypeInv, TypeOK, Cmd
  <2>2. l \in Line /\ l.what = "status"
    BY <2>1, CmdType
  <2>3. <<l>> \in Seq(Line) /\ <<l>> # <<>> /\ Elements(<<l>>) = {l}
    BY <2>2, OneElement
  <2>4. \/ cpc' = "revert" /\ UNCHANGED say
        \/ cpc' = "print" /\ say' = <<l>>
    BY <1>5 DEF EvalDone
  <2>5. /\ UNCHANGED <<ccmd, todo, rev, stores, pipes, daemon, observers>>
        /\ cpc = "eval"
    BY <1>5 DEF EvalDone
  <2> HIDE DEF l
  <2> QED BY <2>2, <2>3, <2>4, <2>5, ZenonT(60) DEF TypeInv, TypeOK, NameInv
<1>6. CASE Revert \/ Commit \/ RemoveFaultFile \/ RemoveCommandFile
  <2>1. CASE Revert
    BY <2>1, Nothing DEF Revert, TypeInv, TypeOK, NameInv
  <2>2. CASE Commit
    BY <2>2, Nothing DEF Commit, TypeInv, TypeOK, NameInv
  <2>3. CASE RemoveFaultFile
    BY <2>3, Nothing DEF RemoveFaultFile, TypeInv, TypeOK, NameInv
  <2>4. CASE RemoveCommandFile
    BY <2>4, Nothing DEF RemoveCommandFile, TypeInv, TypeOK, NameInv
  <2> QED BY <1>6, <2>1, <2>2, <2>3, <2>4
<1>7. CASE EchoLine
  <2>1. /\ cpc = "print" /\ Len(outp) < OutCap
        /\ cpc' = IF say' = <<>> THEN AfterEcho ELSE "print"
        /\ UNCHANGED <<ccmd, todo, rev, inp, stores, daemon, observers>>
    BY <1>7 DEF EchoLine
  <2> DEFINE l == Head(say)
  <2>2. Taken(say, l, say') /\ Written(outp, l, outp')
    BY <1>7 DEF EchoLine, Taken, Written, TypeInv, NameInv
  <2>3. AfterEcho \in {"read", "commit", "eval", "rm_fault"}
    BY DEF AfterEcho
  <2> HIDE DEF l
  <2>4. /\ l \in Line /\ say' \in Seq(Line) /\ Elements(say) = {l} \cup Elements(say')
    BY <2>2, Reads DEF TypeInv, TypeOK
  <2>5. /\ outp' \in Seq(Line) /\ Elements(outp') = Elements(outp) \cup {l}
        /\ Len(outp') = Len(outp) + 1 /\ Len(outp) \in Nat
    BY <2>2, <2>4, Appends DEF TypeInv, TypeOK
  <2>6. Len(outp') <= OutCap
    BY <2>1, <2>5, PipeAssumption
  <2> QED BY <2>1, <2>3, <2>4, <2>5, <2>6 DEF TypeInv, TypeOK, NameInv
<1>8. CASE AddOrDeleteObject
  <2> DEFINE c == Head(inp)
  <2>1. /\ inp # <<>> /\ Took /\ c.op \in ObjectKind /\ cpc = "read"
        /\ UNCHANGED <<command_file, fault_file, config, outp, daemon, observers,
                       todo, rev>>
        /\ cpc' = "print"
    BY <1>8 DEF AddOrDeleteObject, ScriptReads, Echo
  <2>2. /\ ccmd' = c /\ ccmd' \in Cmd /\ inp' \in Seq(Cmd) /\ Len(inp') <= InCap
        /\ Elements(inp) = {c} \cup Elements(inp')
    BY <2>1, TookType
  <2>3. c.name \in Params /\ c.id \in Id
    BY <2>1, <2>2 DEF TypeInv, NameInv, Naming, Cmd, ObjectKind
  <2>4. \E l \in Line : /\ say' = <<l>>
                        /\ l.what # "status" => l.name \in Params
    <3>1. CASE say' = <<Say("status", NoName, c.id)>>
      BY <2>3, <3>1, CmdType
    <3>2. CASE say' = <<Say("fault", c.name, c.id)>>
      BY <2>3, <3>2, CmdType
    <3>3. CASE say' = <<Say("noinstance", c.name, c.id)>>
      BY <2>3, <3>3, CmdType
    <3> QED BY <1>8, <3>1, <3>2, <3>3 DEF AddOrDeleteObject, Echo
  <2>5. staged' \in [Slot -> Id]
    <3>1. \/ staged' = [staged EXCEPT ![<<"object", c.name>>] = c.id]
          \/ UNCHANGED staged
      BY <1>8 DEF AddOrDeleteObject
    <3> HIDE DEF c
    <3> QED BY <2>3, <3>1 DEF TypeInv, TypeOK
  <2>6. PICK l \in Line : say' = <<l>> /\ (l.what # "status" => l.name \in Params)
    BY <2>4
  <2>7. <<l>> \in Seq(Line) /\ <<l>> # <<>> /\ Elements(<<l>>) = {l}
    BY <2>6, OneElement
  <2> HIDE DEF c
  <2> QED BY <2>1, <2>2, <2>5, <2>6, <2>7 DEF TypeInv, TypeOK, NameInv
<1>9. CASE ApplyObject \/ ApplyService
  <2>1. /\ inp # <<>> /\ Took /\ cpc = "read" /\ cpc' \in {"read", "commit"}
        /\ UNCHANGED <<say, todo, rev, stores, outp, daemon, observers>>
    BY <1>9 DEF ApplyObject, ApplyService, ScriptReads, ReadOn
  <2>2. /\ ccmd' \in Cmd /\ inp' \in Seq(Cmd) /\ Len(inp') <= InCap
        /\ Elements(inp') \subseteq Elements(inp)
    BY <2>1, TookType
  <2> QED BY <2>1, <2>2 DEF TypeInv, TypeOK, NameInv
<1>10. CASE GetParameter \/ End
  <2> DEFINE c == Head(inp)
  <2>1. /\ inp # <<>> /\ Took /\ cpc = "read" /\ cpc' = "print"
        /\ c.op = "get" \/ say' = <<Say("prompt", NoName, 0)>>
        /\ UNCHANGED <<todo, rev, stores, outp, daemon, observers>>
    BY <1>10 DEF GetParameter, End, ScriptReads, Echo
  <2>2. /\ ccmd' = c /\ ccmd' \in Cmd /\ inp' \in Seq(Cmd) /\ Len(inp') <= InCap
        /\ Elements(inp) = {c} \cup Elements(inp')
    BY <2>1, TookType
  <2>3. c.id \in Id /\ (c.op = "get" => c.name \in Params)
    BY <2>1, <2>2 DEF TypeInv, NameInv, Naming, Cmd
  <2>4. \E l \in Line : /\ say' = <<l>>
                        /\ l.what # "prompt" => l.name \in Params
    <3>1. CASE say' = <<Say("prompt", NoName, 0)>>
      BY <1>0, <3>1, CmdType
    <3>2. CASE say' = <<Say("fault", c.name, c.id)>> /\ c.op = "get"
      BY <2>3, <3>2, CmdType
    <3>3. CASE say' = <<Say("value", c.name, c.id)>> /\ c.op = "get"
      BY <2>3, <3>3, CmdType
    <3> QED BY <1>10, <3>1, <3>2, <3>3 DEF GetParameter, End, Echo, ScriptReads
  <2>5. PICK l \in Line : say' = <<l>> /\ (l.what # "prompt" => l.name \in Params)
    BY <2>4
  <2>6. <<l>> \in Seq(Line) /\ <<l>> # <<>> /\ Elements(<<l>>) = {l}
    BY <2>5, OneElement
  <2> HIDE DEF c
  <2> QED BY <2>1, <2>2, <2>5, <2>6 DEF TypeInv, TypeOK, NameInv
<1>11. CASE Exit
  <2>1. /\ Taken(inp, Head(inp), inp') /\ Gone
        /\ UNCHANGED <<stores, outp, daemon, observers>>
    BY <1>11 DEF Exit, ScriptReads, Taken
  <2>2. inp' \in Seq(Cmd) /\ Len(inp') <= InCap /\ Elements(inp') \subseteq Elements(inp)
    <3> DEFINE h == Head(inp)
    <3> HIDE DEF h
    <3>1. /\ inp' \in Seq(Cmd) /\ Len(inp) \in Nat /\ Len(inp') = Len(inp) - 1
          /\ Elements(inp) = {h} \cup Elements(inp')
      BY <2>1, Reads DEF TypeInv, TypeOK, h
    <3> QED BY <3>1, PipeAssumption DEF TypeInv, TypeOK
  <2>3. Plain("end") \in Cmd
    BY CmdType
  <2> QED BY <2>1, <2>2, <2>3, Nothing DEF Gone, TypeInv, TypeOK, NameInv
<1>12. CASE ScriptDies
  <2>1. Plain("end") \in Cmd /\ deaths' \in 0..MaxDeath
    BY <1>12, CmdType, PipeAssumption, SMTT(30) DEF ScriptDies, TypeInv, TypeOK
  <2>2. Unfinished \subseteq Id
    <3>1. req.id \in Id /\ ccmd.id \in Id
      BY DEF TypeInv, TypeOK, Cmd
    <3>2. \A i \in DOMAIN inp : inp[i] \in Cmd
      BY LenProperties, ElementOfSeq DEF TypeInv, TypeOK
    <3>3. \A i \in DOMAIN inp : inp[i].id \in Id
      BY <3>2 DEF Cmd
    <3> QED BY <3>1, <3>3 DEF Unfinished
  <2>3. orphaned' \subseteq Id
    BY <1>12, <2>2 DEF ScriptDies, TypeInv, TypeOK
  <2> QED BY <1>0, <1>12, <2>1, <2>3, Nothing
          DEF ScriptDies, Gone, TypeInv, TypeOK, NameInv
<1> QED BY <1>1, <1>2, <1>3, <1>4, <1>5, <1>6, <1>7, <1>8, <1>9, <1>10, <1>11,
           <1>12
        DEF ScriptStep


\* The record of a request.
Request_ == [id: Id, kind: Kind \cup {NoKind}, names: Seq(Params)]

\* A handler that ends with an answer leaves nothing of the conversation.
LEMMA AnswerType ==
  ASSUME TypeInv, NEW v \in {"status", "fault", "list"}, Answer(v)
  PROVE  /\ verdict' \in [Id -> {"none", "status", "fault", "list"}]
         /\ verdict' = [verdict EXCEPT ![req.id] = v]
         /\ listed' \subseteq Params /\ list' = <<>> /\ rest' = <<>>
<1>1. /\ list \in Seq(Line) /\ req.id \in Id
      /\ verdict \in [Id -> {"none", "status", "fault", "list"}]
  BY DEF TypeInv, TypeOK
<1>2. DOMAIN list = 1..Len(list)
  BY <1>1, LenProperties
<1>3. \A i \in DOMAIN list : list[i].name \in Params
  BY <1>2 DEF TypeInv, NameInv, Elements
<1> QED BY <1>1, <1>3 DEF Answer, TypeInv, TypeOK

\* What external_read_pipe's callers do next keeps the types.
LEMMA ReadDoneType ==
  ASSUME TypeInv, dpc = "read", ReadDone
  PROVE  /\ dpc' \in {"idle", "write", "wait"}
         /\ task' \in {"init", "rpc", "service", "exit"}
         /\ toSend' \in Seq(Cmd) /\ (toSend' = <<>> <=> dpc' # "write")
         /\ rest' \in Seq(Params) /\ list' \in Seq(Line) /\ status' \in Id
         /\ verdict' \in [Id -> {"none", "status", "fault", "list"}]
         /\ listed' \subseteq Params
         /\ Elements(list') \subseteq Elements(list)
         /\ \A x \in Elements(toSend') : x.op \in Naming => x.name \in Params
         /\ \A x \in Elements(toSend') : x.op # "set"
<1>1. /\ req \in Request_ /\ toSend = <<>> /\ rest \in Seq(Params)
      /\ list \in Seq(Line) /\ status \in Id /\ listed \subseteq Params
      /\ verdict \in [Id -> {"none", "status", "fault", "list"}] /\ 0 \in Id
  BY IdType DEF TypeInv, TypeOK, Request_
<1>2. CASE task \in {"init", "exit"}
  BY <1>1, <1>2, Nothing DEF ReadDone
<1>3. CASE task = "service"
  <2>1. Plain("exit") \in Cmd /\ Plain("exit").op = "exit"
    BY CmdType
  <2> DEFINE s == <<Plain("exit")>>
  <2>2. s \in Seq(Cmd) /\ s # <<>> /\ Elements(s) = {Plain("exit")}
    BY <2>1, OneElement
  <2>3. /\ task' = "exit" /\ toSend' = s /\ dpc' = "write"
        /\ UNCHANGED <<rest, list, status, verdict, listed>>
    BY <1>3 DEF ReadDone
  <2> HIDE DEF s
  <2> QED BY <1>1, <2>1, <2>2, <2>3 DEF Naming
<1>4. CASE task = "rpc"
  <2>1. UNCHANGED task /\ (DecideSet \/ DecideObject \/ DecideGet)
    BY <1>4 DEF ReadDone
  <2>2. CASE DecideSet
    <3>1. \E v \in {"status", "fault"} : Answer(v)
      BY <2>2 DEF DecideSet
    <3> QED BY <1>1, <1>4, <2>1, <2>2, <3>1, AnswerType, Nothing, SMTT(30)
            DEF DecideSet
  <2>3. CASE DecideObject
    <3> DEFINE a == Command("apply_object", req, NoName)
               s == <<a>>
    <3>1. a \in Cmd /\ a.op = "apply_object"
      BY <1>1, CmdType DEF Op, Request_
    <3>2. s \in Seq(Cmd) /\ s # <<>> /\ Elements(s) = {a}
      BY <3>1, OneElement
    <3>3. /\ status' = 0 /\ \E v \in {"status", "fault"} : Answer(v)
          /\ \/ dpc' = "idle" /\ toSend' = <<>>
             \/ dpc' = "write" /\ toSend' = s
      BY <2>3 DEF DecideObject
    <3>4. /\ verdict' \in [Id -> {"none", "status", "fault", "list"}]
          /\ listed' \subseteq Params /\ list' = <<>> /\ rest' = <<>>
      BY <3>3, AnswerType
    <3>5. Elements(<<>>) = {} /\ <<>> \in Seq(Line) /\ <<>> \in Seq(Params)
          /\ <<>> \in Seq(Cmd)
      BY Nothing
    <3> HIDE DEF s, a
    <3>6. \/ toSend' = <<>> /\ dpc' = "idle"
          \/ toSend' = s /\ dpc' = "write"
      BY <3>3
    <3>7. /\ dpc' \in {"idle", "write", "wait"} /\ toSend' \in Seq(Cmd)
          /\ (toSend' = <<>> <=> dpc' # "write")
          /\ \A x \in Elements(toSend') : x.op \notin Naming
      BY <3>1, <3>2, <3>5, <3>6 DEF Naming
    <3> QED BY <1>1, <1>4, <2>1, <3>3, <3>4, <3>5, <3>7 DEF Naming
  <2>4. CASE DecideGet
    <3>1. CASE FaultInList(list) \/ rest = <<>>
      <4>1. /\ dpc' = "idle" /\ toSend' = <<>> /\ UNCHANGED status
            /\ \E v \in {"list", "fault"} : Answer(v)
        BY <2>4, <3>1 DEF DecideGet
      <4> QED BY <1>1, <1>4, <2>1, <4>1, AnswerType, Nothing
    <3>2. CASE ~(FaultInList(list) \/ rest = <<>>)
      <4> DEFINE g == Command("get", req, Head(rest))
                 e == Plain("end")
                 s == <<g, e>>
      <4>1. Head(rest) \in Params /\ Tail(rest) \in Seq(Params)
        BY <1>1, <3>2, HeadTailProperties
      <4>2. g \in Cmd /\ g.op = "get" /\ g.name \in Params
            /\ e \in Cmd /\ e.op = "end"
        BY <1>1, <4>1, CmdType DEF Op, Request_
      <4>3. s \in Seq(Cmd) /\ s # <<>> /\ Elements(s) = {g, e}
        BY <4>2, TwoElements
      <4>4. /\ dpc' = "write" /\ toSend' = s /\ rest' = Tail(rest)
            /\ UNCHANGED <<status, list, verdict, listed>>
        BY <2>4, <3>2 DEF DecideGet
      <4> HIDE DEF s, g, e
      <4> QED BY <1>1, <1>4, <2>1, <4>1, <4>2, <4>3, <4>4 DEF Naming
    <3> QED BY <3>1, <3>2
  <2> QED BY <2>1, <2>2, <2>3, <2>4
<1> QED BY <1>2, <1>3, <1>4 DEF TypeInv, TypeOK

\* external_add_list_paramameter appends the line or changes nothing.
LEMMA AddListCases ==
  ASSUME NEW l, NEW line
  PROVE  LET m == external_add_list_paramameter(l, line) IN
         \/ m = l /\ \E i \in DOMAIN l : l[i].name = line.name
         \/ Written(l, line, m)
<1> DEFINE same == {i \in DOMAIN l : l[i].name = line.name}
<1>1. CASE same = {}
  BY <1>1 DEF external_add_list_paramameter, Written
<1>2. CASE same # {}
  <2>1. PICK i \in DOMAIN l : l[i].name = line.name
    BY <1>2
  <2> QED BY <2>1 DEF external_add_list_paramameter, Written
<1> QED BY <1>1, <1>2

\* The steps of the daemon keep the types.
LEMMA DaemonTypeStep ==
  ASSUME TypeInv,
         \/ ExternalInit \/ EndSession \/ DaemonStep
         \/ \E kind \in Kind : \E names \in NameLists(kind) : Request(kind, names)
  PROVE  TypeInv'
<1> USE DEF daemon, script, stores, pipes, observers
<1>0. Len(<<>>) <= InCap /\ Len(<<>>) <= OutCap /\ 0 \in Id
  BY PipeAssumption, Nothing, IdType
<1>1. CASE ExternalInit
  <2> DEFINE p == Say("prompt", NoName, 0)
             s == <<p>>
  <2>1. p \in Line /\ p.what = "prompt" /\ Plain("end") \in Cmd
    BY <1>0, CmdType
  <2>2. s \in Seq(Line) /\ s # <<>> /\ Elements(s) = {p}
    BY <2>1, OneElement
  <2>3. /\ dpc = "down" /\ dpc' = "read" /\ task' = "init" /\ cpc' = "print"
        /\ say' = s /\ ccmd' = Plain("end") /\ todo' = <<>> /\ rev' = FALSE
        /\ inp' = <<>> /\ outp' = <<>>
        /\ UNCHANGED <<toSend, req, rest, list, status, stores, observers>>
    BY <1>1 DEF ExternalInit
  <2> HIDE DEF p, s
  <2> QED BY <1>0, <2>1, <2>2, <2>3, Nothing DEF TypeInv, TypeOK, NameInv
<1>2. CASE EndSession
  <2> DEFINE a == Plain("apply_service")
             e == Plain("end")
             s == <<a, e>>
  <2>1. a \in Cmd /\ a.op = "apply_service" /\ e \in Cmd /\ e.op = "end"
    BY CmdType
  <2>2. s \in Seq(Cmd) /\ s # <<>> /\ Elements(s) = {a, e}
    BY <2>1, TwoElements
  <2>3. /\ dpc = "idle" /\ dpc' = "write" /\ task' = "service" /\ toSend' = s
        /\ UNCHANGED <<req, rest, list, status, script, stores, pipes, observers>>
    BY <1>2 DEF EndSession
  <2> HIDE DEF a, e, s
  <2> QED BY <2>1, <2>2, <2>3 DEF TypeInv, TypeOK, NameInv, Naming
<1>3. ASSUME NEW kind \in Kind, NEW names \in NameLists(kind),
             Request(kind, names)
      PROVE  TypeInv'
  <2>1. names \in Seq(Params) /\ (kind \notin SetKind => names # <<>>)
    BY NameListsType
  <2>2. /\ dpc = "idle" /\ nreq < MaxReq /\ nreq' = nreq + 1
        /\ req' = [id |-> nreq + 1, kind |-> kind, names |-> names]
        /\ toSend' = Conversation(req') /\ dpc' = "write" /\ task' = "rpc"
        /\ rest' = IF kind \in GetKind THEN Tail(names) ELSE <<>>
        /\ listed' = {} /\ orphaned' \subseteq orphaned \cup {nreq + 1}
        /\ UNCHANGED <<list, status, script, stores, pipes, deaths, verdict>>
    BY <1>3 DEF Request
  <2>3. nreq' \in Id
    BY <2>2, IdType DEF TypeInv, TypeOK
  <2>4. /\ req' \in [id: Id, kind: Kind, names: Seq(Params)]
        /\ req'.kind = kind /\ req'.names = names
    BY <2>1, <2>2, <2>3
  <2>5. rest' \in Seq(Params)
    BY <2>1, <2>2, HeadTailProperties, Nothing DEF GetKind, SetKind
  <2>6. /\ toSend' \in Seq(Cmd) /\ toSend' # <<>>
        /\ \A x \in Elements(toSend') :
             /\ x.op \in Naming => x.name \in Params
             /\ x.op = "set" => x.kind \in SetKind
    <3>1. req'.kind \notin SetKind => req'.names # <<>>
      BY <2>1, <2>4
    <3>2. CASE kind \in SetKind
      BY <2>2, <2>4, <3>1, <3>2, ConversationShape DEF Naming, SetKind
    <3>3. CASE kind \notin SetKind
      BY <2>2, <2>4, <3>1, <3>3, ConversationShape
         DEF Naming, Kind, SetKind, ObjectKind, GetKind
    <3> QED BY <3>2, <3>3
  <2> QED BY <2>2, <2>3, <2>4, <2>5, <2>6 DEF TypeInv, TypeOK, NameInv
<1>4. CASE ExternalWritePipe
  <2> DEFINE h == Head(toSend)
  <2>1. /\ dpc = "write" /\ Taken(toSend, h, toSend')
        /\ \/ Len(inp) < InCap /\ Written(inp, h, inp')
           \/ UNCHANGED inp
        /\ UNCHANGED <<task, req, rest, list, status, outp, script, stores,
                       observers>>
        /\ \/ toSend' # <<>> /\ dpc' = "write"
           \/ toSend' = <<>> /\ dpc' \in {"read", "idle"}
    <3>1. dpc = "write" /\ Taken(toSend, h, toSend')
      BY <1>4 DEF ExternalWritePipe, Taken, TypeInv, TypeOK
    <3>2. \/ Len(inp) < InCap /\ Written(inp, h, inp')
          \/ UNCHANGED inp
      BY <1>4 DEF ExternalWritePipe, Written
    <3>3. \/ toSend' # <<>> /\ dpc' = "write"
          \/ toSend' = <<>> /\ dpc' \in {"read", "idle"}
      BY <1>4 DEF ExternalWritePipe
    <3> QED BY <1>4, <3>1, <3>2, <3>3 DEF ExternalWritePipe
  <2> HIDE DEF h
  <2>2. /\ h \in Cmd /\ toSend' \in Seq(Cmd)
        /\ Elements(toSend) = {h} \cup Elements(toSend')
    BY <2>1, Reads DEF TypeInv, TypeOK
  <2>3. /\ inp' \in Seq(Cmd) /\ Len(inp') <= InCap
        /\ Elements(inp') \subseteq Elements(inp) \cup {h}
    <3>1. CASE UNCHANGED inp
      BY <3>1 DEF TypeInv, TypeOK
    <3>2. CASE Len(inp) < InCap /\ Written(inp, h, inp')
      <4>1. /\ inp' \in Seq(Cmd) /\ Len(inp') = Len(inp) + 1 /\ Len(inp) \in Nat
            /\ Elements(inp') = Elements(inp) \cup {h}
        BY <2>2, <3>2, Appends DEF TypeInv, TypeOK
      <4> QED BY <3>2, <4>1, PipeAssumption
    <3> QED BY <2>1, <3>1, <3>2
  <2> QED BY <2>1, <2>2, <2>3, SMTT(30) DEF TypeInv, TypeOK, NameInv
<1>5. CASE ReadLine
  <2> DEFINE l == Head(outp)
  <2>1. /\ Taken(outp, l, outp') /\ l.what # "prompt" /\ HandleLine(l)
        /\ UNCHANGED <<dpc, task, toSend, req, rest, inp, script, stores,
                       observers>>
    BY <1>5 DEF ReadLine, Taken
  <2> HIDE DEF l
  <2>2. /\ l \in Line /\ outp' \in Seq(Line) /\ Len(outp') = Len(outp) - 1
        /\ Len(outp) \in Nat /\ Elements(outp) = {l} \cup Elements(outp')
    BY <2>1, Reads DEF TypeInv, TypeOK
  <2>3. l.id \in Id /\ Len(outp') <= OutCap
    BY <2>2, PipeAssumption DEF TypeInv, TypeOK, Line
  <2>4. /\ status' \in Id /\ list' \in Seq(Line)
        /\ Elements(list') \subseteq Elements(list) \cup {l}
        /\ l.what = "status" => list' = list
    <3>1. CASE UNCHANGED list
      BY <2>1, <2>3, <3>1 DEF HandleLine, TypeInv, TypeOK
    <3>2. CASE list' # list
      <4>1. /\ list' = external_add_list_paramameter(list, l)
            /\ UNCHANGED status /\ l.what # "status"
        BY <2>1, <3>2 DEF HandleLine
      <4>2. Written(list, l, list')
        BY <3>2, <4>1, AddListCases
      <4> QED BY <2>2, <4>1, <4>2, Appends DEF TypeInv, TypeOK
    <3> QED BY <3>1, <3>2
  <2> QED BY <2>1, <2>2, <2>3, <2>4, SMTT(30) DEF TypeInv, TypeOK, NameInv
<1>6. CASE ReadPrompt \/ ReadEof
  <2>1. /\ dpc = "read" /\ ReadDone
        /\ UNCHANGED <<req, inp, script, stores, nreq, deaths, orphaned>>
    BY <1>6 DEF ReadPrompt, ReadEof
  <2>2. /\ outp' \in Seq(Line) /\ Len(outp') <= OutCap
        /\ Elements(outp') \subseteq Elements(outp)
    <3>1. CASE UNCHANGED outp
      BY <3>1 DEF TypeInv, TypeOK
    <3>2. CASE Taken(outp, Head(outp), outp')
      <4> DEFINE h == Head(outp)
      <4> HIDE DEF h
      <4>1. /\ outp' \in Seq(Line) /\ Len(outp') = Len(outp) - 1
            /\ Len(outp) \in Nat /\ Elements(outp) = {h} \cup Elements(outp')
        <5>1. outp \in Seq(Line) /\ Taken(outp, h, outp')
          BY <3>2 DEF TypeInv, TypeOK, h
        <5> QED BY <5>1, Reads
      <4> QED BY <4>1, PipeAssumption DEF TypeInv, TypeOK
    <3> QED BY <1>6, <3>1, <3>2 DEF ReadPrompt, ReadEof, Taken
  <2> QED BY <2>1, <2>2, ReadDoneType DEF TypeInv, TypeOK, NameInv
<1>7. CASE ExternalExit
  BY <1>0, <1>7, Nothing DEF ExternalExit, TypeInv, TypeOK, NameInv
<1> QED BY <1>1, <1>2, <1>3, <1>4, <1>5, <1>6, <1>7 DEF DaemonStep

\* So every step does.
LEMMA TypeStep == TypeInv /\ [Next]_vars => TypeInv'
<1> SUFFICES ASSUME TypeInv, [Next]_vars PROVE TypeInv'
  OBVIOUS
<1>1. CASE Next
  BY <1>1, ScriptTypeStep, DaemonTypeStep DEF Next
<1>2. CASE UNCHANGED vars
  BY <1>2 DEF vars, daemon, script, stores, pipes, observers, TypeInv, TypeOK,
              NameInv
<1> QED BY <1>1, <1>2

\* The daemon's and the script's variables keep their types and the pipes their
\* capacities, for every number of names, requests and deaths (TypeOK).
THEOREM TypesHold == Spec => []TypeOK
<1>1. Spec => []TypeInv
  BY TypeInit, TypeStep, PTL DEF Spec
<1> QED BY <1>1, PTL DEF TypeInv


-----------------------------------------------------------------------------
(* The flow of commands and lines *)

\* The commands on their way to the script, and the one it works on.
Queue == Elements(inp) \cup Elements(toSend)
Working == {"print", "eval", "revert", "commit", "rm_fault", "rm_command"}
InHand == IF cpc \in Working THEN {ccmd} ELSE {}

\* The lines on their way to the daemon.
Lines == Elements(outp) \cup Elements(say)

\* A request is being served and has no answer yet.
Open == task = "rpc" /\ dpc \in {"write", "read"} /\ verdict[req.id] = "none"

\* The command y may be sent after x while x is not done.
Prec(x, y) ==
  \/ x.op = "apply_object" /\ y.op \notin {"apply_object", "exit"}
  \/ x.op = "set" /\ y.op \in {"set", "apply", "end"}
  \/ x.op \in {"apply", "add", "delete", "get", "apply_service"} /\ y.op = "end"

\* Commands come in the order of a conversation, and the prompt comes last.
OrderInv ==
  /\ \A x, y : After(inp, x, y) \/ After(toSend, x, y) => Prec(x, y)
  /\ \A x \in Elements(inp), y \in Elements(toSend) : Prec(x, y)
  /\ \A x \in InHand, y \in Queue : Prec(x, y)
  /\ \A x, y : After(outp, x, y) \/ After(say, x, y) => x.what # "prompt"
  /\ \A x \in Elements(outp) : x.what = "prompt" =>
       say = <<>> /\ Queue = {} /\ InHand = {} /\ dpc = "read"

\* What the script does for the command it has in hand.
ScriptInv ==
  /\ ~Alive => inp = <<>>
  /\ cpc = "print" => ccmd.op \in {"apply", "add", "delete", "get", "end"}
  /\ cpc \in {"eval", "revert", "rm_fault", "rm_command"} => ccmd.op = "apply"
  /\ cpc = "commit" => ccmd.op \in {"apply", "apply_object"}
  /\ \A l \in Elements(say) :
       /\ l.what = "prompt" <=> ccmd.op = "end"
       /\ l.what = "status" => ccmd.op \in {"apply", "add", "delete"}
       /\ ccmd.op = "apply" => l.what \in {"status", "fault"}
  /\ \A l, m \in Elements(say) : l.what = "status" => m.what = "status"

\* What the daemon may assume when it writes, and when it does not.
DaemonInv ==
  /\ dpc = "idle" =>
       /\ outp = <<>> /\ cpc \in {"none", "zombie", "read", "commit"}
       /\ cpc = "commit" => ccmd.op = "apply_object"
       /\ \A x \in Elements(inp) : x.op = "apply_object"
  /\ dpc = "write" =>
       \E x \in Elements(toSend) : x.op \in {"end", "exit", "apply_object"}
  /\ \A x \in Elements(toSend) : x.op = "apply_object" =>
       /\ Elements(toSend) = {x} /\ inp = <<>> /\ outp = <<>> /\ InHand = {}
       /\ task = "rpc" /\ x.id = req.id
  /\ ~Open => list = <<>> /\ status = 0
  /\ req.id = nreq /\ verdict[0] = "none"
  /\ \A i \in Id : i > nreq => verdict[i] = "none"
  /\ task = "rpc" =>
       /\ req.id # 0 /\ req.kind \in Kind
       /\ req.kind \notin SetKind => req.names # <<>>
       /\ dpc = "read" => verdict[req.id] = "none"

\* Every command belongs to the conversation that is going on, save an
\* "apply object", whose method has been answered.
CmdInv ==
  \A x \in Queue \cup InHand :
    /\ x.op \in {"set", "apply"} => /\ Open /\ req.kind \in SetKind
                                    /\ x.kind = req.kind /\ x.id = req.id
    /\ x.op \in {"add", "delete"} => /\ Open /\ x.op = req.kind
                                     /\ x.id = req.id /\ x.name = Head(req.names)
    /\ x.op = "get" => Open /\ req.kind = "get" /\ x.id = req.id
    /\ x.op = "apply_object" => verdict[x.id] = "status"
    /\ x.op = "end" => /\ dpc \in {"write", "read"}
                       /\ task = "rpc" => verdict[req.id] = "none"
    /\ x.op = "exit" => dpc \in {"write", "read"} /\ task = "exit"

\* So does every line.
LineInv ==
  /\ \A l \in Lines :
       /\ l.what # "prompt" => Open
       /\ l.what = "status" => /\ req.kind \in SetKind \cup ObjectKind
                               /\ l.id = req.id
  /\ status # 0 => req.kind \in SetKind \cup ObjectKind
  /\ \A l \in Elements(fault_file) : l.what = "fault"

HasStatus == status # 0 \/ \E l \in Lines : l.what = "status"
Evaluating == cpc = "eval" \/ (cpc = "print" /\ ccmd.op = "apply" /\ rev)

\* Something is asked for to which no line has been printed.
Unanswered ==
  \/ \E x \in Queue : x.op \notin {"end", "exit"}
  \/ cpc = "commit" /\ ccmd.op = "apply_object"
  \/ cpc = "eval" /\ ~rev

\* A Set method or an object method gets a status line or faults, not both.
AnswerInv ==
  /\ Unanswered => /\ outp = <<>> /\ say = <<>> /\ status = 0
                   /\ list = <<>> \/ req.kind = "get"
  /\ Evaluating \/ cpc = "revert" => ~HasStatus
  /\ cpc = "commit" /\ ccmd.op = "apply" => HasStatus
  /\ HasStatus => \A l \in Lines \cup Elements(list) : l.what # "fault"

FlowInv == OrderInv /\ ScriptInv /\ DaemonInv /\ CmdInv /\ LineInv /\ AnswerInv

\* Nothing is on its way at the start.
LEMMA FlowInit == Init => FlowInv
<1> SUFFICES ASSUME Init PROVE FlowInv
  OBVIOUS
<1>1. /\ Queue = {} /\ InHand = {} /\ Lines = {} /\ Elements(list) = {}
      /\ Elements(fault_file) = {} /\ Elements(say) = {} /\ Elements(outp) = {}
      /\ Elements(inp) = {} /\ Elements(toSend) = {}
      /\ cpc = "none" /\ dpc = "down" /\ task = "init" /\ status = 0
      /\ list = <<>> /\ inp = <<>> /\ ~HasStatus
  BY Nothing DEF Init, Queue, InHand, Lines, Working, HasStatus
<1>2. req.id = nreq /\ \A i \in Id : verdict[i] = "none"
  BY DEF Init, NoReq
<1>3. OrderInv
  BY <1>1, Nothing DEF OrderInv, Init
<1>4. ScriptInv /\ CmdInv /\ LineInv /\ AnswerInv
  BY <1>1 DEF ScriptInv, CmdInv, LineInv, AnswerInv, Evaluating, Unanswered
<1>5. DaemonInv
  BY <1>1, <1>2, IdType DEF DaemonInv
<1> QED BY <1>3, <1>4, <1>5 DEF FlowInv

\* What the script prints when it takes a command.
FirstLines ==
  /\ cpc' = "print" => ccmd'.op \in {"apply", "add", "delete", "get", "end"}
  /\ cpc' = "print" /\ ccmd'.op = "apply" => ~rev'
  /\ cpc' = "eval" => ccmd'.op = "apply"
  /\ cpc' = "commit" => ccmd'.op = "apply_object"
  /\ \A l \in Elements(say') :
       /\ l.what = "prompt" <=> ccmd'.op = "end"
       /\ l.what = "status" => ccmd'.op \in {"add", "delete"} /\ l.id = ccmd'.id
       /\ ccmd'.op = "apply" => l.what = "fault"
  /\ \A l, m \in Elements(say') : l.what = "status" => m.what = "status"
  /\ \A x, y : After(say', x, y) => x.what # "prompt"

\* The script takes a command.
LEMMA FlowTake ==
  ASSUME TypeInv, TypeInv', FlowInv, cpc = "read", inp # <<>>, Took,
         cpc' \in {"read", "print", "eval", "commit"}, FirstLines,
         UNCHANGED <<outp, daemon, observers>>,
         \A l \in Elements(fault_file') : l.what = "fault"
  PROVE  FlowInv'
<1> USE DEF daemon, observers
<1> DEFINE c == ccmd'
<1>1. /\ Elements(inp) = {c} \cup Elements(inp')
      /\ \A x, y : After(inp', x, y) => After(inp, x, y)
      /\ \A x \in Elements(inp') : After(inp, c, x)
  BY TookType
<1>2. /\ InHand = {} /\ InHand' \subseteq {c} /\ c \in Queue
      /\ Queue' \subseteq Queue /\ Queue = Queue' \cup {c}
      /\ cpc' \in Working => InHand' = {c}
  BY <1>1 DEF Queue, InHand, Working
<1>3. /\ cpc' = "print" <=> say' # <<>>
      /\ say' # <<>> <=> Elements(say') # {}
      /\ say = <<>> /\ Elements(say) = {}
  <2>1. (cpc' = "print" <=> say' # <<>>) /\ say' \in Seq(Line)
    BY DEF TypeInv, NameInv, TypeOK
  <2>2. say = <<>>
    BY DEF TypeInv, NameInv
  <2> QED BY <2>1, <2>2, NoElements, Nothing
<1>4. /\ Open' = Open /\ Lines' = Elements(outp) \cup Elements(say')
      /\ Lines = Elements(outp) /\ Elements(outp') = Elements(outp)
  BY <1>3 DEF Open, Lines
<1> HIDE DEF c
<1>5. \A x \in Elements(outp) : x.what # "prompt"
  BY <1>2 DEF FlowInv, OrderInv
<1>6. \A y \in Queue' : cpc' \in Working => Prec(c, y)
  BY <1>1, <1>2 DEF FlowInv, OrderInv, Queue
<1>7. OrderInv'
  BY <1>1, <1>2, <1>5, <1>6 DEF FlowInv, OrderInv, FirstLines, Queue
<1>8. ScriptInv'
  BY <1>3 DEF FlowInv, ScriptInv, FirstLines, Alive
<1>9. CmdInv'
  BY <1>2, <1>4 DEF FlowInv, CmdInv
<1>10. DaemonInv'
  <2>1. dpc = "idle" => c.op = "apply_object" /\ cpc' \in {"read", "commit"}
    BY <1>1, <1>3 DEF FlowInv, DaemonInv, FirstLines, c
  <2>2. \A x \in Elements(toSend) : x.op # "apply_object"
    BY DEF FlowInv, DaemonInv
  <2> QED BY <1>1, <1>4, <2>1, <2>2 DEF FlowInv, DaemonInv, c
<1>11. LineInv'
  BY <1>2, <1>3, <1>4
     DEF FlowInv, LineInv, CmdInv, FirstLines, c, ObjectKind
<1>12. c.op \notin {"end", "exit"} => Unanswered
  BY <1>2 DEF Unanswered
<1>13. AnswerInv'
  <2>1. Unanswered' => Unanswered /\ say' = <<>>
    BY <1>2, <1>3, <1>6, <1>12
       DEF Unanswered, FirstLines, Prec, Working, c
  <2>2. Unanswered' => /\ outp' = <<>> /\ say' = <<>> /\ status' = 0
                       /\ list' = <<>> \/ req'.kind = "get"
    BY <2>1 DEF FlowInv, AnswerInv
  <2>3. ASSUME Evaluating' \/ cpc' = "revert"
        PROVE  ~HasStatus'
    <3>1. cpc' = "eval" /\ c.op = "apply"
      BY <2>3 DEF Evaluating, FirstLines, c
    <3> QED BY <1>3, <1>4, <1>12, <3>1, Nothing
            DEF FlowInv, AnswerInv, HasStatus
  <2>4. ASSUME HasStatus', NEW l \in Lines' \cup Elements(list')
        PROVE  l.what # "fault"
    <3>1. CASE \E m \in Elements(say') : m.what = "status"
      <4>1. c.op \in {"add", "delete"}
        BY <3>1 DEF FirstLines, c
      <4>2. outp = <<>> /\ list = <<>>
        BY <1>2, <1>12, <4>1 DEF FlowInv, AnswerInv, CmdInv
      <4> QED BY <1>4, <2>4, <3>1, <4>2, Nothing DEF FirstLines
    <3>2. CASE ~\E m \in Elements(say') : m.what = "status"
      <4>1. HasStatus
        BY <1>4, <2>4, <3>2 DEF HasStatus
      <4>2. c.op \in {"end", "exit"}
        BY <1>4, <1>12, <4>1, Nothing DEF FlowInv, AnswerInv, HasStatus
      <4>3. \A m \in Elements(say') : m.what = "prompt"
        BY <1>3, <4>2 DEF FirstLines, c
      <4> QED BY <1>4, <2>4, <4>1, <4>3 DEF FlowInv, AnswerInv
    <3> QED BY <3>1, <3>2
  <2> QED BY <2>2, <2>3, <2>4 DEF AnswerInv, FirstLines
<1> QED BY <1>7, <1>8, <1>9, <1>10, <1>11, <1>13 DEF FlowInv


\* The actions in which the script reads a command, other than "exit".
TakeStep == \/ SetValue \/ SetNotification \/ Apply \/ AddOrDeleteObject
            \/ ApplyObject \/ GetParameter \/ ApplyService \/ End

\* A command that the script answers with one line, and with what line.
LEMMA OneLine ==
  ASSUME NEW what \in {"prompt", "status", "noinstance", "fault", "value"},
         NEW name \in Name, NEW id \in Id,
         Echo(<<Say(what, name, id)>>)
  PROVE  /\ cpc' = "print" /\ UNCHANGED <<todo, rev>>
         /\ \A l \in Elements(say') : l.what = what /\ l.name = name /\ l.id = id
         /\ \A x, y : ~After(say', x, y)
         /\ Elements(say') # {}
<1> DEFINE l == Say(what, name, id)
<1>1. l \in Line /\ l.what = what /\ l.name = name /\ l.id = id
  BY CmdType
<1>2. cpc' = "print" /\ say' = <<l>> /\ UNCHANGED <<todo, rev>>
  BY DEF Echo
<1> HIDE DEF l
<1>3. Elements(say') = {l} /\ \A x, y : ~After(say', x, y)
  BY <1>1, <1>2, OneElement
<1> QED BY <1>1, <1>2, <1>3

\* Reading a command and answering it keeps the flow.
LEMMA FlowTakes ==
  ASSUME TypeInv, TypeInv', FlowInv, TakeStep
  PROVE  FlowInv'
<1> USE DEF stores, observers
<1> DEFINE c == Head(inp)
<1>1. /\ cpc = "read" /\ inp # <<>> /\ Took
      /\ UNCHANGED <<outp, daemon, observers>>
  BY DEF TakeStep, SetValue, SetNotification, Apply, AddOrDeleteObject,
         ApplyObject, GetParameter, ApplyService, End, ScriptReads
<1>2. ccmd' = c /\ c \in Cmd /\ c \in Elements(inp)
  BY <1>1, TookType
<1>3. c.id \in Id /\ c.name \in Name
  BY <1>2 DEF Cmd
<1>4. say = <<>> /\ Elements(say) = {} /\ \A x, y : ~After(say, x, y)
  BY <1>1, Nothing DEF TypeInv, NameInv
<1>5. \A l \in Elements(fault_file) : l.what = "fault"
  BY DEF FlowInv, LineInv
<1>6. CASE SetValue \/ SetNotification
  <2> DEFINE f == Say("fault", c.name, c.id)
  <2>1. /\ cpc' = "read" /\ UNCHANGED say
        /\ UNCHANGED fault_file \/ Written(fault_file, f, fault_file')
    BY <1>6 DEF SetValue, SetNotification, ReadOn, Written
  <2>2. f \in Line /\ f.what = "fault"
    BY <1>3, CmdType
  <2> HIDE DEF f
  <2>3. \A l \in Elements(fault_file') : l.what = "fault"
    <3>1. CASE Written(fault_file, f, fault_file')
      <4>1. Elements(fault_file') = Elements(fault_file) \cup {f}
        <5>1. fault_file \in Seq(Line)
          BY DEF TypeInv, TypeOK
        <5> QED BY <2>2, <3>1, <5>1, Appends
      <4> QED BY <1>5, <2>2, <4>1
    <3> QED BY <1>5, <2>1, <3>1
  <2>4. FirstLines
    BY <1>4, <2>1 DEF FirstLines
  <2> QED BY <1>1, <2>1, <2>3, <2>4, FlowTake
<1>7. CASE Apply
  <2>1. /\ c.op = "apply" /\ UNCHANGED fault_file /\ rev' = FALSE
        /\ \/ cpc' = "print" /\ say' = fault_file
           \/ cpc' = "eval" /\ UNCHANGED say
    BY <1>7 DEF Apply, ScriptReads
  <2>2. \A x, y : After(fault_file, x, y) => x.what = "fault"
    BY <1>5, NoElements DEF TypeInv, TypeOK
  <2>3. FirstLines
    <3>1. CASE cpc' = "print" /\ say' = fault_file
      BY <1>2, <1>5, <2>1, <2>2, <3>1 DEF FirstLines
    <3>2. CASE cpc' = "eval" /\ UNCHANGED say
      BY <1>2, <1>4, <2>1, <3>2 DEF FirstLines
    <3> QED BY <2>1, <3>1, <3>2
  <2> QED BY <1>1, <1>5, <2>1, <2>3, FlowTake
<1>8. CASE ApplyObject \/ ApplyService
  <2>1. /\ UNCHANGED <<say, fault_file>>
        /\ cpc' = "read" \/ (cpc' = "commit" /\ c.op = "apply_object")
    BY <1>8 DEF ApplyObject, ApplyService, ReadOn, ScriptReads
  <2>2. FirstLines
    BY <1>2, <1>4, <2>1 DEF FirstLines
  <2> QED BY <1>1, <1>5, <2>1, <2>2, FlowTake
<1>9. CASE AddOrDeleteObject \/ GetParameter \/ End
  <2>1. /\ UNCHANGED fault_file
        /\ \E what \in {"prompt", "status", "noinstance", "fault", "value"},
              name \in Name, id \in Id :
             /\ Echo(<<Say(what, name, id)>>)
             /\ what = "prompt" <=> c.op = "end"
             /\ what = "status" => id = c.id /\ c.op \in {"add", "delete"}
             /\ c.op \in {"add", "delete", "get", "end"}
    <3>1. CASE AddOrDeleteObject
      <4>1. c.op \in {"add", "delete"} /\ UNCHANGED fault_file
        BY <3>1 DEF AddOrDeleteObject, ScriptReads, ObjectKind
      <4>2. \/ Echo(<<Say("status", NoName, c.id)>>)
            \/ \E what \in {"fault", "noinstance"} : Echo(<<Say(what, c.name, c.id)>>)
        BY <3>1 DEF AddOrDeleteObject
      <4> QED BY <1>3, <4>1, <4>2, CmdType
    <3>2. CASE GetParameter
      <4>1. c.op = "get" /\ UNCHANGED fault_file
        BY <3>2 DEF GetParameter, ScriptReads
      <4>2. \E what \in {"value", "fault"} : Echo(<<Say(what, c.name, c.id)>>)
        BY <3>2 DEF GetParameter
      <4> QED BY <1>3, <4>1, <4>2
    <3>3. CASE End
      <4>1. /\ c.op = "end" /\ UNCHANGED fault_file
            /\ Echo(<<Say("prompt", NoName, 0)>>)
        BY <3>3 DEF End, ScriptReads
      <4> QED BY <4>1, CmdType, IdType
    <3> QED BY <1>9, <3>1, <3>2, <3>3
  <2>2. PICK what \in {"prompt", "status", "noinstance", "fault", "value"},
             name \in Name, id \in Id :
             /\ Echo(<<Say(what, name, id)>>)
             /\ what = "prompt" <=> c.op = "end"
             /\ what = "status" => id = c.id /\ c.op \in {"add", "delete"}
             /\ c.op \in {"add", "delete", "get", "end"}
    BY <2>1
  <2>3. /\ cpc' = "print" /\ \A x, y : ~After(say', x, y)
        /\ \A l \in Elements(say') : l.what = what /\ l.id = id
    BY <2>2, OneLine
  <2>4. FirstLines
    BY <1>2, <2>2, <2>3 DEF FirstLines
  <2> QED BY <1>1, <1>5, <2>1, <2>3, <2>4, FlowTake
<1> QED BY <1>6, <1>7, <1>8, <1>9 DEF TakeStep


\* The script at work on "apply" or "apply object", while it prints nothing.
WorkStep == \/ EvalLine \/ EvalDone \/ Revert \/ Commit \/ RemoveFaultFile
            \/ RemoveCommandFile

\* How these steps move the script, and what they make it say.
LEMMA WorkCases ==
  ASSUME TypeInv, FlowInv, WorkStep
  PROVE  /\ cpc \in {"eval", "revert", "commit", "rm_fault", "rm_command"}
         /\ UNCHANGED <<ccmd, pipes, daemon, observers>>
         /\ \/ UNCHANGED say /\ cpc' = "read" /\ cpc \in {"commit", "rm_command"}
               /\ (cpc = "commit" => ccmd.op = "apply_object")
            \/ UNCHANGED say /\ cpc' \in {"rm_fault", "rm_command"}
               /\ cpc \notin {"eval", "rm_command"} /\ ccmd.op = "apply"
            \/ UNCHANGED <<say, rev>> /\ cpc = "eval" /\ cpc' \in {"eval", "revert"}
            \/ /\ cpc = "eval" /\ cpc' = "print" /\ rev'
               /\ \A l \in Elements(say') : l.what = "fault"
               /\ \A x, y : ~After(say', x, y)
            \/ /\ cpc = "eval" /\ cpc' = "print" /\ ~rev /\ ~rev'
               /\ \A l \in Elements(say') : l.what = "status" /\ l.id = ccmd.id
               /\ \A x, y : ~After(say', x, y)
<1> USE DEF stores, observers, daemon, pipes
<1>1. CASE EvalLine
  <2> DEFINE e == Head(todo)
             l == Say("fault", e.name, e.id)
  <2>1. Taken(todo, e, todo') /\ todo \in Seq(Entry)
    BY <1>1 DEF EvalLine, Taken, TypeInv, TypeOK
  <2>2. e \in Entry
    <3> HIDE DEF e
    <3> QED BY <2>1, Reads
  <2>3. l \in Line /\ l.what = "fault"
    BY <2>2, CmdType DEF Entry
  <2>4. \/ UNCHANGED <<cpc, say, rev>>
        \/ rev' = TRUE /\ cpc' = "print" /\ say' = <<l>>
    BY <1>1 DEF EvalLine
  <2> HIDE DEF l
  <2>5. Elements(<<l>>) = {l} /\ \A x, y : ~After(<<l>>, x, y)
    BY <2>3, OneElement
  <2>6. cpc = "eval" /\ UNCHANGED <<ccmd, pipes, daemon, observers>>
    BY <1>1 DEF EvalLine
  <2> QED BY <2>3, <2>4, <2>5, <2>6
<1>2. CASE EvalDone
  <2> DEFINE l == Say("status", NoName, ccmd.id)
  <2>1. l \in Line /\ l.what = "status" /\ l.id = ccmd.id
    BY CmdType DEF TypeInv, TypeOK, Cmd
  <2>2. /\ cpc = "eval" /\ UNCHANGED <<ccmd, rev, pipes, daemon, observers>>
        /\ \/ rev /\ cpc' = "revert" /\ UNCHANGED say
           \/ ~rev /\ cpc' = "print" /\ say' = <<l>>
    BY <1>2 DEF EvalDone
  <2> HIDE DEF l
  <2>3. Elements(<<l>>) = {l} /\ \A x, y : ~After(<<l>>, x, y)
    BY <2>1, OneElement
  <2> QED BY <2>1, <2>2, <2>3
<1>3. CASE Revert \/ RemoveFaultFile
  BY <1>3 DEF Revert, RemoveFaultFile, FlowInv, ScriptInv
<1>4. CASE Commit
  BY <1>4 DEF Commit, FlowInv, ScriptInv
<1>5. CASE RemoveCommandFile
  BY <1>5 DEF RemoveCommandFile
<1> QED BY <1>1, <1>2, <1>3, <1>4, <1>5 DEF WorkStep

\* They keep the flow: only "apply" is evaluated, and only once is a status
\* line printed.
LEMMA FlowWork ==
  ASSUME TypeInv, TypeInv', FlowInv, WorkStep
  PROVE  FlowInv'
<1>1. /\ cpc \in {"eval", "revert", "commit", "rm_fault", "rm_command"}
      /\ UNCHANGED <<ccmd, pipes, daemon, observers>>
      /\ \/ UNCHANGED say /\ cpc' = "read" /\ cpc \in {"commit", "rm_command"}
            /\ (cpc = "commit" => ccmd.op = "apply_object")
         \/ UNCHANGED say /\ cpc' \in {"rm_fault", "rm_command"}
            /\ cpc \notin {"eval", "rm_command"} /\ ccmd.op = "apply"
         \/ UNCHANGED <<say, rev>> /\ cpc = "eval" /\ cpc' \in {"eval", "revert"}
         \/ /\ cpc = "eval" /\ cpc' = "print" /\ rev'
            /\ \A l \in Elements(say') : l.what = "fault"
            /\ \A x, y : ~After(say', x, y)
         \/ /\ cpc = "eval" /\ cpc' = "print" /\ ~rev /\ ~rev'
            /\ \A l \in Elements(say') : l.what = "status" /\ l.id = ccmd.id
            /\ \A x, y : ~After(say', x, y)
  BY WorkCases
<1> USE DEF daemon, observers, pipes
<1>2. /\ InHand = {ccmd} /\ InHand' \subseteq {ccmd} /\ Queue' = Queue
      /\ Elements(inp') = Elements(inp) /\ Elements(outp') = Elements(outp)
      /\ Elements(toSend') = Elements(toSend) /\ Elements(list') = Elements(list)
      /\ Open' = Open
  BY <1>1 DEF InHand, Working, Queue, Open
<1>3. /\ say = <<>> /\ Elements(say) = {} /\ \A x, y : ~After(say, x, y)
      /\ Lines = Elements(outp) /\ Lines' = Elements(outp) \cup Elements(say')
  <2>1. say = <<>>
    BY <1>1 DEF TypeInv, NameInv
  <2> QED BY <1>2, <2>1, Nothing DEF Lines
<1>4. /\ ccmd.op \in {"apply", "apply_object"}
      /\ ccmd.op = "apply" => Open /\ req.kind \in SetKind /\ ccmd.id = req.id
      /\ cpc # "commit" => ccmd.op = "apply"
  BY <1>1, <1>2 DEF FlowInv, ScriptInv, CmdInv
<1>5. \A l \in Elements(fault_file') : l.what = "fault"
  <2>1. UNCHANGED fault_file \/ fault_file' = <<>>
    BY DEF WorkStep, EvalLine, EvalDone, Revert, Commit, RemoveFaultFile,
           RemoveCommandFile, stores
  <2> QED BY <2>1, Nothing DEF FlowInv, LineInv
<1>6. OrderInv'
  BY <1>1, <1>2, <1>3 DEF FlowInv, OrderInv
<1>7. ScriptInv'
  BY <1>1, <1>3, <1>4 DEF FlowInv, ScriptInv, Alive
<1>8. CmdInv'
  BY <1>1, <1>2 DEF FlowInv, CmdInv
<1>9. DaemonInv'
  BY <1>1, <1>2 DEF FlowInv, DaemonInv
<1>10. LineInv'
  BY <1>1, <1>2, <1>3, <1>4, <1>5 DEF FlowInv, LineInv, SetKind
<1>11. AnswerInv'
  <2>1. Unanswered' => Unanswered /\ UNCHANGED say
    BY <1>1, <1>2, <1>4 DEF Unanswered, FlowInv, OrderInv, Prec
  <2>2. ASSUME Evaluating' \/ cpc' = "revert"
        PROVE  ~HasStatus'
    BY <1>1, <1>2, <1>3, <2>2 DEF Evaluating, HasStatus, FlowInv, AnswerInv
  <2>3. ASSUME HasStatus', NEW l \in Lines' \cup Elements(list')
        PROVE  l.what # "fault"
    <3>1. CASE HasStatus
      BY <1>1, <1>2, <1>3, <2>3, <3>1 DEF Evaluating, FlowInv, AnswerInv
    <3>2. CASE ~HasStatus
      <4>1. cpc = "eval" /\ ~rev /\ \A m \in Elements(say') : m.what = "status"
        BY <1>1, <1>3, <2>3, <3>2 DEF HasStatus
      <4>2. outp = <<>> /\ list = <<>>
        BY <1>4, <4>1 DEF FlowInv, AnswerInv, Unanswered, SetKind
      <4> QED BY <1>2, <1>3, <2>3, <4>1, <4>2, Nothing
    <3> QED BY <3>1, <3>2
  <2>4. cpc' # "commit"
    BY <1>1
  <2> QED BY <1>1, <2>1, <2>2, <2>3, <2>4 DEF AnswerInv, FlowInv
<1> QED BY <1>6, <1>7, <1>8, <1>9, <1>10, <1>11 DEF FlowInv


\* The script prints a line.
LEMMA FlowEcho ==
  ASSUME TypeInv, TypeInv', FlowInv, EchoLine
  PROVE  FlowInv'
<1> DEFINE l == Head(say)
<1>1. /\ cpc = "print" /\ Taken(say, l, say') /\ Written(outp, l, outp')
      /\ \/ cpc' = "print" /\ say' # <<>>
         \/ say' = <<>> /\ cpc' = AfterEcho
      /\ UNCHANGED <<ccmd, todo, rev, inp, stores, daemon, observers>>
  BY DEF EchoLine, Taken, Written, TypeInv, NameInv
<1>2. /\ l \in Line /\ Elements(say) = {l} \cup Elements(say')
      /\ \A x, y : After(say', x, y) => After(say, x, y)
      /\ \A x \in Elements(say') : After(say, l, x)
  <2>1. say \in Seq(Line)
    BY DEF TypeInv, TypeOK
  <2> HIDE DEF l
  <2> QED BY <1>1, <2>1, Reads
<1>3. /\ cpc' \in {"print", "read", "commit", "eval", "rm_fault"}
      /\ cpc' = "read" => ccmd.op # "apply"
      /\ cpc' = "commit" => ccmd.op = "apply" /\ l.what = "status"
      /\ cpc' = "eval" => ccmd.op = "apply" /\ rev
      /\ cpc' = "rm_fault" => ccmd.op = "apply"
  BY <1>1, <1>2 DEF AfterEcho, FlowInv, ScriptInv
<1> HIDE DEF l
<1>4. /\ Elements(outp') = Elements(outp) \cup {l}
      /\ \A x, y : After(outp', x, y) =>
                     After(outp, x, y) \/ (x \in Elements(outp) /\ y = l)
  <2>1. outp \in Seq(Line)
    BY DEF TypeInv, TypeOK
  <2> QED BY <1>1, <1>2, <2>1, Appends
<1> USE DEF daemon, observers, stores
<1>5. /\ InHand = {ccmd} /\ InHand' \subseteq {ccmd} /\ Queue' = Queue
      /\ Elements(inp') = Elements(inp) /\ Elements(list') = Elements(list)
      /\ Elements(toSend') = Elements(toSend) /\ Elements(fault_file') = Elements(fault_file)
      /\ Open' = Open /\ Lines' = Lines /\ l \in Lines
      /\ HasStatus' = HasStatus
  <2>1. Lines' = Lines /\ l \in Lines
    BY <1>2, <1>4 DEF Lines
  <2> QED BY <1>1, <1>2, <1>4, <2>1 DEF InHand, Working, Queue, Open, HasStatus
<1>6. \A x \in Elements(outp) : x.what # "prompt"
  BY <1>5 DEF FlowInv, OrderInv
<1>7. l.what = "prompt" => /\ ccmd.op = "end" /\ Queue = {} /\ InHand' = {}
                           /\ dpc = "read" /\ say' = <<>>
  <2> SUFFICES ASSUME l.what = "prompt"
               PROVE  /\ ccmd.op = "end" /\ Queue = {} /\ InHand' = {}
                      /\ dpc = "read" /\ say' = <<>>
    OBVIOUS
  <2>1. ccmd.op = "end"
    BY <1>2 DEF FlowInv, ScriptInv
  <2>2. Queue = {}
    BY <1>5, <2>1 DEF FlowInv, OrderInv, Prec
  <2>3. dpc = "read"
    <3>1. dpc \in {"write", "read"}
      BY <1>5, <2>1 DEF FlowInv, CmdInv
    <3> QED BY <2>2, <3>1 DEF FlowInv, DaemonInv, Queue
  <2>4. say' = <<>>
    <3>1. Elements(say') = {}
      BY <1>2 DEF FlowInv, OrderInv
    <3> QED BY <3>1, NoElements DEF TypeInv, TypeOK
  <2>5. cpc' = "read"
    BY <1>1, <2>1, <2>4 DEF AfterEcho
  <2> QED BY <2>1, <2>2, <2>3, <2>4, <2>5 DEF InHand, Working
<1>8. OrderInv'
  BY <1>1, <1>2, <1>4, <1>5, <1>6, <1>7 DEF FlowInv, OrderInv
<1>9. ScriptInv'
  <2>1. say' = <<>> => Elements(say') = {}
    BY Nothing
  <2> QED BY <1>1, <1>2, <1>3, <2>1 DEF FlowInv, ScriptInv, Alive
<1>10. CmdInv'
  BY <1>1, <1>5 DEF FlowInv, CmdInv
<1>11. DaemonInv'
  BY <1>1, <1>5 DEF FlowInv, DaemonInv
<1>12. LineInv'
  BY <1>1, <1>5 DEF FlowInv, LineInv
<1>13. AnswerInv'
  <2>1. ~Unanswered /\ ~Unanswered'
    <3>1. ~Unanswered
      BY <1>1 DEF FlowInv, AnswerInv, Taken
    <3> QED BY <1>1, <1>3, <1>5, <3>1 DEF Unanswered
  <2>2. (Evaluating' => Evaluating) /\ cpc' # "revert"
    BY <1>1, <1>3 DEF Evaluating
  <2>3. cpc' = "commit" => HasStatus
    BY <1>3, <1>5 DEF HasStatus
  <2> QED BY <1>5, <2>1, <2>2, <2>3 DEF FlowInv, AnswerInv
<1> QED BY <1>8, <1>9, <1>10, <1>11, <1>12, <1>13 DEF FlowInv

\* The script ends: what it was told and has not done is lost, what it printed
\* is still read.
LEMMA FlowGone ==
  ASSUME TypeInv, TypeInv', FlowInv, Exit \/ ScriptDies
  PROVE  FlowInv'
<1> USE DEF daemon, stores
<1>1. /\ Gone /\ inp' = <<>>
      /\ UNCHANGED <<outp, stores, daemon, nreq, verdict>>
  <2>1. CASE ScriptDies
    BY <2>1 DEF ScriptDies
  <2>2. CASE Exit
    <3> DEFINE h == Head(inp)
    <3>1. /\ Taken(inp, h, inp') /\ h.op = "exit" /\ Gone
          /\ UNCHANGED <<outp, stores, daemon, nreq, verdict>>
      BY <2>2 DEF Exit, ScriptReads, Taken, observers
    <3> HIDE DEF h
    <3>2. inp' \in Seq(Cmd) /\ \A x \in Elements(inp') : After(inp, h, x)
      BY <3>1, Reads DEF TypeInv, TypeOK
    <3>3. Elements(inp') = {}
      BY <3>1, <3>2 DEF FlowInv, OrderInv, Prec
    <3> QED BY <3>1, <3>2, <3>3, NoElements
  <2> QED BY <2>1, <2>2
<1>2. /\ cpc' = "zombie" /\ say' = <<>> /\ ~rev'
      /\ Elements(say') = {} /\ Elements(inp') = {}
      /\ \A x, y : ~After(inp', x, y) /\ ~After(say', x, y)
  BY <1>1, Nothing DEF Gone
<1>3. /\ InHand' = {} /\ Queue' \subseteq Queue /\ Open' = Open
      /\ Elements(toSend') = Elements(toSend) /\ Elements(list') = Elements(list)
      /\ Elements(outp') = Elements(outp) /\ Lines' \subseteq Lines
      /\ Elements(fault_file') = Elements(fault_file) /\ Queue' = Elements(toSend)
      /\ (HasStatus' => HasStatus) /\ Lines' = Elements(outp)
  <2>1. Lines' \subseteq Lines /\ Lines' = Elements(outp)
    BY <1>1, <1>2 DEF Lines
  <2> QED BY <1>1, <1>2, <2>1 DEF InHand, Working, Queue, Open, HasStatus
<1>4. OrderInv'
  BY <1>1, <1>2, <1>3 DEF FlowInv, OrderInv
<1>5. ScriptInv'
  BY <1>1, <1>2 DEF ScriptInv, Alive
<1>6. CmdInv'
  BY <1>1, <1>3 DEF FlowInv, CmdInv
<1>7. DaemonInv'
  BY <1>1, <1>2, <1>3 DEF FlowInv, DaemonInv
<1>8. LineInv'
  BY <1>1, <1>3 DEF FlowInv, LineInv
<1>9. AnswerInv'
  <2>1. Unanswered' => Unanswered
    BY <1>2, <1>3 DEF Unanswered
  <2> QED BY <1>1, <1>2, <1>3, <2>1 DEF FlowInv, AnswerInv, Evaluating
<1> QED BY <1>4, <1>5, <1>6, <1>7, <1>8, <1>9 DEF FlowInv


\* A script is forked.
LEMMA FlowFork ==
  ASSUME TypeInv, TypeInv', FlowInv, ExternalInit
  PROVE  FlowInv'
<1> USE DEF stores, observers
<1> DEFINE p == Say("prompt", NoName, 0)
           e == Plain("end")
<1>1. p \in Line /\ p.what = "prompt" /\ e \in Cmd /\ e.op = "end"
  BY CmdType, IdType
<1>2. /\ dpc = "down" /\ dpc' = "read" /\ task' = "init" /\ cpc' = "print"
      /\ say' = <<p>> /\ ccmd' = e /\ inp' = <<>> /\ outp' = <<>>
      /\ UNCHANGED <<toSend, req, list, status, fault_file, verdict, nreq>>
  BY DEF ExternalInit
<1> HIDE DEF p, e
<1>3. Elements(say') = {p} /\ \A x, y : ~After(say', x, y)
  BY <1>1, <1>2, OneElement
<1>4. toSend' = <<>> /\ list' = <<>> /\ status' = 0
  BY <1>2 DEF TypeInv, TypeOK, FlowInv, DaemonInv, Open
<1>5. /\ Queue' = {} /\ InHand' = {e} /\ Lines' = {p} /\ ~Open' /\ ~HasStatus'
      /\ Elements(toSend') = {} /\ Elements(inp') = {} /\ Elements(outp') = {}
      /\ \A x, y : ~After(inp', x, y) /\ ~After(toSend', x, y) /\ ~After(outp', x, y)
  <2>1. Queue' = {} /\ InHand' = {e} /\ Lines' = {p}
    BY <1>2, <1>3, <1>4, Nothing DEF Queue, InHand, Working, Lines
  <2> QED BY <1>1, <1>2, <1>4, <2>1, Nothing DEF Open, HasStatus
<1>6. OrderInv' /\ ScriptInv' /\ CmdInv'
  BY <1>1, <1>2, <1>3, <1>5 DEF OrderInv, ScriptInv, CmdInv, Alive
<1>7. DaemonInv'
  BY <1>2, <1>4, <1>5 DEF FlowInv, DaemonInv
<1>8. LineInv'
  BY <1>1, <1>2, <1>4, <1>5 DEF FlowInv, LineInv
<1>9. AnswerInv'
  BY <1>1, <1>2, <1>5 DEF AnswerInv, Unanswered, Evaluating
<1> QED BY <1>6, <1>7, <1>8, <1>9 DEF FlowInv

\* The daemon starts a conversation: it begins with what the script may be
\* told while an "apply object" is still under way.
LEMMA FlowStart ==
  ASSUME TypeInv, TypeInv', FlowInv, dpc = "idle", dpc' = "write",
         UNCHANGED <<list, status, script, stores, pipes, verdict>>,
         \A x, y : After(toSend', x, y) => Prec(x, y),
         \A x \in Elements(toSend') : x.op \notin {"apply_object", "exit"},
         \E x \in Elements(toSend') : x.op = "end",
         req'.id = nreq', nreq' >= nreq,
         task' = "rpc" => /\ Open' /\ req'.id # 0 /\ req'.kind \in Kind
                          /\ req'.kind \notin SetKind => req'.names # <<>>,
         \A x \in Elements(toSend') :
           /\ x.op \in {"set", "apply"} => /\ Open' /\ req'.kind \in SetKind
                                           /\ x.kind = req'.kind /\ x.id = req'.id
           /\ x.op \in {"add", "delete"} =>
                Open' /\ x.op = req'.kind /\ x.id = req'.id
                  /\ x.name = Head(req'.names)
           /\ x.op = "get" => Open' /\ req'.kind = "get" /\ x.id = req'.id
  PROVE  FlowInv'
<1> USE DEF script, stores, pipes
<1>1. /\ outp = <<>> /\ list = <<>> /\ status = 0 /\ ~Open
      /\ cpc \in {"none", "zombie", "read", "commit"}
      /\ cpc = "commit" => ccmd.op = "apply_object"
      /\ \A x \in Elements(inp) : x.op = "apply_object"
  BY DEF FlowInv, DaemonInv, Open
<1>2. say = <<>>
  BY <1>1 DEF TypeInv, NameInv
<1>3. /\ \A x \in InHand : x.op = "apply_object"
      /\ InHand' = InHand /\ Elements(inp') = Elements(inp)
      /\ Queue' = Elements(inp) \cup Elements(toSend')
      /\ Elements(inp) \subseteq Queue
      /\ Lines' = {} /\ ~HasStatus' /\ Elements(say') = {} /\ Elements(outp') = {}
      /\ \A x, y : ~After(say', x, y) /\ ~After(outp', x, y)
  <2>1. Lines' = {} /\ Elements(say') = {} /\ Elements(outp') = {}
    BY <1>1, <1>2, Nothing DEF Lines
  <2> QED BY <1>1, <1>2, <2>1, Nothing DEF InHand, Working, Queue, HasStatus
<1>4. OrderInv'
  BY <1>1, <1>3 DEF FlowInv, OrderInv, Prec
<1>5. ScriptInv'
  BY <1>1, <1>3 DEF FlowInv, ScriptInv, Alive
<1>6. CmdInv'
  <2>1. \A x \in Elements(inp) \cup InHand : x.op = "apply_object" /\ verdict[x.id] = "status"
    BY <1>1, <1>3 DEF FlowInv, CmdInv, Queue
  <2>2. task' = "rpc" => verdict'[req'.id] = "none"
    BY DEF Open
  <2> QED BY <1>3, <2>1, <2>2 DEF CmdInv
<1>7. DaemonInv'
  <2>1. \A i \in Id : i > nreq' => verdict'[i] = "none"
    BY IdType DEF FlowInv, DaemonInv, TypeInv, TypeOK
  <2> QED BY <1>1, <2>1 DEF FlowInv, DaemonInv
<1>8. LineInv'
  BY <1>1, <1>3 DEF FlowInv, LineInv
<1>9. AnswerInv'
  BY <1>1, <1>2, <1>3 DEF AnswerInv, Evaluating
<1> QED BY <1>4, <1>5, <1>6, <1>7, <1>8, <1>9 DEF FlowInv

\* The service conversation that ends a session, and the ACS's requests.
LEMMA FlowStarts ==
  ASSUME TypeInv, TypeInv', FlowInv,
         \/ EndSession
         \/ \E kind \in Kind : \E names \in NameLists(kind) : Request(kind, names)
  PROVE  FlowInv'
<1> USE DEF observers
<1>0. nreq \in Nat /\ req.id = nreq
  BY IdType DEF TypeInv, TypeOK, FlowInv, DaemonInv
<1>1. CASE EndSession
  <2> DEFINE a == Plain("apply_service")
             e == Plain("end")
             s == <<a, e>>
  <2>1. a \in Cmd /\ a.op = "apply_service" /\ e \in Cmd /\ e.op = "end"
    BY CmdType
  <2>2. Elements(s) = {a, e} /\ \A x, y : After(s, x, y) => x = a /\ y = e
    BY <2>1, TwoElements
  <2>3. /\ dpc = "idle" /\ dpc' = "write" /\ task' = "service" /\ toSend' = s
        /\ UNCHANGED <<req, list, status, script, stores, pipes, nreq, verdict>>
    BY <1>1 DEF EndSession
  <2> HIDE DEF a, e, s
  <2>4. /\ \A x, y : After(toSend', x, y) => Prec(x, y)
        /\ \A x \in Elements(toSend') : x.op \in {"apply_service", "end"}
        /\ \E x \in Elements(toSend') : x.op = "end"
    BY <2>1, <2>2, <2>3 DEF Prec
  <2>5. req'.id = nreq' /\ nreq' >= nreq
    BY <1>0, <2>3
  <2> QED BY <2>3, <2>4, <2>5, FlowStart
<1>2. ASSUME NEW kind \in Kind, NEW names \in NameLists(kind),
             Request(kind, names)
      PROVE  FlowInv'
  <2>1. names \in Seq(Params) /\ (kind \notin SetKind => names # <<>>)
    BY NameListsType
  <2>2. /\ dpc = "idle" /\ nreq < MaxReq /\ nreq' = nreq + 1
        /\ req' = [id |-> nreq + 1, kind |-> kind, names |-> names]
        /\ toSend' = Conversation(req') /\ dpc' = "write" /\ task' = "rpc"
        /\ UNCHANGED <<list, status, script, stores, pipes, verdict>>
    BY <1>2 DEF Request
  <2>3. nreq' \in Id /\ nreq + 1 > nreq /\ nreq' # 0 /\ nreq' >= nreq
    BY <1>0, <2>2, IdType DEF TypeInv, TypeOK
  <2>4. /\ req' \in [id: Id, kind: Kind, names: Seq(Params)]
        /\ req'.kind = kind /\ req'.names = names /\ req'.id = nreq'
        /\ req'.kind \notin SetKind => req'.names # <<>>
    BY <2>1, <2>2, <2>3
  <2>5. Open'
    BY <2>2, <2>3, <2>4 DEF Open, FlowInv, DaemonInv
  <2>6. CASE kind \in SetKind
    <3>1. /\ \A x \in Elements(toSend') :
               /\ x.op \in {"set", "apply", "end"}
               /\ x.op = "end" \/ (x.id = req'.id /\ x.kind = req'.kind)
          /\ \E x \in Elements(toSend') : x.op = "end"
          /\ \A x, y : After(toSend', x, y) => Prec(x, y)
      BY <2>2, <2>4, <2>6, ConversationShape DEF Prec
    <3> QED BY <2>2, <2>3, <2>4, <2>5, <2>6, <3>1, FlowStart
  <2>7. CASE kind \notin SetKind
    <3>1. /\ kind \in {"add", "delete", "get"}
          /\ \A x \in Elements(toSend') :
               \/ x.op = "end"
               \/ x.id = req'.id /\ x.op = kind /\ x.name = Head(req'.names)
          /\ \E x \in Elements(toSend') : x.op = "end"
          /\ \A x, y : After(toSend', x, y) => Prec(x, y)
      BY <2>2, <2>4, <2>7, ConversationShape
         DEF Prec, Kind, SetKind, ObjectKind, GetKind
    <3> QED BY <2>2, <2>3, <2>4, <2>5, <2>7, <3>1, FlowStart
  <2> QED BY <2>6, <2>7
<1> QED BY <1>1, <1>2


\* The daemon writes a command, or fails to.
LEMMA FlowWrite ==
  ASSUME TypeInv, TypeInv', FlowInv, ExternalWritePipe
  PROVE  FlowInv'
<1> USE DEF script, stores, observers
<1> DEFINE h == Head(toSend)
<1>1. /\ dpc = "write" /\ Taken(toSend, h, toSend')
      /\ \/ Alive /\ Written(inp, h, inp')
         \/ ~Alive /\ UNCHANGED inp
      /\ UNCHANGED <<task, req, rest, list, status, outp, script, stores,
                     observers>>
      /\ \/ toSend' # <<>> /\ dpc' = "write"
         \/ toSend' = <<>> /\ dpc' = "read" /\ h.op \in {"end", "exit"}
         \/ toSend' = <<>> /\ dpc' = "idle" /\ h.op \notin {"end", "exit"}
  <2>1. dpc = "write" /\ Taken(toSend, h, toSend')
    BY DEF ExternalWritePipe, Taken, TypeInv, TypeOK
  <2>2. \/ Alive /\ Written(inp, h, inp')
        \/ ~Alive /\ UNCHANGED inp
    BY DEF ExternalWritePipe, Written
  <2>3. \/ toSend' # <<>> /\ dpc' = "write"
        \/ toSend' = <<>> /\ dpc' = "read" /\ h.op \in {"end", "exit"}
        \/ toSend' = <<>> /\ dpc' = "idle" /\ h.op \notin {"end", "exit"}
    BY DEF ExternalWritePipe
  <2> QED BY <2>1, <2>2, <2>3 DEF ExternalWritePipe
<1> HIDE DEF h
<1>2. /\ h \in Cmd /\ toSend' \in Seq(Cmd)
      /\ Elements(toSend) = {h} \cup Elements(toSend')
      /\ \A x, y : After(toSend', x, y) => After(toSend, x, y)
      /\ \A x \in Elements(toSend') : After(toSend, h, x)
  <2>1. toSend \in Seq(Cmd)
    BY DEF TypeInv, TypeOK
  <2> QED BY <1>1, <2>1, Reads
<1>3. /\ Elements(inp') \subseteq Elements(inp) \cup {h}
      /\ \A x, y : After(inp', x, y) =>
                     After(inp, x, y) \/ (x \in Elements(inp) /\ y = h)
      /\ ~Alive => inp' = inp
  <2>1. inp \in Seq(Cmd)
    BY DEF TypeInv, TypeOK
  <2>2. CASE Alive /\ Written(inp, h, inp')
    BY <1>2, <2>1, <2>2, Appends
  <2>3. CASE ~Alive /\ UNCHANGED inp
    BY <2>3
  <2> QED BY <1>1, <2>2, <2>3
<1>4. /\ toSend' = <<>> <=> Elements(toSend') = {}
  BY <1>2, NoElements
<1>5. /\ h \in Queue /\ Queue' \subseteq Queue /\ InHand' = InHand
      /\ Lines' = Lines /\ Elements(outp') = Elements(outp)
      /\ Elements(say') = Elements(say) /\ Elements(list') = Elements(list)
      /\ Elements(fault_file') = Elements(fault_file) /\ HasStatus' = HasStatus
      /\ (dpc' # "idle" => Open' = Open)
  <2>1. h \in Queue /\ Queue' \subseteq Queue
    BY <1>2, <1>3 DEF Queue
  <2>2. Lines' = Lines
    BY <1>1 DEF Lines
  <2> QED BY <1>1, <2>1, <2>2 DEF InHand, HasStatus, Open
<1>6. \A x \in Elements(toSend') : x.op # "apply_object" /\ Prec(h, x)
  BY <1>2 DEF FlowInv, DaemonInv, OrderInv, Prec
<1>7. dpc' = "idle" => /\ h.op = "apply_object" /\ Queue' \subseteq {h} /\ inp = <<>>
                       /\ outp = <<>> /\ InHand = {} /\ ~Open /\ ~Open' /\ Lines = {}
  <2> SUFFICES ASSUME dpc' = "idle"
               PROVE  /\ h.op = "apply_object" /\ Queue' \subseteq {h} /\ inp = <<>>
                      /\ outp = <<>> /\ InHand = {} /\ ~Open /\ ~Open' /\ Lines = {}
    OBVIOUS
  <2>1. h.op = "apply_object"
    BY <1>1, <1>2, <1>4 DEF FlowInv, DaemonInv
  <2>2. inp = <<>> /\ outp = <<>> /\ InHand = {} /\ h.id = req.id
    BY <1>2, <2>1 DEF FlowInv, DaemonInv
  <2>3. ~Open /\ ~Open'
    BY <1>5, <2>1, <2>2 DEF FlowInv, CmdInv, Open
  <2>4. Elements(inp) = {}
    BY <2>2, Nothing
  <2>5. Queue' \subseteq {h}
    BY <1>1, <1>3, <1>4, <2>4 DEF Queue
  <2>6. say = <<>>
    BY <2>2 DEF InHand, Working, TypeInv, NameInv
  <2> QED BY <2>1, <2>2, <2>3, <2>5, <2>6, Nothing DEF Lines
<1>8. OrderInv'
  BY <1>1, <1>2, <1>3, <1>5, <1>6 DEF FlowInv, OrderInv
<1>9. ScriptInv'
  BY <1>1, <1>3, <1>5 DEF FlowInv, ScriptInv, Alive
<1>10. CmdInv'
  <2>1. CASE dpc' = "idle"
    BY <1>1, <1>5, <1>7, <2>1 DEF FlowInv, CmdInv
  <2>2. CASE dpc' # "idle"
    BY <1>1, <1>5, <2>2 DEF FlowInv, CmdInv
  <2> QED BY <2>1, <2>2
<1>11. DaemonInv'
  <2>1. dpc' = "idle" => /\ outp' = <<>> /\ cpc' \in {"none", "zombie", "read"}
                         /\ \A x \in Elements(inp') : x.op = "apply_object"
    <3>1. cpc' \in {"none", "zombie", "read"} \cup Working
      BY DEF TypeInv, TypeOK, Working
    <3> QED BY <1>1, <1>5, <1>7, <3>1 DEF InHand, Queue
  <2>2. dpc' = "write" =>
          \E x \in Elements(toSend') : x.op \in {"end", "exit", "apply_object"}
    <3>1. PICK x \in Elements(toSend) : x.op \in {"end", "exit", "apply_object"}
      BY <1>1 DEF FlowInv, DaemonInv
    <3>2. dpc' = "write" => \E y \in Elements(toSend') : Prec(h, y) /\ y.op # "apply_object"
      BY <1>1, <1>4, <1>6
    <3>3. CASE x = h
      <4>1. x.op = "apply_object" => Elements(toSend) = {x}
        BY DEF FlowInv, DaemonInv
      <4> QED BY <1>2, <3>1, <3>2, <3>3, <4>1 DEF Prec
    <3> QED BY <1>2, <3>1, <3>3
  <2>3. task' = "rpc" /\ dpc' = "read" => verdict'[req'.id] = "none"
    BY <1>1, <1>5 DEF FlowInv, CmdInv
  <2>4. ~Open' => list' = <<>> /\ status' = 0
    BY <1>1, <1>5, <1>7 DEF FlowInv, DaemonInv
  <2> QED BY <1>1, <1>6, <2>1, <2>2, <2>3, <2>4 DEF FlowInv, DaemonInv
<1>12. LineInv'
  BY <1>1, <1>5, <1>7 DEF FlowInv, LineInv
<1>13. AnswerInv'
  <2>1. Unanswered' => Unanswered
    BY <1>1, <1>5 DEF Unanswered
  <2>2. Evaluating' = Evaluating
    BY <1>1 DEF Evaluating
  <2> QED BY <1>1, <1>5, <2>1, <2>2 DEF FlowInv, AnswerInv
<1> QED BY <1>8, <1>9, <1>10, <1>11, <1>12, <1>13 DEF FlowInv

\* The daemon reads a line that is for the request it serves.
LEMMA FlowRead ==
  ASSUME TypeInv, TypeInv', FlowInv, ReadLine
  PROVE  FlowInv'
<1> USE DEF script, stores, observers
<1> DEFINE l == Head(outp)
<1>1. /\ dpc = "read" /\ Taken(outp, l, outp') /\ l.what # "prompt" /\ HandleLine(l)
      /\ UNCHANGED <<dpc, task, toSend, req, rest, inp, script, stores, observers>>
  BY DEF ReadLine, Taken
<1> HIDE DEF l
<1>2. /\ l \in Line /\ Elements(outp) = {l} \cup Elements(outp')
      /\ \A x, y : After(outp', x, y) => After(outp, x, y)
  <2>1. outp \in Seq(Line)
    BY DEF TypeInv, TypeOK
  <2> QED BY <1>1, <2>1, Reads
<1>3. /\ l \in Lines /\ Lines = {l} \cup Lines' /\ Queue' = Queue
      /\ InHand' = InHand /\ Open' = Open /\ Elements(inp') = Elements(inp)
      /\ Elements(toSend') = Elements(toSend) /\ Elements(say') = Elements(say)
      /\ Elements(fault_file') = Elements(fault_file)
  <2>1. l \in Lines /\ Lines = {l} \cup Lines'
    BY <1>1, <1>2 DEF Lines
  <2> QED BY <1>1, <2>1 DEF Queue, InHand, Open
<1>4. /\ Open /\ task = "rpc" /\ req.id # 0
      /\ l.what = "status" => l.id = req.id /\ req.kind \in SetKind \cup ObjectKind
  BY <1>1, <1>3 DEF FlowInv, LineInv, DaemonInv, Open
<1>5. /\ l.what = "status" => status' = req.id /\ list' = list
      /\ l.what # "status" => status' = status
      /\ Elements(list') \subseteq Elements(list) \cup {l}
  <2>1. CASE l.what = "status"
    BY <1>1, <1>4, <2>1 DEF HandleLine
  <2>2. CASE l.what # "status"
    <3>1. list' = external_add_list_paramameter(list, l) /\ status' = status
      BY <1>1, <1>4, <2>2 DEF HandleLine
    <3>2. list' = list \/ Written(list, l, list')
      BY <3>1, AddListCases
    <3>3. list \in Seq(Line)
      BY DEF TypeInv, TypeOK
    <3>4. CASE Written(list, l, list')
      <4>1. Elements(list') = Elements(list) \cup {l}
        BY <1>2, <3>3, <3>4, Appends
      <4> QED BY <2>2, <3>1, <4>1
    <3> QED BY <2>2, <3>1, <3>2, <3>4
  <2> QED BY <2>1, <2>2
<1>6. HasStatus' = HasStatus
  BY <1>3, <1>4, <1>5 DEF HasStatus
<1>7. OrderInv'
  BY <1>1, <1>2, <1>3 DEF FlowInv, OrderInv
<1>8. ScriptInv'
  BY <1>1, <1>3 DEF FlowInv, ScriptInv, Alive
<1>9. CmdInv'
  BY <1>1, <1>3 DEF FlowInv, CmdInv
<1>10. DaemonInv'
  <2>1. toSend = <<>> /\ Elements(toSend) = {}
    BY <1>1, Nothing DEF TypeInv, TypeOK
  <2> QED BY <1>1, <1>3, <1>4, <2>1 DEF FlowInv, DaemonInv
<1>11. LineInv'
  BY <1>1, <1>3, <1>4, <1>5 DEF FlowInv, LineInv
<1>12. AnswerInv'
  <2>1. ~Unanswered /\ Unanswered' = Unanswered /\ Evaluating' = Evaluating
    BY <1>1, <1>3 DEF FlowInv, AnswerInv, Unanswered, Evaluating, Taken
  <2> QED BY <1>1, <1>3, <1>5, <1>6, <2>1 DEF FlowInv, AnswerInv
<1> QED BY <1>7, <1>8, <1>9, <1>10, <1>11, <1>12 DEF FlowInv


\* Nothing is left of a conversation that has ended.
LEMMA FlowQuiet ==
  ASSUME TypeInv', FlowInv, inp' = <<>>, outp' = <<>>, InHand' = {},
         UNCHANGED fault_file, DaemonInv', status' = 0,
         \A x, y : After(toSend', x, y) => Prec(x, y),
         \A x \in Elements(toSend') :
           /\ x.op \in {"get", "apply_object", "end", "exit"}
           /\ x.op = "get" => Open' /\ req'.kind = "get" /\ x.id = req'.id
           /\ x.op = "apply_object" => verdict'[x.id] = "status"
           /\ x.op = "end" => dpc' = "write" /\ (task' = "rpc" => verdict'[req'.id] = "none")
           /\ x.op = "exit" => dpc' = "write" /\ task' = "exit",
         list' = <<>> \/ req'.kind = "get"
  PROVE  FlowInv'
<1>1. cpc' \notin Working /\ say' = <<>>
  <2>1. cpc' \notin Working
    BY DEF InHand
  <2> QED BY <2>1 DEF Working, TypeInv, NameInv
<1>2. /\ Elements(inp') = {} /\ Elements(outp') = {} /\ Elements(say') = {}
      /\ \A x, y : ~After(inp', x, y) /\ ~After(outp', x, y) /\ ~After(say', x, y)
  BY <1>1, Nothing
<1>3. Queue' = Elements(toSend') /\ Lines' = {} /\ ~HasStatus'
  <2>1. Queue' = Elements(toSend') /\ Lines' = {}
    BY <1>2 DEF Queue, Lines
  <2> QED BY <2>1 DEF HasStatus
<1>4. OrderInv'
  BY <1>2 DEF OrderInv
<1>5. ScriptInv'
  BY <1>1, <1>2 DEF ScriptInv, Working
<1>6. CmdInv'
  BY <1>3 DEF CmdInv
<1>7. LineInv'
  BY <1>3 DEF LineInv, FlowInv
<1>8. AnswerInv'
  BY <1>1, <1>3 DEF AnswerInv, Evaluating, Working
<1> QED BY <1>4, <1>5, <1>6, <1>7, <1>8 DEF FlowInv

\* external_read_pipe returns only when the script has done all it was told:
\* at the prompt, or at an end of file.
LEMMA ReadReturns ==
  ASSUME TypeInv, FlowInv, ReadPrompt \/ ReadEof
  PROVE  /\ dpc = "read" /\ ReadDone /\ Queue = {} /\ InHand = {} /\ Lines' = {}
         /\ inp = <<>> /\ inp' = <<>> /\ outp' = <<>> /\ say = <<>> /\ InHand' = {}
         /\ toSend = <<>> /\ \A l \in Lines : l.what = "prompt"
         /\ UNCHANGED <<req, inp, script, stores, nreq, deaths, orphaned>>
<1> USE DEF script, stores, pipes
<1>1. /\ dpc = "read" /\ ReadDone
      /\ UNCHANGED <<req, inp, script, stores, nreq, deaths, orphaned>>
  BY DEF ReadPrompt, ReadEof
<1>2. toSend = <<>> /\ Elements(toSend) = {}
  BY <1>1, Nothing DEF TypeInv, TypeOK
<1>3. /\ Queue = {} /\ InHand = {} /\ say = <<>> /\ outp' = <<>>
      /\ \A l \in Elements(outp) : l.what = "prompt"
  <2>1. CASE ReadPrompt
    <3> DEFINE l == Head(outp)
    <3>1. Taken(outp, l, outp') /\ l.what = "prompt"
      BY <2>1 DEF ReadPrompt, Taken
    <3> HIDE DEF l
    <3>2. /\ Elements(outp) = {l} \cup Elements(outp') /\ outp' \in Seq(Line)
          /\ \A x \in Elements(outp') : After(outp, l, x)
      <4>1. outp \in Seq(Line)
        BY DEF TypeInv, TypeOK
      <4> QED BY <3>1, <4>1, Reads
    <3>3. Elements(outp') = {}
      BY <3>1, <3>2 DEF FlowInv, OrderInv
    <3>4. outp' = <<>>
      BY <3>2, <3>3, NoElements
    <3> QED BY <3>1, <3>2, <3>3, <3>4 DEF FlowInv, OrderInv
  <2>2. CASE ReadEof
    <3>1. outp = <<>> /\ ~Alive /\ outp' = outp
      BY <2>2 DEF ReadEof
    <3>2. inp = <<>> /\ say = <<>> /\ InHand = {}
      BY <3>1 DEF FlowInv, ScriptInv, Alive, TypeInv, NameInv, InHand, Working
    <3> QED BY <1>2, <3>1, <3>2, Nothing DEF Queue
  <2> QED BY <2>1, <2>2
<1>4. inp = <<>>
  <2>1. Elements(inp) = {} /\ inp \in Seq(Cmd)
    BY <1>3 DEF Queue, TypeInv, TypeOK
  <2> QED BY <2>1, NoElements
<1>5. InHand' = {} /\ Lines' = {} /\ \A l \in Lines : l.what = "prompt"
  BY <1>1, <1>3, Nothing DEF InHand, Lines
<1> QED BY <1>1, <1>2, <1>3, <1>4, <1>5

\* What the caller of external_read_pipe does then: it is done with the
\* conversation, or goes on with the commands that come next.
LEMMA ReadOutcome ==
  ASSUME TypeInv, FlowInv, dpc = "read", ReadDone
  PROVE  \/ /\ task # "rpc" /\ dpc' \in {"idle", "wait"} /\ toSend' = <<>>
            /\ UNCHANGED <<task, list, status, verdict>>
         \/ /\ task' = "exit" /\ dpc' = "write" /\ toSend' = <<Plain("exit")>>
            /\ UNCHANGED <<list, status, verdict>> /\ task # "rpc"
         \/ /\ task = "rpc" /\ task' = "rpc" /\ dpc' = "idle" /\ toSend' = <<>>
            /\ status' = 0 /\ \E v \in {"fault", "status", "list"} : Answer(v)
         \/ /\ task = "rpc" /\ task' = "rpc" /\ dpc' = "write" /\ status' = 0
            /\ toSend' = <<Command("apply_object", req, NoName)>>
            /\ Answer("status") /\ req.kind \in ObjectKind
         \/ /\ task = "rpc" /\ task' = "rpc" /\ dpc' = "write" /\ status' = 0
            /\ rest # <<>> /\ req.kind = "get"
            /\ toSend' = <<Command("get", req, Head(rest)), Plain("end")>>
            /\ UNCHANGED <<list, verdict>>
<1>1. task \in {"init", "rpc", "service", "exit"} /\ toSend = <<>>
  BY DEF TypeInv, TypeOK
<1>2. CASE task # "rpc"
  BY <1>1, <1>2 DEF ReadDone
<1>3. CASE task = "rpc"
  <2>1. UNCHANGED task /\ (DecideSet \/ DecideObject \/ DecideGet)
    BY <1>3 DEF ReadDone
  <2>2. FaultInList(list) => ~HasStatus
    <3>1. list \in Seq(Line)
      BY DEF TypeInv, TypeOK
    <3>2. FaultInList(list) => \E l \in Elements(list) : l.what = "fault"
      BY <3>1, NoElements DEF FaultInList, Elements
    <3> QED BY <3>2 DEF FlowInv, AnswerInv
  <2>3. CASE DecideSet
    <3>1. status' = 0
      BY <2>2, <2>3 DEF DecideSet, HasStatus
    <3> QED BY <1>3, <2>1, <2>3, <3>1 DEF DecideSet
  <2>4. CASE DecideObject
    BY <1>3, <2>1, <2>4 DEF DecideObject
  <2>5. CASE DecideGet
    <3>1. status = 0 /\ status' = 0 /\ req.kind = "get"
      BY <2>5 DEF DecideGet, FlowInv, LineInv, SetKind, ObjectKind, GetKind
    <3> QED BY <1>3, <2>1, <2>5, <3>1 DEF DecideGet
  <2> QED BY <2>1, <2>3, <2>4, <2>5
<1> QED BY <1>2, <1>3


\* The daemon has read to the end of an answer.
LEMMA FlowDone ==
  ASSUME TypeInv, TypeInv', FlowInv, ReadPrompt \/ ReadEof
  PROVE  FlowInv'
<1> USE DEF script, stores
<1>1. /\ dpc = "read" /\ ReadDone /\ inp' = <<>> /\ outp' = <<>> /\ InHand' = {}
      /\ UNCHANGED <<req, inp, script, stores, nreq, deaths, orphaned>>
  BY ReadReturns
<1>2. cpc' \in {"none", "zombie", "read"}
  BY <1>1 DEF InHand, Working, TypeInv, TypeOK
<1>3. Elements(inp') = {} /\ Elements(<<>>) = {} /\ \A x, y : ~After(<<>>, x, y)
  BY <1>1, Nothing
<1>4. /\ req.id = nreq /\ req.id \in Id /\ verdict \in [Id -> {"none", "status", "fault", "list"}]
      /\ task = "rpc" => Open /\ req.id # 0
      /\ req \in [id: Id, kind: Kind \cup {NoKind}, names: Seq(Params)]
      /\ task # "rpc" => ~Open /\ list = <<>> /\ status = 0
  BY <1>1 DEF FlowInv, DaemonInv, TypeInv, TypeOK, Open
<1>5. ASSUME NEW v \in {"fault", "status", "list"}, Answer(v), task = "rpc"
      PROVE  /\ list' = <<>> /\ ~Open' /\ verdict'[0] = "none" /\ verdict'[req.id] = v
             /\ \A i \in Id : i > nreq' => verdict'[i] = "none"
  <2>1. list' = <<>> /\ verdict' = [verdict EXCEPT ![req.id] = v]
    BY <1>5 DEF Answer
  <2>2. verdict'[req.id] = v /\ \A i \in Id : i # req.id => verdict'[i] = verdict[i]
    BY <1>4, <2>1
  <2>3. ~Open'
    BY <1>1, <2>2 DEF Open
  <2>4. \A i \in Id : i > nreq' => i # req.id
    BY <1>1, <1>4, IdType
  <2>5. verdict'[0] = "none"
    BY <1>4, <1>5, <2>2, IdType DEF FlowInv, DaemonInv
  <2> QED BY <1>1, <2>1, <2>2, <2>3, <2>4, <2>5 DEF FlowInv, DaemonInv
<1>6. CASE /\ task # "rpc" /\ dpc' \in {"idle", "wait"} /\ toSend' = <<>>
           /\ UNCHANGED <<task, list, status, verdict>>
  <2>1. DaemonInv'
    BY <1>1, <1>2, <1>3, <1>4, <1>6 DEF FlowInv, DaemonInv
  <2> QED BY <1>1, <1>3, <1>4, <1>6, <2>1, FlowQuiet
<1>7. CASE /\ task' = "exit" /\ dpc' = "write" /\ toSend' = <<Plain("exit")>>
           /\ UNCHANGED <<list, status, verdict>> /\ task # "rpc"
  <2> DEFINE e == Plain("exit")
  <2>1. e \in Cmd /\ e.op = "exit"
    BY CmdType
  <2>2. toSend' = <<e>>
    BY <1>7
  <2> HIDE DEF e
  <2>3. Elements(toSend') = {e} /\ \A x, y : ~After(toSend', x, y)
    BY <2>1, <2>2, OneElement
  <2>4. DaemonInv'
    BY <1>1, <1>2, <1>3, <1>4, <1>7, <2>1, <2>3 DEF FlowInv, DaemonInv
  <2> QED BY <1>1, <1>4, <1>7, <2>1, <2>3, <2>4, FlowQuiet
<1>8. CASE /\ task = "rpc" /\ task' = "rpc" /\ dpc' = "idle" /\ toSend' = <<>>
           /\ status' = 0 /\ \E v \in {"fault", "status", "list"} : Answer(v)
  <2>1. DaemonInv'
    BY <1>1, <1>2, <1>3, <1>4, <1>5, <1>8 DEF FlowInv, DaemonInv
  <2> QED BY <1>1, <1>3, <1>5, <1>8, <2>1, FlowQuiet
<1>9. CASE /\ task = "rpc" /\ task' = "rpc" /\ dpc' = "write" /\ status' = 0
           /\ toSend' = <<Command("apply_object", req, NoName)>>
           /\ Answer("status") /\ req.kind \in ObjectKind
  <2> DEFINE e == Command("apply_object", req, NoName)
  <2>1. e \in Cmd /\ e.op = "apply_object" /\ e.id = req.id
    BY <1>4, CmdType DEF Op
  <2>2. toSend' = <<e>>
    BY <1>9
  <2> HIDE DEF e
  <2>3. Elements(toSend') = {e} /\ \A x, y : ~After(toSend', x, y)
    BY <2>1, <2>2, OneElement
  <2>4. list' = <<>> /\ ~Open' /\ verdict'[req.id] = "status"
    BY <1>5, <1>9
  <2>5. DaemonInv'
    <3>1. verdict'[0] = "none" /\ \A i \in Id : i > nreq' => verdict'[i] = "none"
      BY <1>5, <1>9
    <3> QED BY <1>1, <1>2, <1>4, <1>9, <2>1, <2>3, <2>4, <3>1 DEF FlowInv, DaemonInv
  <2> QED BY <1>1, <1>9, <2>1, <2>3, <2>4, <2>5, FlowQuiet
<1>10. CASE /\ task = "rpc" /\ task' = "rpc" /\ dpc' = "write" /\ status' = 0
            /\ rest # <<>> /\ req.kind = "get"
            /\ toSend' = <<Command("get", req, Head(rest)), Plain("end")>>
            /\ UNCHANGED <<list, verdict>>
  <2> DEFINE g == Command("get", req, Head(rest))
             e == Plain("end")
  <2>1. Head(rest) \in Name
    BY <1>10, HeadTailProperties DEF TypeInv, TypeOK, Name
  <2>2. g \in Cmd /\ g.op = "get" /\ g.id = req.id /\ e \in Cmd /\ e.op = "end"
    BY <1>4, <2>1, CmdType DEF Op
  <2>3. toSend' = <<g, e>>
    BY <1>10
  <2> HIDE DEF g, e
  <2>4. /\ Elements(toSend') = {g, e}
        /\ \A x, y : After(toSend', x, y) => Prec(x, y)
    BY <2>2, <2>3, TwoElements DEF Prec
  <2>5. Open' /\ verdict'[req'.id] = "none"
    BY <1>1, <1>4, <1>10 DEF Open
  <2>6. DaemonInv'
    BY <1>1, <1>2, <1>4, <1>10, <2>2, <2>4, <2>5 DEF FlowInv, DaemonInv
  <2> QED BY <1>1, <1>10, <2>2, <2>4, <2>5, <2>6, FlowQuiet
<1> QED BY <1>1, <1>6, <1>7, <1>8, <1>9, <1>10, ReadOutcome

\* The child is reaped and the pipes are closed.
LEMMA FlowClose ==
  ASSUME TypeInv, TypeInv', FlowInv, ExternalExit
  PROVE  FlowInv'
<1> USE DEF stores, observers
<1>1. /\ dpc = "wait" /\ dpc' = "down" /\ cpc' = "none" /\ inp' = <<>> /\ outp' = <<>>
      /\ UNCHANGED <<task, toSend, req, list, status, fault_file, nreq, verdict>>
  BY DEF ExternalExit
<1>2. toSend' = <<>> /\ Elements(toSend') = {} /\ \A x, y : ~After(toSend', x, y)
  BY <1>1, Nothing DEF TypeInv, TypeOK
<1>3. InHand' = {} /\ ~Open /\ ~Open' /\ list = <<>> /\ status = 0
  BY <1>1 DEF InHand, Working, Open, FlowInv, DaemonInv
<1>4. DaemonInv'
  BY <1>1, <1>2, <1>3 DEF FlowInv, DaemonInv
<1> QED BY <1>1, <1>2, <1>3, <1>4, FlowQuiet

\* Every step keeps the flow.
LEMMA FlowStep == TypeInv /\ FlowInv /\ [Next]_vars => FlowInv'
<1> SUFFICES ASSUME TypeInv, FlowInv, [Next]_vars PROVE FlowInv'
  OBVIOUS
<1>1. TypeInv'
  BY TypeStep
<1>2. CASE ScriptStep
  BY <1>1, <1>2, FlowTakes, FlowWork, FlowEcho, FlowGone
     DEF ScriptStep, TakeStep, WorkStep
<1>3. CASE DaemonStep
  BY <1>1, <1>3, FlowWrite, FlowRead, FlowDone, FlowClose DEF DaemonStep
<1>4. CASE UNCHANGED vars
  <2> USE <1>4 DEF vars, daemon, script, stores, pipes, observers
  <2>1. /\ Queue' = Queue /\ InHand' = InHand /\ Lines' = Lines /\ Open' = Open
        /\ HasStatus' = HasStatus /\ Evaluating' = Evaluating
        /\ Unanswered' = Unanswered /\ Alive' = Alive
    <3>1. Queue' = Queue /\ InHand' = InHand /\ Lines' = Lines
      BY DEF Queue, InHand, Lines
    <3> QED BY <3>1 DEF Open, HasStatus, Evaluating, Unanswered, Alive
  <2>2. OrderInv' /\ ScriptInv' /\ DaemonInv'
    BY <2>1 DEF FlowInv, OrderInv, ScriptInv, DaemonInv
  <2>3. CmdInv' /\ LineInv' /\ AnswerInv'
    BY <2>1 DEF FlowInv, CmdInv, LineInv, AnswerInv
  <2> QED BY <2>2, <2>3 DEF FlowInv
<1> QED BY <1>1, <1>2, <1>3, <1>4, FlowFork, FlowStarts, FlowGone DEF Next

\* Types and flow together.
LEMMA FlowInvariance == Spec => [](TypeInv /\ FlowInv)
<1>1. Init => TypeInv /\ FlowInv
  BY TypeInit, FlowInit
<1>2. TypeInv /\ FlowInv /\ [Next]_vars => TypeInv' /\ FlowInv'
  BY TypeStep, FlowStep
<1> QED BY <1>1, <1>2, PTL DEF Spec

\* external_write_pipe and the script's echo, which both block, never wait for
\* each other, whatever the pipes hold: a script that prints has been told
\* nothing after it but "end", so the daemon has no more to write than fits.
THEOREM NoPipeDeadlock == Spec => []NeverBothBlocked
<1>1. TypeInv /\ FlowInv => NeverBothBlocked
  <2> SUFFICES ASSUME TypeInv, FlowInv, dpc = "write", Len(inp) = InCap, cpc = "print"
               PROVE  FALSE
    BY DEF NeverBothBlocked
  <2>1. InHand = {ccmd} /\ ccmd.op \in {"apply", "add", "delete", "get", "end"}
    BY DEF InHand, Working, FlowInv, ScriptInv
  <2>2. \A y \in Queue : y.op = "end"
    BY <2>1 DEF FlowInv, OrderInv, Prec
  <2>3. Elements(inp) # {} /\ Elements(toSend) # {}
    <3>1. inp \in Seq(Cmd) /\ toSend \in Seq(Cmd) /\ toSend # <<>>
      BY DEF TypeInv, TypeOK
    <3>2. inp # <<>>
      BY PipeAssumption, Nothing
    <3> QED BY <3>1, <3>2, NoElements
  <2>4. PICK x \in Elements(inp), y \in Elements(toSend) : Prec(x, y)
    BY <2>3 DEF FlowInv, OrderInv
  <2> QED BY <2>2, <2>4 DEF Queue, Prec
<1> QED BY <1>1, FlowInvariance, PTL

\* Between two conversations nothing of the last one is left, neither in the
\* pipes nor in external_list_parameter and external_method_status: no request
\* is given the answer to an earlier one, even after the script's death.
THEOREM AnswersAreNotMixed == Spec => []ConversationsInStep
<1>1. TypeInv /\ FlowInv => ConversationsInStep
  <2> SUFFICES ASSUME TypeInv, FlowInv, dpc = "idle"
               PROVE  /\ outp = <<>> /\ list = <<>> /\ status = 0
                      /\ \A i \in DOMAIN inp : inp[i].op = "apply_object"
                      /\ Alive /\ inp = <<>> => cpc \in {"read", "commit"}
    BY DEF ConversationsInStep
  <2>1. ~Open
    BY DEF Open
  <2>2. \A x \in Elements(inp) : x.op = "apply_object"
    BY DEF FlowInv, DaemonInv
  <2>3. DOMAIN inp = 1..Len(inp)
    BY LenProperties DEF TypeInv, TypeOK
  <2>4. \A i \in DOMAIN inp : inp[i].op = "apply_object"
    BY <2>2, <2>3 DEF Elements
  <2> QED BY <2>1, <2>4 DEF FlowInv, DaemonInv, Alive
<1> QED BY <1>1, FlowInvariance, PTL


-----------------------------------------------------------------------------
(* The files and the configuration *)

\* The script died on the current request, or was dead when it came.
Orphan == req.id \in orphaned

Asked(op) == \E x \in Queue : x.op = op

\* The "apply" of the current request is still to be done.
Applying == /\ Alive /\ Open
            /\ Asked("apply") \/ \E x \in InHand : x.op = "apply"

\* What outlives a script, and what a Set is sure to be followed by.
LifeInv ==
  /\ dpc = "down" => cpc = "none"
  /\ orphaned \subseteq 0..nreq
  /\ ~Alive /\ task = "rpc" /\ dpc \in {"write", "read"} => Orphan
  /\ Asked("set") => Asked("apply")
  /\ todo # <<>> => Evaluating
  /\ \A x \in Queue \cup InHand : x.id <= nreq

\* The command file and the fault file hold what the current Set put there, as
\* long as its "apply" has not removed them, and what a dead script left.
FileInv ==
  /\ \A e \in Elements(command_file) \cup Elements(fault_file) :
       e.id \in orphaned \/ (e.id = req.id /\ Applying)
  /\ \A e \in Elements(todo) : e.id \in orphaned \cup {req.id}
  /\ cpc = "rm_command" => fault_file = <<>>

\* Why a slot may hold a change that is not committed: a value is evaluated,
\* and reverted or committed by the same "apply"; an object waits for its
\* answer and then for its "apply object".
Pending(s) ==
  \/ s[1] = "notification"
  \/ staged[s] \in orphaned
  \/ /\ s[1] = "value" /\ staged[s] = req.id
     /\ \/ Evaluating \/ cpc = "revert"
        \/ cpc \in {"commit", "print"} /\ ccmd.op = "apply" /\ HasStatus
  \/ /\ s[1] = "object" /\ staged[s] = req.id
     /\ Open /\ req.kind \in ObjectKind /\ HasStatus
  \/ /\ s[1] = "object"
     /\ \E x \in Queue \cup InHand : x.op = "apply_object" /\ x.id = staged[s]

StagedInv ==
  /\ \A s \in Slot : staged[s] <= nreq
  /\ \A s \in Slot : staged[s] # config[s] => Pending(s)

\* What is committed belongs to a request that was not answered with a fault,
\* and will not be.
ConfigInv ==
  \A s \in Slot :
    /\ config[s] <= nreq
    /\ s[1] # "notification" /\ config[s] \notin orphaned =>
         /\ verdict[config[s]] # "fault"
         /\ config[s] = req.id /\ Open => req.kind \in SetKind /\ HasStatus

StoreInv == LifeInv /\ FileInv /\ StagedInv /\ ConfigInv

\* Nothing is staged and no file exists at the start.
LEMMA StoreInit == Init => StoreInv
<1> SUFFICES ASSUME Init PROVE StoreInv
  OBVIOUS
<1>1. /\ dpc = "down" /\ cpc = "none" /\ task = "init" /\ orphaned = {} /\ nreq = 0
      /\ todo = <<>> /\ command_file = <<>> /\ fault_file = <<>>
      /\ inp = <<>> /\ toSend = <<>> /\ \A i \in Id : verdict[i] = "none"
      /\ \A s \in Slot : staged[s] = 0 /\ config[s] = 0
  BY DEF Init
<1>2. /\ Queue = {} /\ Elements(todo) = {} /\ Elements(command_file) = {}
      /\ Elements(fault_file) = {}
  BY <1>1, Nothing DEF Queue
<1>3. LifeInv
  BY <1>1, <1>2 DEF LifeInv, Asked, InHand, Working
<1>4. FileInv
  BY <1>1, <1>2 DEF FileInv
<1>5. StagedInv
  BY <1>1 DEF StagedInv
<1>6. ConfigInv
  BY <1>1, IdType DEF ConfigInv, Open
<1> QED BY <1>3, <1>4, <1>5, <1>6 DEF StoreInv

\* A slot that a UCI change writes.
LEMMA SlotChange ==
  ASSUME NEW f \in [Slot -> Id], NEW k, NEW n, NEW i \in Id,
         NEW g, g = [f EXCEPT ![<<k, n>>] = i]
  PROVE  /\ \A s \in Slot : g[s] = f[s] \/ (s[1] = k /\ g[s] = i)
         /\ \A s \in Slot : s # <<k, n>> => g[s] = f[s]
         /\ <<k, n>> \in Slot => g[<<k, n>>] = i
BY DEF Slot

\* How taking a command moves it from the queue into the script's hand.
LEMMA TakeMoves ==
  ASSUME TypeInv, TypeInv', FlowInv, TakeStep
  PROVE  LET c == Head(inp) IN
         /\ cpc = "read" /\ c \in Cmd /\ ccmd' = c /\ c \in Queue
         /\ Queue = Queue' \cup {c} /\ InHand = {} /\ Elements(say) = {}
         /\ \A y \in Queue' : cpc' # "read" => Prec(c, y)
         /\ Open' = Open /\ Alive /\ Alive' /\ ~Evaluating
         /\ (Evaluating' <=> cpc' = "eval")
         /\ UNCHANGED <<outp, daemon, observers, config>>
         /\ cpc' # "read" => InHand' = {c}
         /\ c.op \in {"set", "apply_service"} <=> cpc' = "read"
         /\ c.op = "apply_object" <=> cpc' = "commit"
         /\ c.op = "apply" => cpc' \in {"print", "eval"}
         /\ cpc' \in {"read", "print", "eval", "commit"}
         /\ Lines \subseteq Lines' /\ (HasStatus => HasStatus')
<1> USE DEF stores, observers
<1> DEFINE c == Head(inp)
<1>1. /\ cpc = "read" /\ inp # <<>> /\ Took
      /\ UNCHANGED <<outp, daemon, observers, config>>
  BY DEF TakeStep, SetValue, SetNotification, Apply, AddOrDeleteObject,
         ApplyObject, GetParameter, ApplyService, End, ScriptReads
<1>2. /\ ccmd' = c /\ c \in Cmd /\ Elements(inp) = {c} \cup Elements(inp')
      /\ \A x \in Elements(inp') : After(inp, c, x)
  BY <1>1, TookType
<1>3. say = <<>> /\ Elements(say) = {}
  BY <1>1, Nothing DEF TypeInv, NameInv
<1>4. /\ c.op \in {"set", "apply_service"} <=> cpc' = "read"
      /\ c.op = "apply_object" <=> cpc' = "commit"
      /\ c.op = "apply" => cpc' \in {"print", "eval"}
      /\ cpc' = "print" /\ c.op = "apply" => ~rev'
      /\ cpc' = "eval" => c.op = "apply"
      /\ cpc' \in {"read", "print", "eval", "commit"}
  <2>1. CASE SetValue \/ SetNotification \/ ApplyService
    BY <2>1 DEF SetValue, SetNotification, ApplyService, ScriptReads, ReadOn
  <2>2. CASE Apply \/ ApplyObject
    BY <2>2 DEF Apply, ApplyObject, ScriptReads
  <2>3. CASE AddOrDeleteObject \/ GetParameter \/ End
    BY <2>3 DEF AddOrDeleteObject, GetParameter, End, ScriptReads, Echo, ObjectKind
  <2> QED BY <2>1, <2>2, <2>3 DEF TakeStep
<1> HIDE DEF c
<1>5. /\ InHand = {} /\ c \in Queue /\ Queue = Queue' \cup {c}
      /\ cpc' # "read" => InHand' = {c}
  BY <1>1, <1>2, <1>4 DEF Queue, InHand, Working, daemon
<1>6. \A y \in Queue' : cpc' # "read" => Prec(c, y)
  BY <1>1, <1>2 DEF FlowInv, OrderInv, Queue, daemon
<1>7. Lines \subseteq Lines' /\ (HasStatus => HasStatus')
  <2>1. Lines \subseteq Lines'
    BY <1>1, <1>3 DEF Lines
  <2> QED BY <1>1, <2>1 DEF HasStatus, daemon
<1>8. /\ Open' = Open /\ Alive /\ Alive' /\ ~Evaluating
      /\ (Evaluating' <=> cpc' = "eval")
  BY <1>1, <1>2, <1>4 DEF Open, Alive, Evaluating, daemon
<1> QED BY <1>1, <1>2, <1>3, <1>4, <1>5, <1>6, <1>7, <1>8 DEF c


\* What a command changes when it is taken: a Set writes to the two files or to
\* the notification lists, an object method stages a section and says so, and
\* an apply evaluates the command file.
LEMMA TakeEffects ==
  ASSUME TypeInv, TypeInv', FlowInv, TakeStep
  PROVE  LET c == Head(inp) IN
         /\ \A e \in Elements(command_file') \cup Elements(fault_file') :
              \/ e \in Elements(command_file) \cup Elements(fault_file)
              \/ c.op = "set" /\ e.id = c.id
         /\ \/ UNCHANGED todo
            \/ cpc' = "eval" /\ todo' = command_file
         /\ \A s \in Slot :
              \/ staged'[s] = staged[s]
              \/ s[1] = "notification" /\ c.op = "set" /\ staged'[s] = c.id
              \/ /\ s[1] = "object" /\ c.op \in ObjectKind
                 /\ staged'[s] = c.id /\ HasStatus'
<1> USE DEF stores
<1> DEFINE c == Head(inp)
<1>1. c \in Cmd /\ staged \in [Slot -> Id] /\ command_file \in Seq(Entry)
      /\ fault_file \in Seq(Line)
  BY TakeMoves DEF TypeInv, TypeOK
<1>2. c.id \in Id /\ c.name \in Name
  BY <1>1 DEF Cmd
<1>3. CASE SetValue \/ SetNotification
  <2> DEFINE e == [name |-> c.name, id |-> c.id]
             f == Say("fault", c.name, c.id)
  <2>1. /\ c.op = "set" /\ UNCHANGED todo
        /\ UNCHANGED command_file \/ Written(command_file, e, command_file')
        /\ UNCHANGED fault_file \/ Written(fault_file, f, fault_file')
        /\ \/ UNCHANGED staged
           \/ staged' = [staged EXCEPT ![<<"notification", c.name>>] = c.id]
    BY <1>3 DEF SetValue, SetNotification, ScriptReads, ReadOn, Written
  <2>2. f \in Line /\ f.id = c.id /\ e.id = c.id
    BY <1>2, CmdType
  <2>3. e \in Entry
    <3>1. c.name \in Params
      BY <1>3, <2>1, TakeMoves DEF TypeInv, NameInv, Naming, Queue
    <3> QED BY <1>2, <3>1 DEF Entry
  <2> HIDE DEF c, e, f
  <2>4. \A x \in Elements(command_file') : x \in Elements(command_file) \/ x = e
    <3>1. CASE Written(command_file, e, command_file')
      BY <1>1, <2>3, <3>1, Appends
    <3> QED BY <2>1, <3>1
  <2>5. \A x \in Elements(fault_file') : x \in Elements(fault_file) \/ x = f
    <3>1. CASE Written(fault_file, f, fault_file')
      BY <1>1, <2>2, <3>1, Appends
    <3> QED BY <2>1, <3>1
  <2>6. \A s \in Slot : staged'[s] = staged[s] \/ (s[1] = "notification" /\ staged'[s] = c.id)
    <3>1. CASE staged' = [staged EXCEPT ![<<"notification", c.name>>] = c.id]
      BY <1>1, <1>2, <3>1, SlotChange
    <3> QED BY <2>1, <3>1
  <2> QED BY <2>1, <2>2, <2>4, <2>5, <2>6 DEF c
<1>4. CASE Apply
  BY <1>4 DEF Apply
<1>5. CASE AddOrDeleteObject
  <2>1. /\ c.op \in ObjectKind /\ UNCHANGED <<command_file, fault_file, todo>>
        /\ \/ UNCHANGED staged
           \/ /\ staged' = [staged EXCEPT ![<<"object", c.name>>] = c.id]
              /\ Echo(<<Say("status", NoName, c.id)>>)
    BY <1>5 DEF AddOrDeleteObject, ScriptReads, Echo
  <2> HIDE DEF c
  <2>2. CASE /\ staged' = [staged EXCEPT ![<<"object", c.name>>] = c.id]
             /\ Echo(<<Say("status", NoName, c.id)>>)
    <3>1. \A s \in Slot : staged'[s] = staged[s] \/ (s[1] = "object" /\ staged'[s] = c.id)
      BY <1>1, <1>2, <2>2, SlotChange
    <3>2. HasStatus'
      BY <1>2, <2>2, OneLine, CmdType DEF HasStatus, Lines
    <3> QED BY <2>1, <3>1, <3>2 DEF c
  <2> QED BY <2>1, <2>2 DEF c
<1>6. CASE ApplyObject \/ GetParameter \/ ApplyService \/ End
  BY <1>6 DEF ApplyObject, GetParameter, ApplyService, End, Echo, ReadOn
<1> QED BY <1>3, <1>4, <1>5, <1>6 DEF TakeStep

\* Taking a command keeps the stores accounted for.
LEMMA StoreTake ==
  ASSUME TypeInv, TypeInv', FlowInv, FlowInv', StoreInv, TakeStep
  PROVE  StoreInv'
<1> DEFINE c == Head(inp)
<1>1. /\ cpc = "read" /\ c \in Cmd /\ ccmd' = c /\ c \in Queue
      /\ Queue = Queue' \cup {c} /\ InHand = {}
      /\ \A y \in Queue' : cpc' # "read" => Prec(c, y)
      /\ Open' = Open /\ Alive /\ Alive' /\ ~Evaluating
      /\ (Evaluating' <=> cpc' = "eval")
      /\ UNCHANGED <<daemon, observers, config>>
      /\ cpc' # "read" => InHand' = {c}
      /\ c.op \in {"set", "apply_service"} <=> cpc' = "read"
      /\ c.op = "apply_object" <=> cpc' = "commit"
      /\ c.op = "apply" => cpc' \in {"print", "eval"}
      /\ cpc' \in {"read", "print", "eval", "commit"}
      /\ (HasStatus => HasStatus')
  BY TakeMoves
<1>2. /\ \A e \in Elements(command_file') \cup Elements(fault_file') :
           \/ e \in Elements(command_file) \cup Elements(fault_file)
           \/ c.op = "set" /\ e.id = c.id
      /\ \/ UNCHANGED todo
         \/ cpc' = "eval" /\ todo' = command_file
      /\ \A s \in Slot :
           \/ staged'[s] = staged[s]
           \/ s[1] = "notification" /\ c.op = "set" /\ staged'[s] = c.id
           \/ /\ s[1] = "object" /\ c.op \in ObjectKind
              /\ staged'[s] = c.id /\ HasStatus'
  BY TakeEffects
<1> HIDE DEF c
<1> USE DEF daemon, observers
<1>3. /\ c.op = "set" => Open /\ c.id = req.id
      /\ c.op \in ObjectKind => Open /\ c.id = req.id /\ c.op = req.kind
      /\ req.id = nreq /\ nreq \in Nat
  <2>1. req.id = nreq /\ nreq \in Nat
    BY IdType DEF FlowInv, DaemonInv, TypeInv, TypeOK
  <2> QED BY <1>1, <2>1 DEF FlowInv, CmdInv, ObjectKind
<1>4. LifeInv'
  <2>1. Asked("set")' => Asked("apply")'
    BY <1>1 DEF StoreInv, LifeInv, Asked, Prec
  <2>2. todo' # <<>> => Evaluating'
    BY <1>1, <1>2 DEF StoreInv, LifeInv
  <2>3. cpc # "none" /\ dpc # "down"
    BY <1>1 DEF StoreInv, LifeInv
  <2>4. Queue' \cup InHand' \subseteq Queue
    BY <1>1 DEF InHand, Working
  <2> QED BY <1>1, <2>1, <2>2, <2>3, <2>4 DEF StoreInv, LifeInv, Orphan
<1>5. FileInv'
  <2>1. Applying => Applying'
    BY <1>1 DEF Applying, Asked
  <2>2. c.op = "set" => Applying'
    BY <1>1, <1>3 DEF Applying, Asked, StoreInv, LifeInv
  <2>3. \A e \in Elements(command_file') \cup Elements(fault_file') :
          e.id \in orphaned' \/ (e.id = req'.id /\ Applying')
    BY <1>1, <1>2, <1>3, <2>1, <2>2 DEF StoreInv, FileInv
  <2>4. \A e \in Elements(todo') : e.id \in orphaned' \cup {req'.id}
    BY <1>1, <1>2 DEF StoreInv, FileInv
  <2> QED BY <1>1, <2>3, <2>4 DEF FileInv
<1>6. StagedInv'
  <2>1. ASSUME NEW s \in Slot
        PROVE  staged'[s] <= nreq'
    BY <1>1, <1>2, <1>3 DEF StoreInv, StagedInv
  <2>2. ASSUME NEW s \in Slot, staged'[s] # config'[s]
        PROVE  Pending(s)'
    <3>1. CASE staged'[s] # staged[s]
      BY <1>1, <1>2, <1>3, <3>1 DEF Pending
    <3>2. CASE staged'[s] = staged[s]
      <4>1. Pending(s)
        BY <1>1, <2>2, <3>2 DEF StoreInv, StagedInv
      <4>2. CASE s[1] = "notification" \/ staged[s] \in orphaned
        BY <1>1, <3>2, <4>2 DEF Pending
      <4>3. CASE s[1] = "object" /\ staged[s] = req.id
                 /\ Open /\ req.kind \in ObjectKind /\ HasStatus
        BY <1>1, <3>2, <4>3 DEF Pending
      <4>4. CASE s[1] = "object"
                 /\ \E x \in Queue : x.op = "apply_object" /\ x.id = staged[s]
        <5>1. \E x \in Queue' \cup InHand' : x.op = "apply_object" /\ x.id = staged'[s]
          BY <1>1, <3>2, <4>4
        <5> QED BY <4>4, <5>1 DEF Pending
      <4> QED BY <1>1, <4>1, <4>2, <4>3, <4>4 DEF Pending
    <3> QED BY <3>1, <3>2
  <2> QED BY <2>1, <2>2 DEF StagedInv
<1>7. ConfigInv'
  BY <1>1 DEF StoreInv, ConfigInv
<1> QED BY <1>4, <1>5, <1>6, <1>7 DEF StoreInv


\* An "apply" that evaluates, reverts or commits, and its last steps.
LEMMA StoreWork ==
  ASSUME TypeInv, TypeInv', FlowInv, FlowInv', StoreInv, WorkStep
  PROVE  StoreInv'
<1>1. /\ cpc \in {"eval", "revert", "commit", "rm_fault", "rm_command"}
      /\ UNCHANGED <<ccmd, pipes, daemon, observers>>
      /\ \/ UNCHANGED say /\ cpc' = "read" /\ cpc \in {"commit", "rm_command"}
            /\ (cpc = "commit" => ccmd.op = "apply_object")
         \/ UNCHANGED say /\ cpc' \in {"rm_fault", "rm_command"}
            /\ cpc \notin {"eval", "rm_command"} /\ ccmd.op = "apply"
         \/ UNCHANGED <<say, rev>> /\ cpc = "eval" /\ cpc' \in {"eval", "revert"}
         \/ /\ cpc = "eval" /\ cpc' = "print" /\ rev'
            /\ \A l \in Elements(say') : l.what = "fault"
         \/ /\ cpc = "eval" /\ cpc' = "print" /\ ~rev /\ ~rev'
            /\ \A l \in Elements(say') : l.what = "status" /\ l.id = ccmd.id
  BY WorkCases
<1>2. InHand = {ccmd} /\ (cpc' # "read" => InHand' = {ccmd})
  BY <1>1 DEF InHand, Working
<1> USE DEF daemon, observers, pipes, stores
<1>3. /\ Queue' = Queue /\ Open' = Open /\ Alive' = Alive /\ Alive
      /\ req.id = nreq /\ nreq \in Nat /\ cpc # "none"
      /\ ccmd.op \in {"apply", "apply_object"}
      /\ ccmd.op = "apply" => Open /\ req.kind \in SetKind
      /\ cpc # "commit" => ccmd.op = "apply"
      /\ \A y \in Queue : Prec(ccmd, y)
  <2>1. req.id = nreq /\ nreq \in Nat
    BY IdType DEF FlowInv, DaemonInv, TypeInv, TypeOK
  <2>2. Queue' = Queue /\ Open' = Open /\ Alive' = Alive /\ Alive /\ cpc # "none"
    BY <1>1 DEF Queue, Open, Alive
  <2> QED BY <1>1, <1>2, <2>1, <2>2 DEF FlowInv, ScriptInv, CmdInv, OrderInv
<1>4. /\ HasStatus => HasStatus'
      /\ cpc' = "print" /\ ~rev' => HasStatus'
  <2>1. say = <<>> /\ Elements(say) = {}
    BY <1>1, Nothing DEF TypeInv, NameInv
  <2>2. Lines \subseteq Lines' /\ Elements(say') \subseteq Lines'
    BY <1>1, <2>1 DEF Lines
  <2>3. cpc' = "print" => Elements(say') # {}
    BY NoElements DEF TypeInv, TypeOK, NameInv
  <2> QED BY <1>1, <2>2, <2>3 DEF HasStatus
<1>5. LifeInv'
  <2>1. todo' # <<>> => Evaluating'
    <3>1. CASE EvalLine
      BY <1>1, <1>3, <3>1 DEF EvalLine, Evaluating
    <3>2. CASE EvalDone
      BY <3>2 DEF EvalDone
    <3>3. CASE Revert \/ Commit \/ RemoveFaultFile \/ RemoveCommandFile
      <4>1. cpc \notin {"eval", "print"} /\ UNCHANGED todo
        BY <3>3 DEF Revert, Commit, RemoveFaultFile, RemoveCommandFile
      <4> QED BY <4>1 DEF StoreInv, LifeInv, Evaluating
    <3> QED BY <3>1, <3>2, <3>3 DEF WorkStep
  <2>2. Queue' \cup InHand' \subseteq Queue \cup InHand
    BY <1>1, <1>2, <1>3 DEF InHand
  <2> QED BY <1>1, <1>3, <2>1, <2>2 DEF StoreInv, LifeInv, Orphan, Asked
<1>6. FileInv'
  <2>1. CASE RemoveCommandFile
    <3>1. command_file' = <<>> /\ fault_file' = <<>> /\ UNCHANGED todo /\ cpc' = "read"
      BY <2>1 DEF RemoveCommandFile, StoreInv, FileInv
    <3> QED BY <1>1, <3>1, Nothing DEF StoreInv, FileInv
  <2>2. CASE ~RemoveCommandFile
    <3>1. /\ UNCHANGED command_file
          /\ fault_file' = <<>> \/ (fault_file' = fault_file /\ cpc' # "rm_command")
          /\ Elements(todo') \subseteq Elements(todo)
      <4>1. CASE EvalLine
        <5> DEFINE e == Head(todo)
        <5>1. /\ Taken(todo, e, todo') /\ UNCHANGED <<command_file, fault_file>>
              /\ cpc' \in {"eval", "print"}
          BY <4>1 DEF EvalLine, Taken
        <5> HIDE DEF e
        <5>2. todo \in Seq(Entry)
          BY DEF TypeInv, TypeOK
        <5>3. Elements(todo) = {e} \cup Elements(todo')
          BY <5>1, <5>2, Reads
        <5> QED BY <5>1, <5>3
      <4>2. CASE EvalDone \/ Revert \/ Commit \/ RemoveFaultFile
        BY <4>2 DEF EvalDone, Revert, Commit, RemoveFaultFile
      <4> QED BY <2>2, <4>1, <4>2 DEF WorkStep
    <3>2. cpc # "rm_command"
      BY <2>2 DEF WorkStep, EvalLine, EvalDone, Revert, Commit, RemoveFaultFile
    <3>3. Applying => Applying'
      BY <1>1, <1>2, <1>3, <3>2 DEF Applying, Asked
    <3> QED BY <1>1, <3>1, <3>3, Nothing DEF StoreInv, FileInv
  <2> QED BY <2>1, <2>2
<1>7. StagedInv' /\ ConfigInv'
  <2>1. CASE Revert
    <3>1. staged' = config /\ config' = config
      BY <2>1 DEF Revert
    <3>2. StagedInv'
      BY <1>1, <3>1 DEF StoreInv, StagedInv, ConfigInv
    <3> QED BY <1>1, <1>3, <1>4, <3>1, <3>2 DEF StoreInv, ConfigInv
  <2>2. CASE Commit
    <3>1. staged' = staged /\ config' = staged /\ cpc = "commit"
      BY <2>2 DEF Commit
    <3>2. StagedInv'
      BY <1>1, <3>1 DEF StoreInv, StagedInv
    <3>3. ASSUME NEW s \in Slot, s[1] # "notification", staged[s] \notin orphaned,
                 staged[s] # config[s]
          PROVE  /\ verdict[staged[s]] # "fault"
                 /\ staged[s] = req.id /\ Open => req.kind \in SetKind /\ HasStatus
      <4>1. Pending(s)
        BY <3>3 DEF StoreInv, StagedInv
      <4>2. CASE s[1] = "value" /\ staged[s] = req.id /\ ccmd.op = "apply" /\ HasStatus
        BY <1>3, <4>2 DEF Open
      <4>3. CASE s[1] = "object" /\ Open /\ req.kind \in ObjectKind /\ HasStatus
        <5>1. ccmd.op = "apply_object"
          BY <1>3, <4>3 DEF SetKind, ObjectKind
        <5>2. outp = <<>> /\ say = <<>> /\ status = 0
          BY <3>1, <5>1 DEF FlowInv, AnswerInv, Unanswered
        <5> QED BY <4>3, <5>2, Nothing DEF HasStatus, Lines
      <4>4. CASE \E x \in Queue \cup InHand : x.op = "apply_object" /\ x.id = staged[s]
        BY <4>4 DEF FlowInv, CmdInv, Open
      <4> QED BY <3>1, <3>3, <4>1, <4>2, <4>3, <4>4 DEF Pending, Evaluating
    <3>4. ConfigInv'
      BY <1>1, <1>3, <1>4, <3>1, <3>3 DEF StoreInv, ConfigInv, StagedInv
    <3> QED BY <3>2, <3>4
  <2>3. CASE EvalLine \/ EvalDone \/ RemoveFaultFile \/ RemoveCommandFile
    <3>1. /\ config' = config
          /\ \A s \in Slot : \/ staged'[s] = staged[s]
                             \/ /\ s[1] = "value" /\ Evaluating'
                                /\ staged'[s] \in orphaned \cup {req.id}
      <4>1. CASE EvalLine
        <5> DEFINE e == Head(todo)
        <5>1. /\ Taken(todo, e, todo') /\ UNCHANGED config
              /\ \/ UNCHANGED staged
                 \/ staged' = [staged EXCEPT ![<<"value", e.name>>] = e.id] /\ cpc' = "eval"
          BY <4>1 DEF EvalLine, Taken
        <5> HIDE DEF e
        <5>2. todo \in Seq(Entry) /\ staged \in [Slot -> Id]
          BY DEF TypeInv, TypeOK
        <5>3. e \in Elements(todo) /\ e \in Entry
          BY <5>1, <5>2, Reads
        <5>4. e.id \in Id /\ e.id \in orphaned \cup {req.id}
          BY <5>3 DEF StoreInv, FileInv, Entry
        <5>5. CASE staged' = [staged EXCEPT ![<<"value", e.name>>] = e.id] /\ cpc' = "eval"
          <6>1. \A s \in Slot : staged'[s] = staged[s] \/ (s[1] = "value" /\ staged'[s] = e.id)
            BY <5>2, <5>4, <5>5, SlotChange
          <6> QED BY <5>1, <5>4, <5>5, <6>1 DEF Evaluating
        <5> QED BY <5>1, <5>5
      <4>2. CASE EvalDone \/ RemoveFaultFile \/ RemoveCommandFile
        BY <4>2 DEF EvalDone, RemoveFaultFile, RemoveCommandFile
      <4> QED BY <2>3, <4>1, <4>2
    <3>2. ConfigInv'
      BY <1>1, <1>3, <1>4, <3>1 DEF StoreInv, ConfigInv
    <3>3. \A i \in orphaned \cup {req.id} : i <= nreq
      BY <1>3 DEF StoreInv, LifeInv
    <3>4. ASSUME NEW s \in Slot, staged'[s] # config'[s]
          PROVE  Pending(s)'
      <4>1. CASE staged'[s] # staged[s]
        BY <1>1, <3>1, <4>1 DEF Pending
      <4>2. CASE staged'[s] = staged[s]
        <5>1. Pending(s)
          BY <3>1, <3>4, <4>2 DEF StoreInv, StagedInv
        <5>2. CASE s[1] = "notification" \/ staged[s] \in orphaned
          BY <1>1, <4>2, <5>2 DEF Pending
        <5>3. CASE s[1] = "object" /\ staged[s] = req.id
                   /\ Open /\ req.kind \in ObjectKind /\ HasStatus
          BY <1>1, <1>3, <1>4, <4>2, <5>3 DEF Pending
        <5>4. CASE s[1] = "object"
                   /\ \E x \in Queue \cup InHand : x.op = "apply_object" /\ x.id = staged[s]
          <6>1. cpc # "commit"
            BY <2>3 DEF EvalLine, EvalDone, RemoveFaultFile, RemoveCommandFile
          <6>2. ccmd.op = "apply"
            BY <1>3, <6>1
          <6> QED BY <1>2, <1>3, <5>4, <6>2 DEF Prec
        <5>5. CASE s[1] = "value" /\ staged[s] = req.id
                   /\ \/ Evaluating \/ cpc = "revert"
                      \/ cpc \in {"commit", "print"} /\ ccmd.op = "apply" /\ HasStatus
          <6>1. cpc = "eval"
            BY <1>1, <2>3, <5>5 DEF EvalLine, EvalDone, RemoveFaultFile,
                                    RemoveCommandFile, Evaluating
          <6>2. Evaluating' \/ cpc' = "revert" \/ (cpc' = "print" /\ ccmd'.op = "apply" /\ HasStatus')
            BY <1>1, <1>3, <1>4, <6>1 DEF Evaluating
          <6> QED BY <1>1, <4>2, <5>5, <6>2 DEF Pending
        <5> QED BY <5>1, <5>2, <5>3, <5>4, <5>5 DEF Pending
      <4> QED BY <4>1, <4>2
    <3>5. StagedInv'
      BY <1>1, <3>1, <3>3, <3>4 DEF StoreInv, StagedInv
    <3> QED BY <3>2, <3>5
  <2> QED BY <2>1, <2>2, <2>3 DEF WorkStep
<1> QED BY <1>5, <1>6, <1>7 DEF StoreInv


\* How printing a line moves it, and where the script goes after the last one.
LEMMA EchoMoves ==
  ASSUME TypeInv, TypeInv', FlowInv, EchoLine
  PROVE  /\ cpc = "print" /\ InHand = {ccmd} /\ Queue' = Queue /\ Lines' = Lines
         /\ ccmd.op \in {"apply", "add", "delete", "get", "end"}
         /\ \A y \in Queue : y.op = "end"
         /\ HasStatus' = HasStatus /\ Open' = Open /\ Alive /\ Alive'
         /\ UNCHANGED <<ccmd, todo, rev, inp, stores, daemon, observers>>
         /\ ccmd.op = "apply" => InHand' = {ccmd} /\ Open /\ req.kind \in SetKind
         /\ Evaluating => Evaluating'
         /\ ccmd.op = "apply" /\ HasStatus => cpc' \in {"print", "commit"}
         /\ cpc' = "eval" => rev
         /\ cpc' = "commit" => ccmd.op = "apply" /\ HasStatus
         /\ cpc' \in {"print", "read", "commit", "eval", "rm_fault"}
<1> DEFINE l == Head(say)
<1>1. /\ cpc = "print" /\ Taken(say, l, say') /\ Written(outp, l, outp')
      /\ \/ cpc' = "print" /\ say' # <<>>
         \/ say' = <<>> /\ cpc' = AfterEcho
      /\ UNCHANGED <<ccmd, todo, rev, inp, stores, daemon, observers>>
  BY DEF EchoLine, Taken, Written, TypeInv, NameInv
<1>2. l \in Line /\ Elements(say) = {l} \cup Elements(say')
  <2>1. say \in Seq(Line)
    BY DEF TypeInv, TypeOK
  <2> HIDE DEF l
  <2> QED BY <1>1, <2>1, Reads
<1>3. Elements(outp') = Elements(outp) \cup {l}
  <2>1. outp \in Seq(Line)
    BY DEF TypeInv, TypeOK
  <2> HIDE DEF l
  <2> QED BY <1>1, <1>2, <2>1, Appends
<1>4. /\ Lines' = Lines /\ l \in Lines /\ HasStatus' = HasStatus /\ Queue' = Queue
      /\ Open' = Open /\ InHand = {ccmd} /\ Alive
  <2>1. Lines' = Lines /\ l \in Lines
    BY <1>2, <1>3 DEF Lines
  <2> QED BY <1>1, <2>1 DEF HasStatus, Queue, Open, InHand, Working, Alive, daemon,
                            observers
<1>5. /\ ccmd.op \in {"apply", "add", "delete", "get", "end"}
      /\ ccmd.op = "apply" => l.what \in {"status", "fault"}
      /\ ccmd.op = "apply" => Open /\ req.kind \in SetKind
      /\ \A y \in Queue : y.op = "end"
  BY <1>1, <1>2, <1>4 DEF FlowInv, ScriptInv, CmdInv, OrderInv, Prec
<1>6. /\ Evaluating => l.what = "fault" /\ ccmd.op = "apply" /\ rev
      /\ ccmd.op = "apply" /\ HasStatus => l.what = "status"
      /\ l.what = "status" => HasStatus
  BY <1>1, <1>4, <1>5 DEF FlowInv, AnswerInv, Evaluating, HasStatus
<1>7. /\ cpc' \in {"print", "read", "commit", "eval", "rm_fault"}
      /\ ccmd.op = "apply" => cpc' # "read"
      /\ Evaluating => cpc' \in {"print", "eval"}
      /\ ccmd.op = "apply" /\ HasStatus => cpc' \in {"print", "commit"}
      /\ cpc' = "eval" => rev
      /\ cpc' = "commit" => ccmd.op = "apply" /\ HasStatus
  BY <1>1, <1>6 DEF AfterEcho
<1>8. /\ Alive' /\ (ccmd.op = "apply" => InHand' = {ccmd})
      /\ Evaluating => Evaluating'
  BY <1>1, <1>6, <1>7 DEF Alive, InHand, Working, Evaluating
<1> QED BY <1>1, <1>4, <1>5, <1>7, <1>8

\* Printing keeps the stores accounted for.
LEMMA StoreEcho ==
  ASSUME TypeInv, TypeInv', FlowInv, StoreInv, EchoLine
  PROVE  StoreInv'
<1> USE DEF stores, daemon, observers
<1>1. /\ cpc = "print" /\ InHand = {ccmd} /\ Queue' = Queue
      /\ ccmd.op \in {"apply", "add", "delete", "get", "end"}
      /\ HasStatus' = HasStatus /\ Open' = Open /\ Alive /\ Alive'
      /\ UNCHANGED <<ccmd, todo, rev, stores, daemon, observers>>
      /\ ccmd.op = "apply" => InHand' = {ccmd}
      /\ Evaluating => Evaluating'
      /\ ccmd.op = "apply" /\ HasStatus => cpc' \in {"print", "commit"}
      /\ cpc' \in {"print", "read", "commit", "eval", "rm_fault"}
  BY EchoMoves
<1>2. LifeInv'
  <2>1. Queue' \cup InHand' \subseteq Queue \cup InHand
    BY <1>1 DEF InHand
  <2> QED BY <1>1, <2>1 DEF StoreInv, LifeInv, Orphan, Asked
<1>3. FileInv'
  <2>1. Applying => Applying'
    BY <1>1 DEF Applying, Asked
  <2> QED BY <1>1, <2>1 DEF StoreInv, FileInv
<1>4. StagedInv'
  <2>1. ASSUME NEW s \in Slot, Pending(s)
        PROVE  Pending(s)'
    <3>1. CASE s[1] = "object"
               /\ \E x \in Queue \cup InHand : x.op = "apply_object" /\ x.id = staged[s]
      BY <1>1, <3>1 DEF Pending
    <3>2. CASE s[1] = "value" /\ staged[s] = req.id
                   /\ \/ Evaluating \/ cpc = "revert"
                      \/ cpc \in {"commit", "print"} /\ ccmd.op = "apply" /\ HasStatus
      BY <1>1, <3>2 DEF Pending
    <3> QED BY <1>1, <2>1, <3>1, <3>2 DEF Pending
  <2> QED BY <1>1, <2>1 DEF StoreInv, StagedInv
<1>5. ConfigInv'
  BY <1>1 DEF StoreInv, ConfigInv
<1> QED BY <1>2, <1>3, <1>4, <1>5 DEF StoreInv

\* Whoever a script leaves without an answer, or without the commit it was
\* promised, is orphaned when the script is gone.
LEMMA GoneOrphans ==
  ASSUME TypeInv, FlowInv, StoreInv, Exit \/ ScriptDies
  PROVE  /\ orphaned \subseteq orphaned' /\ orphaned' \subseteq 0..nreq
         /\ task = "rpc" /\ dpc \in {"write", "read"} => req.id \in orphaned'
         /\ \A x \in Queue \cup InHand : x.op = "apply_object" => x.id \in orphaned'
<1> USE DEF stores, daemon, observers
<1>0. /\ req.id = nreq /\ nreq \in Nat /\ inp \in Seq(Cmd) /\ (task = "rpc" => req.id # 0)
  BY IdType DEF FlowInv, DaemonInv, TypeInv, TypeOK
<1>1. CASE Exit
  <2> DEFINE h == Head(inp)
  <2>1. /\ cpc = "read" /\ inp # <<>> /\ h.op = "exit" /\ orphaned' = orphaned
        /\ Taken(inp, h, Tail(inp))
    BY <1>1 DEF Exit, ScriptReads, Taken
  <2> HIDE DEF h
  <2>2. h \in Elements(inp)
    BY <1>0, <2>1, Reads
  <2>3. task = "exit" /\ InHand = {}
    BY <2>1, <2>2 DEF FlowInv, CmdInv, Queue, InHand, Working
  <2>4. \A x \in Elements(inp) : x = h \/ After(inp, h, x)
    BY <1>0, <2>1, Reads
  <2>5. \A x \in Queue : x = h \/ Prec(h, x)
    BY <2>2, <2>4 DEF FlowInv, OrderInv, Queue
  <2>6. orphaned \subseteq 0..nreq
    BY DEF StoreInv, LifeInv
  <2> QED BY <2>1, <2>3, <2>5, <2>6 DEF Prec
<1>2. CASE ScriptDies
  <2>1. orphaned' = orphaned \cup (Unfinished \ {0})
    BY <1>2 DEF ScriptDies
  <2>2. \A x \in Queue \cup InHand : x.op = "apply_object" => x.id # 0 /\ x.id \in Id
    <3>1. \A x \in Queue \cup InHand : x.op = "apply_object" =>
            verdict[x.id] = "status" /\ verdict[0] = "none"
      BY DEF FlowInv, CmdInv, DaemonInv
    <3>2. \A x \in Queue \cup InHand : x \in Cmd
      BY NoElements DEF Queue, InHand, TypeInv, TypeOK
    <3> QED BY <3>1, <3>2 DEF Cmd
  <2>3. \A x \in Elements(inp) : x.id \in Unfinished
    <3>1. DOMAIN inp = 1..Len(inp)
      BY <1>0, LenProperties
    <3> QED BY <3>1 DEF Unfinished, Elements
  <2>4. \A x \in Elements(toSend) : x.op = "apply_object" => x.id \in Unfinished
    <3>1. ASSUME NEW x \in Elements(toSend), x.op = "apply_object"
          PROVE  task = "rpc" /\ dpc = "write" /\ x.id = req.id
      <4>1. dpc = "write"
        BY <3>1, Nothing DEF TypeInv, TypeOK
      <4> QED BY <3>1, <4>1 DEF FlowInv, DaemonInv
    <3> QED BY <3>1 DEF Unfinished
  <2>5. \A x \in InHand : x.op = "apply_object" => x.id \in Unfinished
    BY DEF FlowInv, ScriptInv, InHand, Working, Unfinished
  <2>6. task = "rpc" /\ dpc \in {"write", "read"} => req.id \in Unfinished
    BY DEF Unfinished
  <2>7. \A i \in Unfinished : i <= nreq /\ i \in Nat
    <3>1. \A x \in Queue \cup InHand : x.id <= nreq /\ x.id \in Nat
      <4>1. \A x \in Queue \cup InHand : x \in Cmd
        BY NoElements DEF Queue, InHand, TypeInv, TypeOK
      <4> QED BY <4>1, IdType DEF Cmd, StoreInv, LifeInv
    <3>2. DOMAIN inp = 1..Len(inp)
      BY <1>0, LenProperties
    <3>3. \A i \in DOMAIN inp : inp[i] \in Queue
      BY <3>2 DEF Queue, Elements
    <3>4. cpc = "commit" => ccmd \in InHand
      BY DEF InHand, Working
    <3> QED BY <1>0, <3>1, <3>3, <3>4 DEF Unfinished
  <2>8. orphaned' \subseteq 0..nreq
    <3>1. orphaned \subseteq 0..nreq
      BY DEF StoreInv, LifeInv
    <3>2. \A i \in Unfinished : i \in 0..nreq
      BY <1>0, <2>7
    <3> QED BY <2>1, <3>1, <3>2
  <2>9. \A x \in Queue \cup InHand : x.op = "apply_object" => x.id \in orphaned'
    BY <2>1, <2>2, <2>3, <2>4, <2>5 DEF Queue
  <2> QED BY <1>0, <2>1, <2>6, <2>8, <2>9
<1> QED BY <1>1, <1>2

\* The script ends after "exit", or dies and orphans what it has not finished.
LEMMA StoreGone ==
  ASSUME TypeInv, TypeInv', FlowInv, FlowInv', StoreInv, Exit \/ ScriptDies
  PROVE  StoreInv'
<1> USE DEF stores, daemon, observers
<1>1. /\ cpc' = "zombie" /\ todo' = <<>> /\ Alive /\ ~Alive'
      /\ UNCHANGED <<outp, stores, daemon, nreq, verdict>>
  BY DEF Exit, ScriptDies, Gone, ScriptReads, Alive
<1>2. /\ req.id = nreq /\ nreq \in Nat /\ dpc # "down" /\ Open' = Open
      /\ InHand' = {} /\ inp \in Seq(Cmd) /\ (task = "rpc" => req.id # 0)
  <2>1. req.id = nreq /\ nreq \in Nat /\ inp \in Seq(Cmd) /\ (task = "rpc" => req.id # 0)
    BY IdType DEF FlowInv, DaemonInv, TypeInv, TypeOK
  <2> QED BY <1>1, <2>1 DEF StoreInv, LifeInv, Alive, Open, InHand, Working
<1>3. /\ orphaned \subseteq orphaned' /\ orphaned' \subseteq 0..nreq
      /\ task = "rpc" /\ dpc \in {"write", "read"} => req.id \in orphaned'
      /\ \A x \in Queue \cup InHand : x.op = "apply_object" => x.id \in orphaned'
  BY GoneOrphans
<1>4. /\ Queue' \subseteq Queue /\ Queue' = Elements(toSend)
  <2>1. inp' = <<>> \/ inp' = Tail(inp)
    BY DEF Exit, ScriptDies, Gone
  <2>2. inp' = <<>>
    BY <1>1 DEF FlowInv, ScriptInv
  <2> QED BY <1>1, <2>2, Nothing DEF Queue
<1>5. LifeInv'
  <2>1. Asked("set")' => Asked("apply")'
    <3>1. SUFFICES ASSUME NEW x \in Elements(toSend), x.op = "set"
                   PROVE  \E y \in Elements(toSend) : y.op = "apply"
      BY <1>4 DEF Asked
    <3>2. PICK y \in Queue : y.op = "apply"
      BY <1>4, <3>1 DEF StoreInv, LifeInv, Asked
    <3>3. y \notin Elements(inp)
      BY <3>1, <3>2 DEF FlowInv, OrderInv, Prec
    <3> QED BY <3>2, <3>3 DEF Queue
  <2> QED BY <1>1, <1>2, <1>3, <1>4, <2>1 DEF StoreInv, LifeInv, Orphan
<1>6. FileInv'
  <2>1. Applying => req.id \in orphaned'
    BY <1>3 DEF Applying, Open
  <2> QED BY <1>1, <1>3, <2>1, Nothing DEF StoreInv, FileInv
<1>7. StagedInv'
  <2>1. ASSUME NEW s \in Slot, Pending(s)
        PROVE  Pending(s)'
    <3>1. Evaluating \/ cpc = "revert" \/ (cpc \in {"commit", "print"} /\ ccmd.op = "apply")
            => req.id \in orphaned'
      <4>1. Evaluating \/ cpc = "revert" \/ (cpc \in {"commit", "print"} /\ ccmd.op = "apply")
              => InHand = {ccmd} /\ ccmd.op = "apply"
        BY DEF Evaluating, InHand, Working, FlowInv, ScriptInv
      <4>2. InHand = {ccmd} /\ ccmd.op = "apply" => Open
        BY DEF FlowInv, CmdInv
      <4> QED BY <1>3, <4>1, <4>2 DEF Open
    <3>2. Open => req.id \in orphaned'
      BY <1>3 DEF Open
    <3>3. s[1] = "notification" \/ staged[s] \in orphaned'
      BY <1>3, <2>1, <3>1, <3>2 DEF Pending
    <3> QED BY <1>1, <3>3 DEF Pending
  <2> QED BY <1>1, <2>1 DEF StoreInv, StagedInv
<1>8. ConfigInv'
  <2>1. Open' => req.id \in orphaned'
    BY <1>2, <1>3 DEF Open
  <2> QED BY <1>1, <1>3, <2>1 DEF StoreInv, ConfigInv
<1> QED BY <1>5, <1>6, <1>7, <1>8 DEF StoreInv


\* When the daemon is between conversations, or without a script, nothing
\* excuses a staged change but an "apply object" under way.
LEMMA PendingAtRest ==
  ASSUME TypeInv, FlowInv, dpc \in {"idle", "down", "wait"}, NEW s \in Slot, Pending(s)
  PROVE  \/ s[1] = "notification" \/ staged[s] \in orphaned
         \/ /\ s[1] = "object"
            /\ \E x \in Elements(inp) \cup InHand : x.op = "apply_object" /\ x.id = staged[s]
<1>1. ~Open /\ toSend = <<>> /\ Elements(toSend) = {}
  BY Nothing DEF Open, TypeInv, TypeOK
<1>2. ~(Evaluating \/ cpc = "revert" \/ (cpc \in {"commit", "print"} /\ ccmd.op = "apply"))
  <2>1. Evaluating \/ cpc = "revert" \/ (cpc \in {"commit", "print"} /\ ccmd.op = "apply")
          => InHand = {ccmd} /\ ccmd.op = "apply"
    BY DEF Evaluating, InHand, Working, FlowInv, ScriptInv
  <2> QED BY <1>1, <2>1 DEF FlowInv, CmdInv
<1> QED BY <1>1, <1>2 DEF Pending, Queue

\* A script is forked, after the last one was reaped.
LEMMA StoreFork ==
  ASSUME TypeInv, TypeInv', FlowInv, FlowInv', StoreInv, ExternalInit
  PROVE  StoreInv'
<1> USE DEF stores, observers
<1> DEFINE e == Plain("end")
<1>1. e.id = 0 /\ e.op = "end"
  BY CmdType
<1>2. /\ dpc = "down" /\ dpc' = "read" /\ task' = "init" /\ cpc' = "print"
      /\ ccmd' = e /\ inp' = <<>> /\ outp' = <<>> /\ todo' = <<>>
      /\ UNCHANGED <<toSend, req, stores, observers>>
  BY DEF ExternalInit
<1> HIDE DEF e
<1>3. /\ cpc = "none" /\ toSend = <<>> /\ inp = <<>> /\ InHand = {} /\ ~Open /\ ~Open'
      /\ nreq \in Nat
  BY <1>2, IdType DEF StoreInv, LifeInv, FlowInv, ScriptInv, Alive, InHand, Working,
                      Open, TypeInv, TypeOK
<1>4. Queue = {} /\ Queue' = {} /\ InHand' = {e} /\ Elements(todo') = {} /\ Elements(inp) = {}
  BY <1>2, <1>3, Nothing DEF Queue, InHand, Working
<1>5. LifeInv'
  BY <1>1, <1>2, <1>3, <1>4 DEF StoreInv, LifeInv, Asked
<1>6. FileInv'
  BY <1>2, <1>3, <1>4 DEF StoreInv, FileInv, Applying
<1>7. StagedInv'
  BY <1>2, <1>3, <1>4, PendingAtRest DEF StoreInv, StagedInv, Pending
<1>8. ConfigInv'
  BY <1>2, <1>3 DEF StoreInv, ConfigInv
<1> QED BY <1>5, <1>6, <1>7, <1>8 DEF StoreInv

\* A conversation starts: a new request owns nothing yet.
LEMMA StoreStarts ==
  ASSUME TypeInv, TypeInv', FlowInv, FlowInv', StoreInv,
         \/ EndSession
         \/ \E kind \in Kind : \E names \in NameLists(kind) : Request(kind, names)
  PROVE  StoreInv'
<1> USE DEF stores, observers, script, pipes
<1>1. /\ dpc = "idle" /\ dpc' = "write" /\ nreq' >= nreq /\ nreq \in Nat /\ nreq' \in Nat
      /\ UNCHANGED <<script, stores, pipes, verdict>>
      /\ orphaned \subseteq orphaned' /\ orphaned' \subseteq 0..nreq'
      /\ task' = "rpc" => /\ req'.id = nreq + 1 /\ nreq' = nreq + 1
                          /\ ~Alive => nreq + 1 \in orphaned'
      /\ \A x \in Elements(toSend') : x.id <= nreq'
      /\ \A x \in Elements(toSend') : x.op = "set" =>
           \E y \in Elements(toSend') : y.op = "apply"
  <2>0. nreq \in Nat /\ nreq' \in Nat /\ orphaned \subseteq 0..nreq
    BY IdType DEF TypeInv, TypeOK, StoreInv, LifeInv
  <2>1. CASE EndSession
    <3> DEFINE a == Plain("apply_service")
               e == Plain("end")
               s == <<a, e>>
    <3>1. /\ a \in Cmd /\ a.op = "apply_service" /\ e \in Cmd /\ e.op = "end"
          /\ a.id = 0 /\ e.id = 0
      BY CmdType
    <3>2. Elements(s) = {a, e}
      BY <3>1, TwoElements
    <3>3. /\ dpc = "idle" /\ dpc' = "write" /\ task' = "service" /\ toSend' = s
          /\ UNCHANGED <<script, stores, pipes, observers>>
      BY <2>1 DEF EndSession
    <3> HIDE DEF a, e, s
    <3> QED BY <2>0, <3>1, <3>2, <3>3
  <2>2. ASSUME NEW kind \in Kind, NEW names \in NameLists(kind), Request(kind, names)
        PROVE  /\ dpc = "idle" /\ dpc' = "write" /\ nreq' >= nreq
               /\ UNCHANGED <<script, stores, pipes, verdict>>
               /\ orphaned \subseteq orphaned' /\ orphaned' \subseteq 0..nreq'
               /\ req'.id = nreq + 1 /\ nreq' = nreq + 1
               /\ ~Alive => nreq + 1 \in orphaned'
               /\ \A x \in Elements(toSend') : x.id <= nreq'
               /\ \A x \in Elements(toSend') : x.op = "set" =>
                    \E y \in Elements(toSend') : y.op = "apply"
    <3>1. names \in Seq(Params) /\ (kind \notin SetKind => names # <<>>)
      BY NameListsType
    <3>2. /\ dpc = "idle" /\ dpc' = "write" /\ nreq' = nreq + 1
          /\ req' = [id |-> nreq + 1, kind |-> kind, names |-> names]
          /\ toSend' = Conversation(req')
          /\ orphaned' = IF Alive THEN orphaned ELSE orphaned \cup {nreq + 1}
          /\ UNCHANGED <<script, stores, pipes, verdict>>
      BY <2>2 DEF Request
    <3>3. nreq' \in Id
      BY DEF TypeInv, TypeOK
    <3>4. /\ req' \in [id: Id, kind: Kind, names: Seq(Params)]
          /\ req'.kind = kind /\ req'.names = names /\ req'.id = nreq'
      BY <3>1, <3>2, <3>3
    <3>5. \A x \in Elements(toSend') : x.id \in {0, nreq'}
      BY <3>1, <3>2, <3>4, ConversationShape
    <3>6. \A x \in Elements(toSend') : x.op = "set" =>
             \E y \in Elements(toSend') : y.op = "apply"
      <4>1. CASE kind \in SetKind
        BY <3>1, <3>2, <3>4, <4>1, ConversationShape
      <4>2. CASE kind \notin SetKind
        BY <3>1, <3>2, <3>4, <4>2, ConversationShape DEF Kind, SetKind, ObjectKind, GetKind
      <4> QED BY <4>1, <4>2
    <3>7. orphaned' \subseteq 0..nreq'
      BY <2>0, <3>2
    <3> QED BY <2>0, <3>2, <3>4, <3>5, <3>6, <3>7
  <2> QED BY <2>0, <2>1, <2>2
<1>2. /\ ~Open /\ toSend = <<>> /\ Elements(toSend) = {} /\ InHand' = InHand /\ Alive' = Alive
      /\ \A x \in Elements(inp) : x.op = "apply_object"
  BY <1>1, Nothing DEF Open, TypeInv, TypeOK, InHand, Alive, FlowInv, DaemonInv
<1>3. Queue = Elements(inp) /\ Queue' = Elements(inp) \cup Elements(toSend')
  BY <1>1, <1>2 DEF Queue
<1>4. LifeInv'
  <2>1. \A x \in Queue' \cup InHand' : x.id <= nreq'
    <3>1. \A x \in Queue \cup InHand : x.id <= nreq /\ x.id \in Nat
      <4>1. \A x \in Queue \cup InHand : x \in Cmd
        BY NoElements DEF Queue, InHand, TypeInv, TypeOK
      <4> QED BY <4>1, IdType DEF Cmd, StoreInv, LifeInv
    <3> QED BY <1>1, <1>2, <1>3, <3>1
  <2>2. Asked("set")' => Asked("apply")'
    BY <1>1, <1>2, <1>3 DEF Asked
  <2>3. todo = <<>>
    <3>1. Evaluating => InHand = {ccmd} /\ ccmd.op = "apply"
      BY DEF Evaluating, InHand, Working, FlowInv, ScriptInv
    <3>2. ~Evaluating
      BY <1>2, <3>1 DEF FlowInv, CmdInv
    <3> QED BY <3>2 DEF StoreInv, LifeInv
  <2> QED BY <1>1, <1>2, <2>1, <2>2, <2>3 DEF LifeInv, Orphan
<1>5. FileInv'
  <2>1. todo' = <<>> /\ Elements(todo') = {} /\ cpc # "rm_command"
    <3>1. cpc \notin {"eval", "print", "rm_command"}
      BY <1>1 DEF FlowInv, DaemonInv
    <3> QED BY <1>1, <3>1, Nothing DEF StoreInv, LifeInv, Evaluating
  <2> QED BY <1>1, <1>2, <2>1 DEF StoreInv, FileInv, Applying
<1>6. StagedInv'
  <2>1. ASSUME NEW s \in Slot
        PROVE  /\ staged'[s] <= nreq'
               /\ staged'[s] # config'[s] => Pending(s)'
    <3>1. staged[s] \in Nat /\ staged[s] <= nreq
      BY IdType DEF TypeInv, TypeOK, StoreInv, StagedInv
    <3>2. staged[s] # config[s] =>
            \/ s[1] = "notification" \/ staged[s] \in orphaned
            \/ /\ s[1] = "object"
               /\ \E x \in Elements(inp) \cup InHand : x.op = "apply_object" /\ x.id = staged[s]
      BY <1>1, PendingAtRest DEF StoreInv, StagedInv
    <3> QED BY <1>1, <1>2, <1>3, <3>1, <3>2 DEF Pending
  <2> QED BY <2>1 DEF StagedInv
<1>7. ConfigInv'
  <2>1. ASSUME NEW s \in Slot
        PROVE  config[s] \in Nat /\ config[s] <= nreq
    BY IdType DEF TypeInv, TypeOK, StoreInv, ConfigInv
  <2>2. Open' => task' = "rpc"
    BY DEF Open
  <2>3. ASSUME NEW s \in Slot
        PROVE  config'[s] <= nreq' /\ (Open' => config'[s] # req'.id)
    BY <1>1, <2>1, <2>2
  <2> QED BY <1>1, <2>3 DEF StoreInv, ConfigInv
<1> QED BY <1>4, <1>5, <1>6, <1>7 DEF StoreInv


\* How writing a command moves it; a command written to a dead script is gone.
LEMMA WriteMoves ==
  ASSUME TypeInv, TypeInv', FlowInv, ExternalWritePipe
  PROVE  LET h == Head(toSend) IN
         /\ dpc = "write" /\ h \in Elements(toSend)
         /\ Elements(toSend) = {h} \cup Elements(toSend')
         /\ \A x \in Elements(toSend') : Prec(h, x)
         /\ UNCHANGED <<task, req, rest, list, status, outp, script, stores, observers>>
         /\ Alive => Queue' = Queue
         /\ ~Alive => Queue = Elements(toSend) /\ Queue' = Elements(toSend')
         /\ InHand' = InHand /\ Lines' = Lines /\ HasStatus' = HasStatus
         /\ Evaluating' = Evaluating /\ Alive' = Alive
         /\ dpc' \in {"write", "read", "idle"}
         /\ (dpc' # "idle" => Open' = Open)
         /\ dpc' = "idle" => ~Open /\ ~Open' /\ h.op = "apply_object"
<1> USE DEF script, stores, observers
<1> DEFINE h == Head(toSend)
<1>1. /\ dpc = "write" /\ Taken(toSend, h, toSend')
      /\ \/ Alive /\ Written(inp, h, inp')
         \/ ~Alive /\ UNCHANGED inp
      /\ UNCHANGED <<task, req, rest, list, status, outp, script, stores, observers>>
      /\ \/ toSend' # <<>> /\ dpc' = "write"
         \/ toSend' = <<>> /\ dpc' = "read" /\ h.op \in {"end", "exit"}
         \/ toSend' = <<>> /\ dpc' = "idle" /\ h.op \notin {"end", "exit"}
  <2>1. dpc = "write" /\ Taken(toSend, h, toSend')
    BY DEF ExternalWritePipe, Taken, TypeInv, TypeOK
  <2>2. \/ Alive /\ Written(inp, h, inp')
        \/ ~Alive /\ UNCHANGED inp
    BY DEF ExternalWritePipe, Written
  <2>3. \/ toSend' # <<>> /\ dpc' = "write"
        \/ toSend' = <<>> /\ dpc' = "read" /\ h.op \in {"end", "exit"}
        \/ toSend' = <<>> /\ dpc' = "idle" /\ h.op \notin {"end", "exit"}
    BY DEF ExternalWritePipe
  <2> QED BY <2>1, <2>2, <2>3 DEF ExternalWritePipe
<1> HIDE DEF h
<1>2. /\ h \in Cmd /\ toSend' \in Seq(Cmd)
      /\ Elements(toSend) = {h} \cup Elements(toSend')
      /\ \A x \in Elements(toSend') : After(toSend, h, x)
  <2>1. toSend \in Seq(Cmd)
    BY DEF TypeInv, TypeOK
  <2> QED BY <1>1, <2>1, Reads
<1>3. \A x \in Elements(toSend') : Prec(h, x)
  BY <1>2 DEF FlowInv, OrderInv
<1>4. Alive => Queue' = Queue
  <2>1. inp \in Seq(Cmd)
    BY DEF TypeInv, TypeOK
  <2>2. CASE Alive
    <3>1. Elements(inp') = Elements(inp) \cup {h}
      BY <1>1, <1>2, <2>1, <2>2, Appends
    <3> QED BY <1>2, <3>1 DEF Queue
  <2> QED BY <2>2
<1>5. ~Alive => Queue = Elements(toSend) /\ Queue' = Elements(toSend')
  <2>1. ~Alive => inp = <<>> /\ inp' = <<>>
    BY <1>1 DEF FlowInv, ScriptInv
  <2> QED BY <2>1, Nothing DEF Queue
<1>6. /\ InHand' = InHand /\ Lines' = Lines /\ HasStatus' = HasStatus
      /\ Evaluating' = Evaluating /\ Alive' = Alive /\ dpc' \in {"write", "read", "idle"}
      /\ (dpc' # "idle" => Open' = Open)
  <2>1. Lines' = Lines
    BY <1>1 DEF Lines
  <2> QED BY <1>1, <2>1 DEF InHand, HasStatus, Evaluating, Alive, Open
<1>7. dpc' = "idle" => ~Open /\ ~Open' /\ h.op = "apply_object"
  <2> SUFFICES ASSUME dpc' = "idle"
               PROVE  ~Open /\ ~Open' /\ h.op = "apply_object"
    OBVIOUS
  <2>1. Elements(toSend') = {} /\ h \in Queue
    BY <1>1, <1>2, Nothing DEF Queue
  <2>2. h.op = "apply_object"
    BY <1>1, <1>2, <2>1 DEF FlowInv, DaemonInv
  <2>3. h.id = req.id
    BY <1>2, <2>2 DEF FlowInv, DaemonInv
  <2> QED BY <2>1, <2>2, <2>3 DEF FlowInv, CmdInv, Open
<1> QED BY <1>1, <1>2, <1>3, <1>4, <1>5, <1>6, <1>7 DEF h

\* Writing keeps the stores accounted for.
LEMMA StoreWrite ==
  ASSUME TypeInv, TypeInv', FlowInv, StoreInv, ExternalWritePipe
  PROVE  StoreInv'
<1> USE DEF script, stores, observers
<1> DEFINE h == Head(toSend)
<1>1. /\ dpc = "write" /\ h \in Elements(toSend)
      /\ Elements(toSend) = {h} \cup Elements(toSend')
      /\ \A x \in Elements(toSend') : Prec(h, x)
      /\ UNCHANGED <<task, req, rest, list, status, outp, script, stores, observers>>
      /\ Alive => Queue' = Queue
      /\ ~Alive => Queue = Elements(toSend) /\ Queue' = Elements(toSend')
      /\ InHand' = InHand /\ HasStatus' = HasStatus
      /\ Evaluating' = Evaluating /\ Alive' = Alive
      /\ dpc' \in {"write", "read", "idle"}
      /\ (dpc' # "idle" => Open' = Open)
      /\ dpc' = "idle" => ~Open /\ ~Open' /\ h.op = "apply_object"
  BY WriteMoves
<1> HIDE DEF h
<1>2. Open' <=> Open
  BY <1>1
<1>3. LifeInv'
  <2>1. Asked("set")' => Asked("apply")'
    <3>1. CASE Alive
      BY <1>1, <3>1 DEF StoreInv, LifeInv, Asked
    <3>2. CASE ~Alive
      BY <1>1, <3>2 DEF StoreInv, LifeInv, Asked, Prec
    <3> QED BY <3>1, <3>2
  <2>2. Queue' \subseteq Queue
    BY <1>1
  <2> QED BY <1>1, <2>1, <2>2 DEF StoreInv, LifeInv, Orphan
<1>4. FileInv'
  <2>1. Applying => Applying'
    BY <1>1, <1>2 DEF Applying, Asked
  <2> QED BY <1>1, <2>1 DEF StoreInv, FileInv
<1>5. StagedInv'
  <2>1. ASSUME NEW s \in Slot, Pending(s)
        PROVE  Pending(s)'
    <3>1. CASE s[1] = "object"
               /\ \E x \in Queue \cup InHand : x.op = "apply_object" /\ x.id = staged[s]
      <4>1. CASE Alive
        BY <1>1, <3>1, <4>1 DEF Pending
      <4>2. CASE ~Alive
        <5>1. InHand = {}
          BY <4>2 DEF InHand, Alive, Working
        <5>2. PICK x \in Elements(toSend) : x.op = "apply_object" /\ x.id = staged[s]
          BY <1>1, <3>1, <4>2, <5>1
        <5>3. task = "rpc" /\ x.id = req.id
          BY <5>2 DEF FlowInv, DaemonInv
        <5>4. staged[s] \in orphaned
          BY <1>1, <4>2, <5>2, <5>3 DEF StoreInv, LifeInv, Orphan
        <5> QED BY <1>1, <5>4 DEF Pending
      <4> QED BY <4>1, <4>2
    <3> QED BY <1>1, <1>2, <2>1, <3>1 DEF Pending
  <2> QED BY <1>1, <2>1 DEF StoreInv, StagedInv
<1>6. ConfigInv'
  BY <1>1, <1>2 DEF StoreInv, ConfigInv
<1> QED BY <1>3, <1>4, <1>5, <1>6 DEF StoreInv

\* How reading a line moves it into the daemon's variables.
LEMMA ReadMoves ==
  ASSUME TypeInv, TypeInv', FlowInv, ReadLine
  PROVE  LET l == Head(outp) IN
         /\ dpc = "read" /\ l \in Lines /\ Lines = {l} \cup Lines' /\ Queue' = Queue
         /\ l.what # "prompt" /\ l \in Line
         /\ InHand' = InHand /\ Open' = Open /\ Open /\ HasStatus' = HasStatus
         /\ Evaluating' = Evaluating /\ Alive' = Alive
         /\ UNCHANGED <<dpc, task, toSend, req, rest, inp, script, stores, observers>>
         /\ l.what = "status" => list' = list
         /\ l.what # "status" => list' = external_add_list_paramameter(list, l)
<1> USE DEF script, stores, observers
<1> DEFINE l == Head(outp)
<1>1. /\ dpc = "read" /\ Taken(outp, l, outp') /\ l.what # "prompt" /\ HandleLine(l)
      /\ UNCHANGED <<dpc, task, toSend, req, rest, inp, script, stores, observers>>
  BY DEF ReadLine, Taken
<1> HIDE DEF l
<1>2. l \in Line /\ Elements(outp) = {l} \cup Elements(outp')
  <2>1. outp \in Seq(Line)
    BY DEF TypeInv, TypeOK
  <2> QED BY <1>1, <2>1, Reads
<1>3. l \in Lines /\ Lines = {l} \cup Lines'
  BY <1>1, <1>2 DEF Lines
<1>4. /\ Open /\ task = "rpc" /\ req.id # 0
      /\ l.what = "status" => l.id = req.id
  BY <1>1, <1>3 DEF FlowInv, LineInv, DaemonInv, Open
<1>5. /\ l.what = "status" => status' = req.id /\ list' = list
      /\ l.what # "status" => status' = status
                              /\ list' = external_add_list_paramameter(list, l)
  BY <1>1, <1>4 DEF HandleLine
<1>6. HasStatus' = HasStatus
  BY <1>3, <1>4, <1>5 DEF HasStatus
<1>7. /\ Queue' = Queue /\ InHand' = InHand /\ Open' = Open
      /\ Evaluating' = Evaluating /\ Alive' = Alive
  BY <1>1 DEF Queue, InHand, Open, Evaluating, Alive
<1> QED BY <1>1, <1>2, <1>3, <1>4, <1>5, <1>6, <1>7 DEF l

\* Reading a line keeps the stores accounted for.
LEMMA StoreRead ==
  ASSUME TypeInv, TypeInv', FlowInv, StoreInv, ReadLine
  PROVE  StoreInv'
<1> USE DEF script, stores, observers
<1>1. /\ Queue' = Queue /\ InHand' = InHand /\ Open' = Open /\ HasStatus' = HasStatus
      /\ Evaluating' = Evaluating /\ Alive' = Alive
      /\ UNCHANGED <<dpc, task, toSend, req, rest, inp, script, stores, observers>>
  BY ReadMoves
<1>2. LifeInv'
  BY <1>1 DEF StoreInv, LifeInv, Orphan, Asked
<1>3. FileInv'
  BY <1>1 DEF StoreInv, FileInv, Applying, Asked
<1>4. StagedInv'
  BY <1>1 DEF StoreInv, StagedInv, Pending
<1>5. ConfigInv'
  BY <1>1 DEF StoreInv, ConfigInv
<1> QED BY <1>2, <1>3, <1>4, <1>5 DEF StoreInv


\* The three ways the handler of a request ends, told apart by whether the
\* script printed a status line.
LEMMA Verdicts ==
  ASSUME TypeInv, FlowInv, ReadPrompt \/ ReadEof, task = "rpc"
  PROVE  /\ Open /\ req.id # 0 /\ task' = "rpc"
         /\ \/ /\ HasStatus /\ req.kind \in SetKind /\ Answer("status")
               /\ dpc' = "idle" /\ toSend' = <<>>
            \/ /\ HasStatus /\ req.kind \in ObjectKind /\ Answer("status")
               /\ dpc' = "write" /\ toSend' = <<Command("apply_object", req, NoName)>>
            \/ /\ ~HasStatus /\ req.kind \in SetKind \cup ObjectKind /\ Answer("fault")
               /\ dpc' = "idle" /\ toSend' = <<>>
            \/ /\ ~HasStatus /\ req.kind = "get" /\ Answer("fault")
               /\ dpc' = "idle" /\ toSend' = <<>>
            \/ /\ ~HasStatus /\ req.kind = "get" /\ rest = <<>> /\ Answer("list")
               /\ dpc' = "idle" /\ toSend' = <<>>
            \/ /\ ~HasStatus /\ req.kind = "get" /\ rest # <<>> /\ dpc' = "write"
               /\ toSend' = <<Command("get", req, Head(rest)), Plain("end")>>
               /\ rest' = Tail(rest) /\ UNCHANGED <<list, verdict, listed>>
<1>1. /\ dpc = "read" /\ ReadDone /\ \A l \in Lines : l.what = "prompt"
  BY ReadReturns
<1>2. HasStatus <=> status # 0
  BY <1>1 DEF HasStatus
<1>3. FaultInList(list) => ~HasStatus
  <2>1. list \in Seq(Line)
    BY DEF TypeInv, TypeOK
  <2>2. FaultInList(list) => \E l \in Elements(list) : l.what = "fault"
    BY <2>1, NoElements DEF FaultInList, Elements
  <2> QED BY <2>2 DEF FlowInv, AnswerInv
<1>4. Open /\ req.id # 0
  BY <1>1 DEF FlowInv, DaemonInv, Open
<1>5. task' = "rpc" /\ (DecideSet \/ DecideObject \/ DecideGet)
  BY <1>1 DEF ReadDone
<1>6. CASE DecideSet
  BY <1>2, <1>3, <1>4, <1>5, <1>6 DEF DecideSet
<1>7. CASE DecideObject
  BY <1>2, <1>3, <1>4, <1>5, <1>7 DEF DecideObject
<1>8. CASE DecideGet
  <2>1. req.kind = "get" /\ ~HasStatus
    BY <1>2, <1>8 DEF DecideGet, FlowInv, LineInv, SetKind, ObjectKind, GetKind
  <2> QED BY <1>4, <1>5, <1>8, <2>1 DEF DecideGet
<1> QED BY <1>5, <1>6, <1>7, <1>8

\* The end of an answer keeps the stores accounted for: a request that has
\* something committed has a status line, and is not answered with a fault.
LEMMA StoreDone ==
  ASSUME TypeInv, TypeInv', FlowInv, FlowInv', StoreInv, ReadPrompt \/ ReadEof
  PROVE  StoreInv'
<1> USE DEF script, stores
<1>1. /\ dpc = "read" /\ ReadDone /\ Queue = {} /\ InHand = {} /\ InHand' = {}
      /\ inp' = <<>> /\ UNCHANGED <<req, script, stores, nreq, orphaned>>
  BY ReadReturns
<1>2. /\ cpc \notin Working /\ ~Evaluating /\ Alive' = Alive /\ ~Applying
      /\ todo = <<>> /\ Elements(todo) = {} /\ req.id = nreq /\ nreq \in Nat
      /\ task = "rpc" => Open
  <2>1. cpc \notin Working /\ ~Evaluating /\ Alive' = Alive
    BY <1>1 DEF InHand, Working, Evaluating, Alive
  <2>2. ~Applying
    BY <1>1 DEF Applying, Asked
  <2>3. todo = <<>> /\ Elements(todo) = {}
    BY <2>1, Nothing DEF StoreInv, LifeInv
  <2>4. req.id = nreq /\ nreq \in Nat /\ (task = "rpc" => Open)
    BY <1>1, IdType DEF FlowInv, DaemonInv, TypeInv, TypeOK, Open
  <2> QED BY <2>1, <2>2, <2>3, <2>4
<1>0. req \in [id: Id, kind: Kind \cup {NoKind}, names: Seq(Params)]
  BY DEF TypeInv, TypeOK
<1>3. Queue' = Elements(toSend')
  BY <1>1, Nothing DEF Queue
<1>4. /\ \A x \in Elements(toSend') : x.op # "set" /\ x.id <= nreq
      /\ dpc' # "down" /\ (task' = "rpc" => task = "rpc")
  <2>1. CASE toSend' = <<>> /\ dpc' # "down" /\ (task' = "rpc" => task = "rpc")
    BY <2>1, Nothing
  <2>2. ASSUME NEW e, e = Plain("exit") \/ e = Command("apply_object", req, NoName),
               toSend' = <<e>>
        PROVE  \A x \in Elements(toSend') : x.op # "set" /\ x.id <= nreq
    <3>1. e \in Cmd /\ e.op \in {"exit", "apply_object"} /\ e.id \in {0, nreq}
      BY <1>0, <1>2, <2>2, CmdType DEF Op
    <3>2. Elements(toSend') = {e}
      BY <2>2, <3>1, OneElement
    <3> QED BY <1>2, <3>1, <3>2
  <2>3. ASSUME NEW g, NEW e, g = Command("get", req, Head(rest)), rest # <<>>,
               e = Plain("end"), toSend' = <<g, e>>
        PROVE  \A x \in Elements(toSend') : x.op # "set" /\ x.id <= nreq
    <3>1. Head(rest) \in Name
      BY <2>3, HeadTailProperties DEF TypeInv, TypeOK, Name
    <3>2. /\ g \in Cmd /\ g.op = "get" /\ g.id = nreq
          /\ e \in Cmd /\ e.op = "end" /\ e.id = 0
      BY <1>0, <1>2, <2>3, <3>1, CmdType DEF Op
    <3>3. Elements(toSend') = {g, e}
      BY <2>3, <3>2, TwoElements
    <3> QED BY <1>2, <3>2, <3>3
  <2>4. \/ toSend' = <<>>
        \/ \E e \in {Plain("exit"), Command("apply_object", req, NoName)} : toSend' = <<e>>
        \/ rest # <<>> /\ toSend' = <<Command("get", req, Head(rest)), Plain("end")>>
    BY <1>1, ReadOutcome
  <2>5. dpc' # "down" /\ (task' = "rpc" => task = "rpc")
    BY <1>1, ReadOutcome
  <2> QED BY <2>1, <2>2, <2>3, <2>4, <2>5
<1>5. LifeInv'
  BY <1>1, <1>2, <1>3, <1>4 DEF StoreInv, LifeInv, Orphan, Asked
<1>6. FileInv'
  BY <1>1, <1>2 DEF StoreInv, FileInv, Working
<1>7. StagedInv'
  <2>1. ASSUME NEW s \in Slot, Pending(s)
        PROVE  Pending(s)'
    <3>1. CASE s[1] = "notification" \/ staged[s] \in orphaned
      BY <1>1, <3>1 DEF Pending
    <3>2. CASE s[1] = "object" /\ staged[s] = req.id
               /\ Open /\ req.kind \in ObjectKind /\ HasStatus
      <4> DEFINE e == Command("apply_object", req, NoName)
      <4>1. toSend' = <<e>>
        BY <3>2, Verdicts DEF Open, SetKind, ObjectKind
      <4>2. e \in Cmd /\ e.op = "apply_object" /\ e.id = req.id
        BY <1>0, CmdType DEF Op
      <4> HIDE DEF e
      <4>3. e \in Elements(toSend')
        BY <4>1, <4>2, OneElement
      <4> QED BY <1>1, <1>3, <3>2, <4>2, <4>3 DEF Pending
    <3> QED BY <1>1, <1>2, <2>1, <3>1, <3>2 DEF Pending, Working
  <2> QED BY <1>1, <2>1 DEF StoreInv, StagedInv
<1>8. ConfigInv'
  <2>1. CASE task # "rpc"
    <3>1. UNCHANGED verdict /\ ~Open'
      BY <1>1, <2>1, <1>4, ReadOutcome DEF Open
    <3> QED BY <1>1, <3>1 DEF StoreInv, ConfigInv
  <2>2. CASE task = "rpc"
    <3>1. /\ Open /\ verdict \in [Id -> {"none", "status", "fault", "list"}]
          /\ config \in [Slot -> Id] /\ req.id \in Id
      BY <1>2, <2>2 DEF TypeInv, TypeOK
    <3>2. CASE UNCHANGED verdict /\ req.kind = "get"
      <4>1. \A s \in Slot : s[1] # "notification" /\ config[s] \notin orphaned => config[s] # req.id
        BY <3>1, <3>2 DEF StoreInv, ConfigInv, SetKind
      <4> QED BY <1>1, <3>2, <4>1 DEF StoreInv, ConfigInv
    <3>3. ASSUME NEW v \in {"fault", "status", "list"}, Answer(v),
                 v = "fault" => ~HasStatus
          PROVE  ConfigInv'
      <4>1. verdict' = [verdict EXCEPT ![req.id] = v]
        BY <3>3 DEF Answer
      <4>2. verdict'[req.id] = v /\ \A i \in Id : i # req.id => verdict'[i] = verdict[i]
        BY <3>1, <4>1
      <4>3. ~Open'
        BY <1>1, <4>2 DEF Open
      <4>4. ASSUME NEW s \in Slot, s[1] # "notification", config[s] \notin orphaned
            PROVE  verdict'[config[s]] # "fault"
        <5>1. verdict[config[s]] # "fault" /\ (config[s] = req.id => HasStatus)
          BY <3>1, <4>4 DEF StoreInv, ConfigInv
        <5>2. config[s] \in Id
          BY <3>1
        <5> QED BY <3>3, <4>2, <5>1, <5>2
      <4> QED BY <1>1, <4>3, <4>4 DEF StoreInv, ConfigInv
    <3> QED BY <2>2, <3>2, <3>3, Verdicts
  <2> QED BY <2>1, <2>2
<1> QED BY <1>5, <1>6, <1>7, <1>8 DEF StoreInv


\* The child is reaped.
LEMMA StoreClose ==
  ASSUME TypeInv, TypeInv', FlowInv, FlowInv', StoreInv, ExternalExit
  PROVE  StoreInv'
<1> USE DEF stores, observers
<1>1. /\ dpc = "wait" /\ dpc' = "down" /\ cpc = "zombie" /\ cpc' = "none"
      /\ inp' = <<>> /\ UNCHANGED <<toSend, req, ccmd, todo, stores, observers>>
  BY DEF ExternalExit
<1>2. /\ inp = <<>> /\ toSend = <<>> /\ InHand = {} /\ InHand' = {} /\ ~Open /\ ~Open'
      /\ todo = <<>>
  BY <1>1 DEF FlowInv, ScriptInv, Alive, TypeInv, TypeOK, InHand, Working, Open,
              StoreInv, LifeInv, Evaluating
<1>3. Queue = {} /\ Queue' = {} /\ Elements(inp) = {} /\ Elements(todo') = {}
  BY <1>1, <1>2, Nothing DEF Queue
<1>4. LifeInv'
  BY <1>1, <1>2, <1>3 DEF StoreInv, LifeInv, Asked
<1>5. FileInv'
  BY <1>1, <1>2, <1>3 DEF StoreInv, FileInv, Applying
<1>6. StagedInv'
  BY <1>1, <1>2, <1>3, PendingAtRest DEF StoreInv, StagedInv, Pending
<1>7. ConfigInv'
  BY <1>1, <1>2 DEF StoreInv, ConfigInv
<1> QED BY <1>4, <1>5, <1>6, <1>7 DEF StoreInv

\* Every step keeps the stores accounted for.
LEMMA StoreStep == TypeInv /\ FlowInv /\ StoreInv /\ [Next]_vars => StoreInv'
<1> SUFFICES ASSUME TypeInv, FlowInv, StoreInv, [Next]_vars PROVE StoreInv'
  OBVIOUS
<1>1. TypeInv' /\ FlowInv'
  BY TypeStep, FlowStep
<1>2. CASE ScriptStep
  BY <1>1, <1>2, StoreTake, StoreWork, StoreEcho, StoreGone
     DEF ScriptStep, TakeStep, WorkStep
<1>3. CASE DaemonStep
  BY <1>1, <1>3, StoreWrite, StoreRead, StoreDone, StoreClose DEF DaemonStep
<1>4. CASE UNCHANGED vars
  <2> USE <1>4 DEF vars, daemon, script, stores, pipes, observers
  <2>1. /\ Queue' = Queue /\ InHand' = InHand /\ Lines' = Lines /\ Open' = Open
        /\ HasStatus' = HasStatus /\ Evaluating' = Evaluating /\ Alive' = Alive
    <3>1. Queue' = Queue /\ InHand' = InHand /\ Lines' = Lines
      BY DEF Queue, InHand, Lines
    <3> QED BY <3>1 DEF Open, HasStatus, Evaluating, Alive
  <2>2. LifeInv' /\ FileInv'
    BY <2>1 DEF StoreInv, LifeInv, FileInv, Applying, Asked, Orphan
  <2>3. StagedInv' /\ ConfigInv'
    BY <2>1 DEF StoreInv, StagedInv, ConfigInv, Pending
  <2> QED BY <2>2, <2>3 DEF StoreInv
<1> QED BY <1>1, <1>2, <1>3, <1>4, StoreFork, StoreStarts, StoreGone DEF Next

\* Types, flow and stores together.
LEMMA StoreInvariance == Spec => [](TypeInv /\ FlowInv /\ StoreInv)
<1>1. Init => TypeInv /\ FlowInv /\ StoreInv
  BY TypeInit, FlowInit, StoreInit
<1>2. TypeInv /\ FlowInv /\ StoreInv /\ [Next]_vars => TypeInv' /\ FlowInv' /\ StoreInv'
  BY TypeStep, FlowStep, StoreStep
<1> QED BY <1>1, <1>2, PTL DEF Spec

\* Between two conversations no command file, no fault file and no staged
\* change waits for a later "apply" or commit of the script to pick it up,
\* except what a dead script left and what set_notification staged.
THEOREM NothingIsLeftBehind == Spec => []NothingLeftBehind
<1>1. TypeInv /\ FlowInv /\ StoreInv => NothingLeftBehind
  <2> SUFFICES ASSUME TypeInv, FlowInv, StoreInv, dpc = "idle"
               PROVE  /\ cpc = "read" /\ inp = <<>> =>
                           \A s \in Slot : staged[s] # config[s] =>
                             s[1] = "notification" \/ staged[s] \in orphaned
                      /\ \A i \in DOMAIN command_file : command_file[i].id \in orphaned
                      /\ \A i \in DOMAIN fault_file : fault_file[i].id \in orphaned
    BY DEF NothingLeftBehind
  <2>1. cpc = "read" /\ inp = <<>> =>
          \A s \in Slot : staged[s] # config[s] =>
            s[1] = "notification" \/ staged[s] \in orphaned
    <3> SUFFICES ASSUME cpc = "read", inp = <<>>, NEW s \in Slot, staged[s] # config[s]
                 PROVE  s[1] = "notification" \/ staged[s] \in orphaned
      OBVIOUS
    <3>1. Pending(s)
      BY DEF StoreInv, StagedInv
    <3>2. Elements(inp) = {} /\ InHand = {}
      BY Nothing DEF InHand, Working
    <3> QED BY <3>1, <3>2, PendingAtRest
  <2>2. \A e \in Elements(command_file) \cup Elements(fault_file) : e.id \in orphaned
    BY DEF StoreInv, FileInv, Applying, Open
  <2>3. DOMAIN command_file = 1..Len(command_file) /\ DOMAIN fault_file = 1..Len(fault_file)
    BY LenProperties DEF TypeInv, TypeOK
  <2> QED BY <2>1, <2>2, <2>3 DEF Elements
<1> QED BY <1>1, StoreInvariance, PTL

\* What xml_handle_set_parameter_values, AddObject or DeleteObject answered
\* with a fault is never committed, by this request or a later one, unless the
\* script died on it.
THEOREM FaultsAreNeverCommitted == Spec => []FaultsLeaveNoTrace
<1>1. TypeInv /\ FlowInv /\ StoreInv => FaultsLeaveNoTrace
  BY DEF StoreInv, ConfigInv, FaultsLeaveNoTrace
<1> QED BY <1>1, StoreInvariance, PTL


-----------------------------------------------------------------------------
(* What the ACS is told *)

\* An entry of the current request is never followed by one of an older one,
\* which would be evaluated after it.
FileOrder ==
  \A x, y : After(command_file, x, y) \/ After(todo, x, y) =>
              (x.id = req.id => y.id = req.id)

\* Where the name n of a Set method is: in a command that is under way, in the
\* command file, among the lines to evaluate, staged, or committed.
Sent(n) == \E x \in Queue : x.op = "set" /\ x.name = n
Noted(n) == /\ req.kind = "value"
            /\ \E e \in Elements(command_file) : e.name = n /\ e.id = req.id
ToDo(n) == /\ req.kind = "value"
           /\ \E e \in Elements(todo) : e.name = n /\ e.id = req.id
Staged(n) == staged[<<req.kind, n>>] = req.id
Committed(n) == config[<<req.kind, n>>] = req.id

\* No name of a Set method is lost on the way to its status line: before the
\* apply, while it evaluates, and once it says that all is done.
SetInv ==
  ~Orphan /\ req.kind \in SetKind => \A n \in Names(req.names) :
    /\ Open /\ Asked("apply") /\ fault_file = <<>> =>
         Sent(n) \/ Noted(n) \/ (req.kind = "notification" /\ Staged(n))
    /\ cpc = "eval" /\ ~rev =>
         \/ ToDo(n)
         \/ /\ Staged(n)
            /\ req.kind = "value" => \A e \in Elements(todo) : e.id = req.id
    /\ HasStatus \/ verdict[req.id] = "status" =>
         /\ Staged(n)
         /\ (cpc \in {"print", "commit"} /\ ccmd.op = "apply") \/ Committed(n)

\* The object of a request: staged when the status line is printed, committed
\* by the "apply object" that follows the answer.
ObjectSlot == <<"object", Head(req.names)>>
ObjectInv ==
  ~Orphan /\ req.kind \in ObjectKind =>
    /\ Names(req.names) = {Head(req.names)}
    /\ HasStatus \/ verdict[req.id] = "status" => staged[ObjectSlot] = req.id
    /\ verdict[req.id] = "status" =>
         \/ config[ObjectSlot] = req.id
         \/ \E x \in Queue \cup InHand : x.op = "apply_object" /\ x.id = req.id

\* Where the names of a Get method are: listed, asked for, printed, or not
\* asked for yet.
ListNames == {l.name : l \in Elements(list)}
AskedNames == {x.name : x \in {y \in Queue : y.op = "get"}}
SaidNames == {l.name : l \in {m \in Lines : m.what # "prompt"}}
GetInv ==
  ~Orphan /\ req.kind = "get" =>
    /\ Open => ListNames \cup AskedNames \cup SaidNames \cup Names(rest)
                 = Names(req.names)
    /\ verdict[req.id] = "list" => listed = Names(req.names)

\* Only a Get method is answered with a list.
ListInv == verdict[req.id] = "list" => req.kind = "get"

TruthInv == FileOrder /\ SetInv /\ ObjectInv /\ GetInv /\ ListInv

\* A status line is there only while the request that caused it is open, and
\* not while anything is asked for.
LEMMA StatusOpen ==
  ASSUME TypeInv, FlowInv
  PROVE  /\ HasStatus => Open /\ ~Unanswered
         /\ Open => verdict[req.id] = "none"
         /\ req.id \in Id /\ verdict[0] = "none" /\ (verdict[req.id] # "none" => req.id # 0)
<1>1. HasStatus => Open
  BY DEF HasStatus, FlowInv, LineInv, DaemonInv
<1>2. HasStatus => ~Unanswered
  BY Nothing DEF HasStatus, Lines, FlowInv, AnswerInv
<1>3. req.id \in Id
  BY DEF TypeInv, TypeOK
<1> QED BY <1>1, <1>2, <1>3 DEF Open, FlowInv, DaemonInv

\* The names of a request are parameters.
LEMMA NamesType ==
  ASSUME TypeInv
  PROVE  Names(req.names) \subseteq Params /\ Names(rest) \subseteq Params
<1>1. req.names \in Seq(Params) /\ rest \in Seq(Params)
  BY DEF TypeInv, TypeOK
<1>2. \A s \in Seq(Params) : \A i \in DOMAIN s : s[i] \in Params
  BY LenProperties, ElementOfSeq
<1> QED BY <1>1, <1>2 DEF Names

\* A sequence of names is its head and the rest, and one of length 1 its head.
LEMMA NamesSplit ==
  ASSUME NEW s \in Seq(Params)
  PROVE  /\ Names(s) = Elements(s) /\ Names(<<>>) = {}
         /\ s # <<>> => Names(s) = {Head(s)} \cup Names(Tail(s)) /\ Tail(s) \in Seq(Params)
<1>1. \A t \in Seq(Params) : Names(t) = Elements(t)
  BY LenProperties DEF Names, Elements
<1>2. Names(<<>>) = {}
  BY <1>1, Nothing
<1>3. ASSUME s # <<>>
      PROVE  Names(s) = {Head(s)} \cup Names(Tail(s)) /\ Tail(s) \in Seq(Params)
  <2> DEFINE h == Head(s)
             t == Tail(s)
  <2>1. Taken(s, h, t)
    BY <1>3 DEF Taken
  <2> HIDE DEF h, t
  <2>2. t \in Seq(Params) /\ Elements(s) = {h} \cup Elements(t)
    BY <2>1, Reads
  <2> QED BY <1>1, <2>2 DEF h, t
<1> QED BY <1>1, <1>2, <1>3

\* external_add_list_paramameter lists the name of every line it is given.
LEMMA AddListNames ==
  ASSUME NEW l \in Seq(Line), NEW line \in Line, NEW m,
         m = external_add_list_paramameter(l, line)
  PROVE  {x.name : x \in Elements(m)} = {x.name : x \in Elements(l)} \cup {line.name}
<1>1. DOMAIN l = 1..Len(l)
  BY LenProperties
<1>2. CASE Written(l, line, m)
  <2>1. Elements(m) = Elements(l) \cup {line}
    BY <1>2, Appends
  <2> QED BY <2>1
<1>3. CASE m = l /\ \E i \in DOMAIN l : l[i].name = line.name
  BY <1>1, <1>3 DEF Elements
<1> QED BY <1>2, <1>3, AddListCases

\* Nothing is asked for or told at the start.
LEMMA TruthInit == Init => TruthInv
<1> SUFFICES ASSUME Init PROVE TruthInv
  OBVIOUS
<1>1. command_file = <<>> /\ todo = <<>> /\ req.kind = "nokind"
  BY DEF Init, NoReq, NoKind
<1>2. req.kind \notin SetKind \cup ObjectKind \cup {"get"}
  BY <1>1 DEF SetKind, ObjectKind
<1>3. ListInv
  BY IdType DEF Init, NoReq, ListInv
<1> QED BY <1>1, <1>2, <1>3, Nothing DEF TruthInv, FileOrder, SetInv, ObjectInv, GetInv


\* What taking a command does to the names: a "set" notes its name, stages it,
\* or leaves a fault; an object method says so only when it staged the object.
LEMMA TakeDetail ==
  ASSUME TypeInv, TypeInv', FlowInv, TakeStep
  PROVE  LET c == Head(inp) IN
         /\ Elements(command_file) \subseteq Elements(command_file')
         /\ fault_file' = <<>> => fault_file = <<>>
         /\ c.op = "set" /\ fault_file' = <<>> =>
              \/ /\ c.kind = "value"
                 /\ \E e \in Elements(command_file') : e.name = c.name /\ e.id = c.id
              \/ /\ c.kind = "notification"
                 /\ staged'[<<"notification", c.name>>] = c.id
         /\ \A x, y : After(command_file', x, y) =>
                        After(command_file, x, y) \/ (c.op = "set" /\ y.id = c.id)
         /\ \/ UNCHANGED todo /\ cpc' # "eval"
            \/ /\ cpc' = "eval" /\ c.op = "apply" /\ todo' = command_file
               /\ fault_file = <<>> /\ command_file' = command_file
         /\ HasStatus' => \/ HasStatus
                          \/ /\ c.op \in ObjectKind
                             /\ staged'[<<"object", c.name>>] = c.id
<1> USE DEF stores
<1> DEFINE c == Head(inp)
<1>1. /\ c \in Cmd /\ staged \in [Slot -> Id] /\ command_file \in Seq(Entry)
      /\ fault_file \in Seq(Line) /\ c \in Queue /\ UNCHANGED <<outp, status>>
      /\ Elements(say) = {}
  BY TakeMoves DEF TypeInv, TypeOK, daemon
<1>2. c.id \in Id /\ c.name \in Name /\ (c.op \in Naming => c.name \in Params)
  BY <1>1 DEF Cmd, TypeInv, NameInv, Queue
<1>3. HasStatus' => HasStatus \/ \E l \in Elements(say') : l.what = "status"
  <2>1. Elements(outp) \subseteq Lines /\ Lines' = Elements(outp) \cup Elements(say')
    BY <1>1 DEF Lines
  <2> QED BY <1>1, <2>1 DEF HasStatus
<1>4. CASE SetValue
  <2> DEFINE e == [name |-> c.name, id |-> c.id]
             f == Say("fault", c.name, c.id)
  <2>1. /\ c.op = "set" /\ c.kind = "value" /\ UNCHANGED <<todo, say>> /\ cpc' = "read"
        /\ \/ UNCHANGED fault_file /\ Written(command_file, e, command_file')
           \/ UNCHANGED command_file /\ Written(fault_file, f, fault_file')
    BY <1>4 DEF SetValue, ScriptReads, ReadOn, Written
  <2>2. f \in Line /\ e \in Entry /\ e.name = c.name /\ e.id = c.id
    BY <1>2, <2>1, CmdType DEF Entry, Naming
  <2> HIDE DEF c, e, f
  <2>3. CASE UNCHANGED fault_file /\ Written(command_file, e, command_file')
    <3>1. /\ Elements(command_file') = Elements(command_file) \cup {e}
          /\ \A x, y : After(command_file', x, y) => After(command_file, x, y) \/ y = e
      BY <1>1, <2>2, <2>3, Appends
    <3> QED BY <1>1, <1>3, <2>1, <2>2, <2>3, <3>1 DEF c
  <2>4. CASE UNCHANGED command_file /\ Written(fault_file, f, fault_file')
    <3>1. fault_file' # <<>>
      BY <1>1, <2>2, <2>4, Appends
    <3> QED BY <1>1, <1>3, <2>1, <2>4, <3>1 DEF c
  <2> QED BY <2>1, <2>3, <2>4
<1>5. CASE SetNotification
  <2> DEFINE f == Say("fault", c.name, c.id)
  <2>1. /\ c.op = "set" /\ c.kind = "notification" /\ UNCHANGED <<todo, say>>
        /\ cpc' = "read" /\ UNCHANGED command_file
        /\ \/ /\ UNCHANGED fault_file
              /\ staged' = [staged EXCEPT ![<<"notification", c.name>>] = c.id]
           \/ Written(fault_file, f, fault_file')
    BY <1>5 DEF SetNotification, ScriptReads, ReadOn, Written
  <2>2. f \in Line /\ <<"notification", c.name>> \in Slot
    BY <1>2, <2>1, CmdType DEF Slot, SetKind, Naming
  <2> HIDE DEF c, f
  <2>3. CASE /\ UNCHANGED fault_file
             /\ staged' = [staged EXCEPT ![<<"notification", c.name>>] = c.id]
    <3>1. staged'[<<"notification", c.name>>] = c.id
      BY <1>1, <1>2, <2>2, <2>3, SlotChange
    <3> QED BY <1>1, <1>3, <2>1, <2>3, <3>1 DEF c
  <2>4. CASE Written(fault_file, f, fault_file')
    <3>1. fault_file' # <<>>
      BY <1>1, <2>2, <2>4, Appends
    <3> QED BY <1>1, <1>3, <2>1, <3>1 DEF c
  <2> QED BY <2>1, <2>3, <2>4
<1>6. CASE Apply
  <2>1. /\ c.op = "apply" /\ UNCHANGED <<command_file, fault_file>>
        /\ \/ fault_file # <<>> /\ cpc' = "print" /\ say' = fault_file /\ UNCHANGED todo
           \/ fault_file = <<>> /\ cpc' = "eval" /\ todo' = command_file /\ UNCHANGED say
    BY <1>6 DEF Apply, ScriptReads
  <2>2. \A l \in Elements(say') : l.what # "status"
    BY <1>1, <2>1 DEF FlowInv, LineInv
  <2> HIDE DEF c
  <2> QED BY <1>3, <2>1, <2>2 DEF c
<1>7. CASE AddOrDeleteObject
  <2>1. /\ c.op \in ObjectKind /\ UNCHANGED <<command_file, fault_file, todo>>
        /\ cpc' = "print"
        /\ \/ staged' = [staged EXCEPT ![<<"object", c.name>>] = c.id]
           \/ \E what \in {"fault", "noinstance"} : Echo(<<Say(what, c.name, c.id)>>)
    BY <1>7 DEF AddOrDeleteObject, ScriptReads, Echo
  <2>2. <<"object", c.name>> \in Slot
    BY <1>2, <2>1 DEF Slot, Naming, ObjectKind
  <2> HIDE DEF c
  <2>3. CASE staged' = [staged EXCEPT ![<<"object", c.name>>] = c.id]
    <3>1. staged'[<<"object", c.name>>] = c.id
      BY <1>1, <1>2, <2>2, <2>3, SlotChange
    <3> QED BY <2>1, <3>1 DEF c, ObjectKind
  <2>4. CASE \E what \in {"fault", "noinstance"} : Echo(<<Say(what, c.name, c.id)>>)
    <3>1. \A l \in Elements(say') : l.what # "status"
      BY <1>2, <2>4, OneLine
    <3> QED BY <1>3, <2>1, <3>1 DEF c, ObjectKind
  <2> QED BY <2>1, <2>3, <2>4
<1>8. CASE ApplyObject \/ ApplyService
  <2>1. /\ UNCHANGED <<command_file, fault_file, todo, say>>
        /\ cpc' # "eval" /\ c.op \in {"apply_object", "apply_service"}
    BY <1>8 DEF ApplyObject, ApplyService, ReadOn, ScriptReads
  <2> HIDE DEF c
  <2> QED BY <1>1, <1>3, <2>1 DEF c
<1>9. CASE GetParameter \/ End
  <2>1. /\ UNCHANGED <<command_file, fault_file, todo>>
        /\ cpc' # "eval" /\ c.op \in {"get", "end"}
        /\ \E what \in {"value", "fault", "prompt"} :
             Echo(<<Say(what, c.name, c.id)>>) \/ Echo(<<Say(what, NoName, 0)>>)
    BY <1>9 DEF GetParameter, End, Echo, ScriptReads
  <2> HIDE DEF c
  <2>2. \A l \in Elements(say') : l.what # "status"
    <3>1. PICK what \in {"value", "fault", "prompt"} :
            Echo(<<Say(what, c.name, c.id)>>) \/ Echo(<<Say(what, NoName, 0)>>)
      BY <2>1
    <3>2. /\ what \in {"prompt", "status", "noinstance", "fault", "value"}
          /\ what # "status"
      BY <3>1
    <3>3. c.name \in Name /\ c.id \in Id /\ NoName \in Name /\ 0 \in Id
      BY <1>2, CmdType, IdType
    <3>4. CASE Echo(<<Say(what, c.name, c.id)>>)
      BY <3>2, <3>3, <3>4, OneLine
    <3>5. CASE Echo(<<Say(what, NoName, 0)>>)
      BY <3>2, <3>3, <3>5, OneLine
    <3> QED BY <3>1, <3>4, <3>5
  <2> QED BY <1>3, <2>1, <2>2 DEF c
<1> QED BY <1>4, <1>5, <1>6, <1>7, <1>8, <1>9 DEF TakeStep


\* Taking a command loses no name.
LEMMA TruthTake ==
  ASSUME TypeInv, TypeInv', FlowInv, FlowInv', StoreInv, TruthInv, TakeStep
  PROVE  TruthInv'
<1> DEFINE c == Head(inp)
<1>1. /\ cpc = "read" /\ c \in Cmd /\ ccmd' = c /\ c \in Queue
      /\ Queue = Queue' \cup {c} /\ InHand = {} /\ Elements(say) = {}
      /\ \A y \in Queue' : cpc' # "read" => Prec(c, y)
      /\ Open' = Open
      /\ UNCHANGED <<outp, daemon, observers, config>>
      /\ cpc' # "read" => InHand' = {c}
      /\ c.op = "apply_object" <=> cpc' = "commit"
      /\ cpc' \in {"read", "print", "eval", "commit"}
  BY TakeMoves
<1>2. \A s \in Slot :
        \/ staged'[s] = staged[s]
        \/ s[1] = "notification" /\ c.op = "set" /\ staged'[s] = c.id
        \/ s[1] = "object" /\ c.op \in ObjectKind /\ staged'[s] = c.id
  BY TakeEffects
<1>3. /\ Elements(command_file) \subseteq Elements(command_file')
      /\ fault_file' = <<>> => fault_file = <<>>
      /\ c.op = "set" /\ fault_file' = <<>> =>
           \/ /\ c.kind = "value"
              /\ \E e \in Elements(command_file') : e.name = c.name /\ e.id = c.id
           \/ /\ c.kind = "notification"
              /\ staged'[<<"notification", c.name>>] = c.id
      /\ \A x, y : After(command_file', x, y) =>
                     After(command_file, x, y) \/ (c.op = "set" /\ y.id = c.id)
      /\ \/ UNCHANGED todo /\ cpc' # "eval"
         \/ /\ cpc' = "eval" /\ c.op = "apply" /\ todo' = command_file
            /\ fault_file = <<>> /\ command_file' = command_file
      /\ HasStatus' => \/ HasStatus
                       \/ /\ c.op \in ObjectKind
                          /\ staged'[<<"object", c.name>>] = c.id
  BY TakeDetail
<1> HIDE DEF c
<1> USE DEF daemon, observers
<1>4. /\ c.op \in {"set", "apply"} => /\ Open /\ req.kind \in SetKind
                                      /\ c.kind = req.kind /\ c.id = req.id
      /\ c.op \in ObjectKind => /\ Open /\ c.op = req.kind /\ c.id = req.id
                                /\ c.name = Head(req.names)
      /\ c.op \in {"set", "add", "delete"} => Unanswered
  BY <1>1 DEF FlowInv, CmdInv, ObjectKind, Unanswered
<1>5. /\ HasStatus => Open /\ ~Unanswered
      /\ Open => verdict[req.id] = "none"
  BY StatusOpen
<1>6. Names(req.names) \subseteq Params
  BY NamesType
<1>7. FileOrder'
  BY <1>1, <1>3, <1>4 DEF TruthInv, FileOrder
<1>8. SetInv'
  <2> SUFFICES ASSUME ~Orphan, req.kind \in SetKind, NEW n \in Names(req.names)
      PROVE  /\ Open' /\ Asked("apply")' /\ fault_file' = <<>> =>
                  Sent(n)' \/ Noted(n)' \/ (req.kind = "notification" /\ Staged(n)')
             /\ cpc' = "eval" /\ ~rev' =>
                  \/ ToDo(n)'
                  \/ /\ Staged(n)'
                     /\ req.kind = "value" => \A e \in Elements(todo') : e.id = req.id
             /\ HasStatus' \/ verdict[req.id] = "status" => Staged(n)' /\ Committed(n)'
    BY <1>1 DEF SetInv, Orphan
  <2>1. /\ Open /\ Asked("apply") /\ fault_file = <<>> =>
             Sent(n) \/ Noted(n) \/ (req.kind = "notification" /\ Staged(n))
        /\ HasStatus \/ verdict[req.id] = "status" => Staged(n) /\ Committed(n)
    BY <1>1 DEF TruthInv, SetInv
  <2>2. <<req.kind, n>> \in Slot /\ <<req.kind, n>>[1] = req.kind /\ req.kind # "object"
    BY <1>6 DEF Slot, SetKind
  <2>3. \/ staged'[<<req.kind, n>>] = staged[<<req.kind, n>>]
        \/ /\ req.kind = "notification" /\ c.op = "set"
           /\ staged'[<<req.kind, n>>] = req.id
    BY <1>2, <1>4, <2>2
  <2>4. Staged(n) => Staged(n)'
    BY <1>1, <2>3 DEF Staged
  <2>5. ASSUME Open', Asked("apply")', fault_file' = <<>>
        PROVE  Sent(n)' \/ Noted(n)' \/ (req.kind = "notification" /\ Staged(n)')
    <3>1. Sent(n) \/ Noted(n) \/ (req.kind = "notification" /\ Staged(n))
      BY <1>1, <1>3, <2>1, <2>5 DEF Asked
    <3>2. Noted(n) => Noted(n)'
      BY <1>1, <1>3 DEF Noted
    <3>3. ASSUME NEW x \in Queue, x.op = "set", x.name = n, x = c
          PROVE  Noted(n)' \/ (req.kind = "notification" /\ Staged(n)')
      BY <1>1, <1>3, <1>4, <2>5, <3>3 DEF Noted, Staged
    <3>4. ASSUME NEW x \in Queue, x.op = "set", x.name = n, x # c
          PROVE  Sent(n)'
      BY <1>1, <3>4 DEF Sent
    <3> QED BY <2>4, <3>1, <3>2, <3>3, <3>4 DEF Sent
  <2>6. ASSUME cpc' = "eval"
        PROVE  ToDo(n)' \/ (Staged(n)' /\ req.kind # "value")
    <3>1. c.op = "apply" /\ todo' = command_file /\ fault_file = <<>> /\ Open
          /\ Asked("apply")
      BY <1>1, <1>3, <1>4, <2>6 DEF Asked
    <3>2. ~Sent(n)
      BY <1>1, <2>6, <3>1 DEF Sent, Prec
    <3>3. Noted(n) \/ (req.kind = "notification" /\ Staged(n))
      BY <2>1, <3>1, <3>2
    <3> QED BY <1>1, <2>4, <3>1, <3>3 DEF Noted, ToDo
  <2>7. ASSUME HasStatus' \/ verdict[req.id] = "status"
        PROVE  Staged(n)' /\ Committed(n)'
    <3>1. HasStatus \/ verdict[req.id] = "status"
      BY <1>3, <1>4, <2>7 DEF SetKind, ObjectKind
    <3> QED BY <1>1, <2>1, <2>4, <3>1 DEF Committed
  <2> QED BY <1>1, <2>5, <2>6, <2>7
<1>9. ObjectInv'
  <2> SUFFICES ASSUME ~Orphan, req.kind \in ObjectKind
      PROVE  /\ Names(req.names) = {Head(req.names)}
             /\ HasStatus' \/ verdict[req.id] = "status" => staged'[ObjectSlot] = req.id
             /\ verdict[req.id] = "status" =>
                  \/ config[ObjectSlot] = req.id
                  \/ \E x \in Queue' \cup InHand' : x.op = "apply_object" /\ x.id = req.id
    BY <1>1 DEF ObjectInv, Orphan, ObjectSlot
  <2>1. /\ Names(req.names) = {Head(req.names)}
        /\ HasStatus \/ verdict[req.id] = "status" => staged[ObjectSlot] = req.id
        /\ verdict[req.id] = "status" =>
             \/ config[ObjectSlot] = req.id
             \/ \E x \in Queue : x.op = "apply_object" /\ x.id = req.id
    BY <1>1 DEF TruthInv, ObjectInv
  <2>2. ObjectSlot \in Slot /\ ObjectSlot[1] = "object"
    BY <1>6, <2>1 DEF ObjectSlot, Slot
  <2>3. staged'[ObjectSlot] = staged[ObjectSlot] \/ staged'[ObjectSlot] = req.id
    BY <1>2, <1>4, <2>2
  <2>4. HasStatus' \/ verdict[req.id] = "status" => staged'[ObjectSlot] = req.id
    BY <1>3, <1>4, <2>1, <2>3 DEF ObjectSlot
  <2> QED BY <1>1, <2>1, <2>4
<1>10. GetInv'
  <2> SUFFICES ASSUME ~Orphan, req.kind = "get"
      PROVE  /\ Open => ListNames' \cup AskedNames' \cup SaidNames' \cup Names(rest)
                          = Names(req.names)
             /\ verdict[req.id] = "list" => listed = Names(req.names)
    BY <1>1 DEF GetInv, Orphan
  <2>1. /\ Open => ListNames \cup AskedNames \cup SaidNames \cup Names(rest)
                     = Names(req.names)
        /\ verdict[req.id] = "list" => listed = Names(req.names)
    BY DEF TruthInv, GetInv
  <2>2. ListNames' = ListNames /\ Lines' = Lines \cup Elements(say')
    BY <1>1 DEF ListNames, Lines
  <2>3. CASE c.op = "get"
    <3>1. \E what \in {"value", "fault"} : Echo(<<Say(what, c.name, c.id)>>)
      BY <2>3 DEF TakeStep, SetValue, SetNotification, Apply, AddOrDeleteObject,
         ApplyObject, GetParameter, ApplyService, End, ScriptReads, ObjectKind, c
    <3>2. /\ \A l \in Elements(say') : l.what # "prompt" /\ l.name = c.name
          /\ Elements(say') # {}
      BY <1>1, <3>1, OneLine DEF Cmd
    <3>3. SaidNames' = SaidNames \cup {c.name}
      BY <2>2, <3>2 DEF SaidNames
    <3>4. AskedNames = AskedNames' \cup {c.name}
      BY <1>1, <2>3 DEF AskedNames
    <3> QED BY <2>1, <2>2, <3>3, <3>4
  <2>4. CASE c.op # "get"
    <3>1. \A l \in Elements(say') : l.what = "prompt"
      <4>1. cpc' = "print" => c.op = "end"
        BY <1>1, <1>4, <2>4 DEF FlowInv, ScriptInv, SetKind, ObjectKind
      <4>2. Elements(say') # {} => cpc' = "print"
        BY Nothing DEF TypeInv, NameInv
      <4> QED BY <1>1, <4>1, <4>2 DEF FlowInv, ScriptInv
    <3>2. SaidNames' = SaidNames
      BY <2>2, <3>1 DEF SaidNames
    <3>3. AskedNames' = AskedNames
      BY <1>1, <2>4 DEF AskedNames
    <3> QED BY <2>1, <2>2, <3>2, <3>3
  <2> QED BY <2>3, <2>4
<1>11. ListInv'
  BY <1>1 DEF TruthInv, ListInv
<1> QED BY <1>7, <1>8, <1>9, <1>10, <1>11 DEF TruthInv


\* Evaluating the command file brings each of its names into the staged
\* changes, and an entry of the current request is not undone by a later one.
LEMMA EvalNames ==
  ASSUME TypeInv, TruthInv, EvalLine, ~Orphan, req.kind \in SetKind, ~rev, ~rev',
         NEW n \in Names(req.names)
  PROVE  \/ ToDo(n)'
         \/ /\ Staged(n)'
            /\ req.kind = "value" => \A e \in Elements(todo') : e.id = req.id
<1> DEFINE e == Head(todo)
<1>1. /\ Taken(todo, e, todo') /\ todo \in Seq(Entry) /\ staged \in [Slot -> Id]
      /\ cpc = "eval" /\ UNCHANGED req
  BY DEF EvalLine, Taken, TypeInv, TypeOK, daemon
<1>2. staged' = [staged EXCEPT ![<<"value", e.name>>] = e.id]
  BY DEF EvalLine
<1> HIDE DEF e
<1>3. /\ e \in Entry /\ Elements(todo) = {e} \cup Elements(todo')
      /\ \A x \in Elements(todo') : After(todo, e, x)
  BY <1>1, Reads
<1>4. e.id \in Id /\ <<"value", e.name>> \in Slot /\ <<req.kind, n>> \in Slot
  BY <1>3, NamesType DEF Entry, Slot, SetKind
<1>5. /\ \A s \in Slot : staged'[s] = staged[s] \/ (s[1] = "value" /\ staged'[s] = e.id)
      /\ staged'[<<"value", e.name>>] = e.id
  BY <1>1, <1>2, <1>4, SlotChange
<1>6. \/ ToDo(n)
      \/ /\ Staged(n)
         /\ req.kind = "value" => \A x \in Elements(todo) : x.id = req.id
  BY <1>1 DEF TruthInv, SetInv
<1>7. CASE /\ Staged(n)
           /\ req.kind = "value" => \A x \in Elements(todo) : x.id = req.id
  <2>1. Staged(n)'
    <3>1. <<req.kind, n>>[1] = req.kind
      OBVIOUS
    <3>2. \/ staged'[<<req.kind, n>>] = staged[<<req.kind, n>>]
          \/ req.kind = "value" /\ staged'[<<req.kind, n>>] = e.id
      BY <1>4, <1>5, <3>1
    <3> QED BY <1>1, <1>3, <1>7, <3>2 DEF Staged
  <2> QED BY <1>3, <1>7, <2>1
<1>8. CASE ToDo(n)
  <2>1. PICK w \in Elements(todo) : w.name = n /\ w.id = req.id
    BY <1>8 DEF ToDo
  <2>2. req.kind = "value"
    BY <1>8 DEF ToDo
  <2>3. CASE w = e
    <3>1. Staged(n)'
      BY <1>1, <1>5, <2>1, <2>2, <2>3 DEF Staged
    <3>2. \A x \in Elements(todo') : x.id = req.id
      BY <1>3, <2>1, <2>3 DEF TruthInv, FileOrder
    <3> QED BY <3>1, <3>2
  <2>4. CASE w # e
    BY <1>1, <1>3, <2>1, <2>2, <2>4 DEF ToDo
  <2> QED BY <2>3, <2>4
<1> QED BY <1>6, <1>7, <1>8

\* What the steps of an apply do to the files and to the configuration.
LEMMA WorkDetail ==
  ASSUME TypeInv, FlowInv, WorkStep
  PROVE  /\ command_file' = command_file \/ command_file' = <<>>
         /\ \/ UNCHANGED todo
            \/ /\ EvalLine /\ cpc' \in {"eval", "print"}
               /\ \A x, y : After(todo', x, y) => After(todo, x, y)
         /\ Evaluating \/ cpc = "revert" \/ UNCHANGED staged
         /\ cpc = "commit" => /\ config' = staged /\ UNCHANGED <<say, staged>>
                              /\ UNCHANGED <<command_file, fault_file>>
         /\ cpc # "commit" => UNCHANGED config
         /\ cpc = "eval" /\ cpc' = "eval" => EvalLine /\ UNCHANGED rev
         /\ cpc = "eval" /\ cpc' = "print" /\ ~rev' => todo = <<>> /\ UNCHANGED staged
<1> USE DEF stores
<1>1. CASE EvalLine
  <2> DEFINE e == Head(todo)
  <2>1. /\ Taken(todo, e, todo') /\ todo \in Seq(Entry)
    BY <1>1 DEF EvalLine, Taken, TypeInv, TypeOK
  <2> HIDE DEF e
  <2>2. \A x, y : After(todo', x, y) => After(todo, x, y)
    BY <2>1, Reads
  <2>3. /\ cpc = "eval" /\ UNCHANGED <<command_file, config>>
        /\ \/ cpc' = "eval" /\ UNCHANGED rev
           \/ cpc' = "print" /\ rev' = TRUE
    BY <1>1 DEF EvalLine
  <2> QED BY <1>1, <2>2, <2>3 DEF Evaluating
<1>2. CASE EvalDone
  BY <1>2 DEF EvalDone
<1>3. CASE Revert
  BY <1>3 DEF Revert
<1>4. CASE Commit
  BY <1>4 DEF Commit
<1>5. CASE RemoveFaultFile \/ RemoveCommandFile
  BY <1>5 DEF RemoveFaultFile, RemoveCommandFile
<1> QED BY <1>1, <1>2, <1>3, <1>4, <1>5 DEF WorkStep

\* An apply loses no name: what its status line says is staged, and what it
\* says is committed before the script reads on.
LEMMA TruthWork ==
  ASSUME TypeInv, TypeInv', FlowInv, FlowInv', StoreInv, TruthInv, WorkStep
  PROVE  TruthInv'
<1> USE DEF daemon, observers, pipes
<1>1. /\ cpc \in {"eval", "revert", "commit", "rm_fault", "rm_command"}
      /\ UNCHANGED <<ccmd, pipes, daemon, observers>>
      /\ \/ UNCHANGED say /\ cpc' = "read" /\ cpc \in {"commit", "rm_command"}
            /\ (cpc = "commit" => ccmd.op = "apply_object")
         \/ UNCHANGED say /\ cpc' \in {"rm_fault", "rm_command"}
            /\ cpc \notin {"eval", "rm_command"} /\ ccmd.op = "apply"
         \/ UNCHANGED <<say, rev>> /\ cpc = "eval" /\ cpc' \in {"eval", "revert"}
         \/ /\ cpc = "eval" /\ cpc' = "print" /\ rev'
            /\ \A l \in Elements(say') : l.what = "fault"
         \/ /\ cpc = "eval" /\ cpc' = "print" /\ ~rev /\ ~rev'
            /\ \A l \in Elements(say') : l.what = "status" /\ l.id = ccmd.id
  BY WorkCases
<1>2. /\ command_file' = command_file \/ command_file' = <<>>
      /\ \/ UNCHANGED todo
         \/ /\ EvalLine /\ cpc' \in {"eval", "print"}
            /\ \A x, y : After(todo', x, y) => After(todo, x, y)
      /\ Evaluating \/ cpc = "revert" \/ UNCHANGED staged
      /\ cpc = "commit" => /\ config' = staged /\ UNCHANGED <<say, staged>>
                           /\ UNCHANGED <<command_file, fault_file>>
      /\ cpc # "commit" => UNCHANGED config
      /\ cpc = "eval" /\ cpc' = "eval" => EvalLine /\ UNCHANGED rev
      /\ cpc = "eval" /\ cpc' = "print" /\ ~rev' => todo = <<>> /\ UNCHANGED staged
  BY WorkDetail
<1>3. /\ InHand = {ccmd} /\ Queue' = Queue /\ (Open' <=> Open) /\ (Orphan' <=> Orphan)
      /\ Elements(outp') = Elements(outp) /\ say = <<>> /\ Elements(say) = {}
  <2>1. say = <<>>
    BY <1>1 DEF TypeInv, NameInv
  <2> QED BY <1>1, <2>1, Nothing DEF InHand, Working, Queue, Open, Orphan
<1>4. /\ ccmd.op \in {"apply", "apply_object"}
      /\ ccmd.op = "apply" => /\ Open /\ req.kind \in SetKind
                              /\ \A y \in Queue : y.op = "end"
      /\ cpc # "commit" => ccmd.op = "apply"
  BY <1>1, <1>3 DEF FlowInv, ScriptInv, CmdInv, OrderInv, Prec
<1>5. /\ Open => verdict[req.id] = "none"
      /\ HasStatus => Open
  BY StatusOpen
<1>6. /\ HasStatus' => HasStatus \/ (cpc = "eval" /\ cpc' = "print" /\ ~rev /\ ~rev')
      /\ HasStatus => ~Evaluating /\ cpc # "revert" /\ cpc # "eval"
  <2>1. HasStatus => ~Evaluating /\ cpc # "revert" /\ cpc # "eval"
    BY DEF FlowInv, AnswerInv, Evaluating
  <2>2. Lines = Elements(outp) /\ Lines' = Elements(outp) \cup Elements(say')
    BY <1>3 DEF Lines
  <2>3. (\E l \in Elements(say') : l.what = "status")
          => cpc = "eval" /\ cpc' = "print" /\ ~rev /\ ~rev'
    BY <1>1, <1>3
  <2> QED BY <1>1, <2>1, <2>2, <2>3 DEF HasStatus
<1>7. FileOrder'
  BY <1>1, <1>2, Nothing DEF TruthInv, FileOrder
<1>8. SetInv'
  <2> SUFFICES ASSUME ~Orphan, req.kind \in SetKind, NEW n \in Names(req.names)
      PROVE  /\ Open' /\ Asked("apply")' /\ fault_file' = <<>> =>
                  Sent(n)' \/ Noted(n)' \/ (req.kind = "notification" /\ Staged(n)')
             /\ cpc' = "eval" /\ ~rev' =>
                  \/ ToDo(n)'
                  \/ /\ Staged(n)'
                     /\ req.kind = "value" => \A e \in Elements(todo') : e.id = req.id
             /\ HasStatus' \/ verdict[req.id] = "status" =>
                  /\ Staged(n)'
                  /\ (cpc' \in {"print", "commit"} /\ ccmd.op = "apply") \/ Committed(n)'
    BY <1>1, <1>3 DEF SetInv
  <2>1. /\ Open /\ Asked("apply") /\ fault_file = <<>> =>
             Sent(n) \/ Noted(n) \/ (req.kind = "notification" /\ Staged(n))
        /\ cpc = "eval" /\ ~rev => ToDo(n) \/ Staged(n)
        /\ HasStatus \/ verdict[req.id] = "status" =>
             /\ Staged(n)
             /\ (cpc \in {"print", "commit"} /\ ccmd.op = "apply") \/ Committed(n)
    BY DEF TruthInv, SetInv
  <2>2. ASSUME Open', Asked("apply")', fault_file' = <<>>
        PROVE  Sent(n)' \/ Noted(n)' \/ (req.kind = "notification" /\ Staged(n)')
    <3>1. ccmd.op = "apply_object" /\ cpc = "commit" /\ Asked("apply")
      BY <1>3, <1>4, <2>2 DEF Asked
    <3>2. UNCHANGED <<command_file, fault_file, staged>>
      BY <1>2, <3>1
    <3> QED BY <1>1, <1>3, <2>1, <2>2, <3>1, <3>2 DEF Sent, Noted, Staged
  <2>3. ASSUME cpc' = "eval", ~rev'
        PROVE  \/ ToDo(n)'
               \/ /\ Staged(n)'
                  /\ req.kind = "value" => \A e \in Elements(todo') : e.id = req.id
    <3>1. EvalLine /\ ~rev
      BY <1>1, <1>2, <2>3
    <3> QED BY <2>3, <3>1, EvalNames
  <2>4. ASSUME HasStatus \/ verdict[req.id] = "status"
        PROVE  Staged(n)' /\ Committed(n)'
    <3>1. Staged(n) /\ UNCHANGED staged
      BY <1>2, <1>4, <1>5, <1>6, <2>1, <2>4 DEF Evaluating
    <3>2. cpc # "commit" => Committed(n) /\ UNCHANGED config
      BY <1>1, <1>2, <2>1, <2>4
    <3>3. cpc = "commit" => config' = staged
      BY <1>2
    <3> QED BY <1>1, <3>1, <3>2, <3>3 DEF Staged, Committed
  <2>5. ASSUME ~HasStatus, HasStatus'
        PROVE  Staged(n)' /\ cpc' = "print" /\ ccmd.op = "apply"
    <3>1. cpc = "eval" /\ cpc' = "print" /\ ~rev /\ todo = <<>> /\ UNCHANGED staged
      BY <1>2, <1>6, <2>5
    <3>2. ~ToDo(n)
      BY <3>1, Nothing DEF ToDo
    <3> QED BY <1>1, <1>4, <2>1, <3>1, <3>2 DEF Staged
  <2> QED BY <2>2, <2>3, <2>4, <2>5
<1>9. ObjectInv'
  <2> SUFFICES ASSUME ~Orphan, req.kind \in ObjectKind
      PROVE  /\ Names(req.names) = {Head(req.names)}
             /\ HasStatus' \/ verdict[req.id] = "status" => staged'[ObjectSlot] = req.id
             /\ verdict[req.id] = "status" => config'[ObjectSlot] = req.id
    BY <1>1, <1>3 DEF ObjectInv, ObjectSlot
  <2>1. ccmd.op = "apply_object" /\ cpc = "commit"
    BY <1>4 DEF SetKind, ObjectKind
  <2>2. config' = staged /\ staged' = staged
    BY <1>2, <2>1
  <2>3. /\ Names(req.names) = {Head(req.names)}
        /\ HasStatus \/ verdict[req.id] = "status" => staged[ObjectSlot] = req.id
    BY DEF TruthInv, ObjectInv
  <2> QED BY <1>6, <2>1, <2>2, <2>3
<1>10. GetInv'
  <2> SUFFICES ASSUME ~Orphan, req.kind = "get" PROVE GetInv'
    BY <1>1, <1>3 DEF GetInv
  <2>1. cpc = "commit"
    BY <1>4 DEF SetKind
  <2>2. Lines' = Lines
    BY <1>1, <1>2, <2>1 DEF Lines
  <2>3. ListNames' = ListNames /\ AskedNames' = AskedNames /\ SaidNames' = SaidNames
    BY <1>1, <1>3, <2>2 DEF ListNames, AskedNames, SaidNames
  <2> QED BY <1>1, <1>3, <2>3 DEF TruthInv, GetInv
<1>11. ListInv'
  BY <1>1 DEF TruthInv, ListInv
<1> QED BY <1>7, <1>8, <1>9, <1>10, <1>11 DEF TruthInv


\* A step between conversations, or one that closes or orphans them, makes
\* nothing untrue that was told.
LEMMA TruthRest ==
  ASSUME TypeInv, FlowInv, FlowInv', TruthInv,
         UNCHANGED <<req, stores, verdict, listed>>, Orphan => Orphan',
         ~Open', ~Orphan' => ~Open, cpc' # "eval", todo' \in {todo, <<>>},
         ~Orphan' => \A x \in Queue \cup InHand :
           x.op = "apply_object" /\ x.id = req.id => x \in Queue' \cup InHand'
  PROVE  TruthInv'
<1> USE DEF stores
<1>1. FileOrder'
  BY Nothing DEF TruthInv, FileOrder
<1>2. ~HasStatus'
  BY DEF HasStatus, FlowInv, LineInv, DaemonInv
<1>3. SetInv'
  <2> SUFFICES ASSUME ~Orphan', req.kind \in SetKind, NEW n \in Names(req.names)
      PROVE  verdict[req.id] = "status" => Staged(n)' /\ Committed(n)'
    BY <1>2 DEF SetInv
  <2>1. verdict[req.id] = "status" =>
          /\ Staged(n)
          /\ (cpc \in {"print", "commit"} /\ ccmd.op = "apply") \/ Committed(n)
    BY DEF TruthInv, SetInv
  <2>2. ~(cpc \in {"print", "commit"} /\ ccmd.op = "apply")
    BY DEF FlowInv, CmdInv, InHand, Working
  <2> QED BY <2>1, <2>2 DEF Staged, Committed
<1>4. ObjectInv'
  BY <1>2 DEF TruthInv, ObjectInv, ObjectSlot
<1>5. GetInv'
  BY DEF TruthInv, GetInv
<1>6. ListInv'
  BY DEF TruthInv, ListInv
<1> QED BY <1>1, <1>3, <1>4, <1>5, <1>6 DEF TruthInv

\* Nor does a step that only moves commands and lines along.
LEMMA TruthMoves ==
  ASSUME TypeInv, FlowInv, TruthInv,
         UNCHANGED <<req, rest, stores, todo, rev, ccmd, observers>>,
         Queue' = Queue, Open' => Open, HasStatus' => HasStatus,
         cpc' = "eval" => cpc = "eval" \/ rev,
         cpc \in {"print", "commit"} /\ ccmd.op = "apply" /\ HasStatus =>
           cpc' \in {"print", "commit"},
         \A x \in InHand : x.op = "apply_object" => x \in InHand',
         ListNames' \cup SaidNames' = ListNames \cup SaidNames
  PROVE  TruthInv'
<1> USE DEF stores, observers
<1>1. FileOrder'
  BY DEF TruthInv, FileOrder
<1>2. Orphan' <=> Orphan
  BY DEF Orphan
<1>3. SetInv'
  <2> SUFFICES ASSUME ~Orphan, req.kind \in SetKind, NEW n \in Names(req.names)
      PROVE  /\ Open' /\ Asked("apply")' /\ fault_file = <<>> =>
                  Sent(n)' \/ Noted(n)' \/ (req.kind = "notification" /\ Staged(n)')
             /\ cpc' = "eval" /\ ~rev =>
                  \/ ToDo(n)'
                  \/ /\ Staged(n)'
                     /\ req.kind = "value" => \A e \in Elements(todo) : e.id = req.id
             /\ HasStatus' \/ verdict[req.id] = "status" =>
                  /\ Staged(n)'
                  /\ (cpc' \in {"print", "commit"} /\ ccmd.op = "apply") \/ Committed(n)'
    BY <1>2 DEF SetInv
  <2>1. /\ Open /\ Asked("apply") /\ fault_file = <<>> =>
             Sent(n) \/ Noted(n) \/ (req.kind = "notification" /\ Staged(n))
        /\ cpc = "eval" /\ ~rev =>
             \/ ToDo(n)
             \/ /\ Staged(n)
                /\ req.kind = "value" => \A e \in Elements(todo) : e.id = req.id
        /\ HasStatus \/ verdict[req.id] = "status" =>
             /\ Staged(n)
             /\ (cpc \in {"print", "commit"} /\ ccmd.op = "apply") \/ Committed(n)
    BY DEF TruthInv, SetInv
  <2>2. /\ Sent(n)' <=> Sent(n)
        /\ Noted(n)' <=> Noted(n)
        /\ ToDo(n)' <=> ToDo(n)
        /\ Staged(n)' <=> Staged(n)
        /\ Committed(n)' <=> Committed(n)
        /\ Asked("apply")' <=> Asked("apply")
    BY DEF Sent, Noted, ToDo, Staged, Committed, Asked
  <2>3. verdict[req.id] = "status" =>
          ~(cpc \in {"print", "commit"} /\ ccmd.op = "apply")
    BY DEF FlowInv, CmdInv, InHand, Working, Open
  <2> QED BY <2>1, <2>2, <2>3
<1>4. ObjectInv'
  BY <1>2 DEF TruthInv, ObjectInv, ObjectSlot
<1>5. GetInv'
  <2>1. AskedNames' = AskedNames
    BY DEF AskedNames
  <2> QED BY <1>2, <2>1 DEF TruthInv, GetInv
<1>6. ListInv'
  BY DEF TruthInv, ListInv
<1> QED BY <1>1, <1>3, <1>4, <1>5, <1>6 DEF TruthInv

\* The script prints a line.
LEMMA TruthEcho ==
  ASSUME TypeInv, TypeInv', FlowInv, TruthInv, EchoLine
  PROVE  TruthInv'
<1>1. /\ cpc = "print" /\ InHand = {ccmd} /\ Queue' = Queue /\ Lines' = Lines
      /\ ccmd.op \in {"apply", "add", "delete", "get", "end"}
      /\ HasStatus' = HasStatus /\ Open' = Open
      /\ UNCHANGED <<ccmd, todo, rev, inp, stores, daemon, observers>>
      /\ ccmd.op = "apply" /\ HasStatus => cpc' \in {"print", "commit"}
      /\ cpc' = "eval" => rev
  BY EchoMoves
<1>2. ListNames' = ListNames /\ SaidNames' = SaidNames /\ UNCHANGED <<req, rest>>
  BY <1>1 DEF ListNames, SaidNames, daemon
<1> QED BY <1>1, <1>2, TruthMoves

\* The daemon reads a line: its name, if it is not a status, gets listed.
LEMMA TruthRead ==
  ASSUME TypeInv, TypeInv', FlowInv, TruthInv, ReadLine
  PROVE  TruthInv'
<1> DEFINE l == Head(outp)
<1>1. /\ l \in Lines /\ Lines = {l} \cup Lines' /\ Queue' = Queue
      /\ l.what # "prompt" /\ l \in Line
      /\ InHand' = InHand /\ Open' = Open /\ HasStatus' = HasStatus
      /\ UNCHANGED <<dpc, task, toSend, req, rest, inp, script, stores, observers>>
      /\ l.what = "status" => list' = list
      /\ l.what # "status" => list' = external_add_list_paramameter(list, l)
  BY ReadMoves
<1> HIDE DEF l
<1>2. CASE req.kind = "get"
  <2>1. l.what # "status"
    BY <1>1, <1>2 DEF FlowInv, LineInv, SetKind, ObjectKind
  <2>2. list \in Seq(Line)
    BY DEF TypeInv, TypeOK
  <2>3. ListNames' = ListNames \cup {l.name}
    BY <1>1, <2>1, <2>2, AddListNames DEF ListNames
  <2>4. SaidNames = SaidNames' \cup {l.name}
    BY <1>1 DEF SaidNames
  <2>5. ListNames' \cup SaidNames' = ListNames \cup SaidNames
    BY <2>3, <2>4
  <2> QED BY <1>1, <2>5, TruthMoves DEF script
<1>3. CASE req.kind # "get"
  <2>1. GetInv' /\ ListInv'
    BY <1>1, <1>3 DEF TruthInv, GetInv, ListInv, observers
  <2>2. FileOrder' /\ SetInv' /\ ObjectInv'
    BY <1>1 DEF TruthInv, FileOrder, SetInv, ObjectInv, Orphan, Asked, Sent, Noted,
                ToDo, Staged, Committed, ObjectSlot, script, stores, observers
  <2> QED BY <2>1, <2>2 DEF TruthInv
<1> QED BY <1>2, <1>3

\* The script ends.
LEMMA TruthGone ==
  ASSUME TypeInv, TypeInv', FlowInv, FlowInv', StoreInv, TruthInv, Exit \/ ScriptDies
  PROVE  TruthInv'
<1>1. /\ orphaned \subseteq orphaned'
      /\ task = "rpc" /\ dpc \in {"write", "read"} => req.id \in orphaned'
      /\ \A x \in Queue \cup InHand : x.op = "apply_object" => x.id \in orphaned'
  BY GoneOrphans
<1>2. /\ cpc' = "zombie" /\ todo' = <<>> /\ UNCHANGED <<stores, daemon, verdict, listed>>
  BY DEF Exit, ScriptDies, Gone, observers
<1>3. /\ Orphan => Orphan'
      /\ ~Orphan' => ~Open /\ ~Open'
  BY <1>1, <1>2 DEF Orphan, Open, daemon
<1>4. CASE Orphan'
  <2>1. SetInv' /\ ObjectInv' /\ GetInv'
    BY <1>4 DEF SetInv, ObjectInv, GetInv
  <2>2. FileOrder' /\ ListInv'
    BY <1>2, Nothing DEF TruthInv, FileOrder, ListInv, stores, daemon
  <2> QED BY <2>1, <2>2 DEF TruthInv
<1>5. CASE ~Orphan'
  <2>1. \A x \in Queue \cup InHand :
          x.op = "apply_object" /\ x.id = req.id => x \in Queue' \cup InHand'
    BY <1>1, <1>2, <1>5 DEF Orphan, daemon
  <2> QED BY <1>2, <1>3, <1>5, <2>1, TruthRest DEF daemon
<1> QED BY <1>4, <1>5

\* A script is forked, and reaped.
LEMMA TruthFork ==
  ASSUME TypeInv, TypeInv', FlowInv, FlowInv', StoreInv, TruthInv,
         ExternalInit \/ ExternalExit
  PROVE  TruthInv'
<1>1. /\ dpc \in {"down", "wait"} /\ UNCHANGED <<toSend, req, stores, observers>>
      /\ todo' \in {todo, <<>>} /\ cpc' \in {"print", "none"}
      /\ dpc' = "down" \/ task' = "init"
  BY DEF ExternalInit, ExternalExit
<1>2. ~Alive
  BY DEF ExternalInit, ExternalExit, StoreInv, LifeInv, Alive
<1>3. toSend = <<>> /\ inp = <<>> /\ InHand = {} /\ ~Open /\ ~Open'
  BY <1>1, <1>2 DEF FlowInv, ScriptInv, Alive, InHand, Working, Open, TypeInv, TypeOK
<1>4. Queue = {}
  BY <1>3, Nothing DEF Queue
<1> QED BY <1>1, <1>3, <1>4, TruthRest DEF Orphan, observers


\* AddObject and DeleteObject carry one name.
LEMMA OneName ==
  ASSUME NEW kind \in ObjectKind, NEW names \in NameLists(kind)
  PROVE  Names(names) = {Head(names)}
<1>1. kind \notin SetKind /\ kind \in Kind
  BY DEF SetKind, ObjectKind, Kind
<1>2. PICK n \in 1..1 : names \in [1..n -> Params]
  BY <1>1 DEF NameLists
<1>3. n = 1 /\ 1..1 = {1}
  BY <1>2
<1>4. DOMAIN names = {1}
  BY <1>2, <1>3
<1>5. names \in Seq(Params) /\ names # <<>>
  BY <1>1, NameListsType
<1>6. Head(names) = names[1]
  BY <1>5, HeadTailProperties
<1> QED BY <1>4, <1>6 DEF Names

\* A request starts with all its names still to be asked for, and nothing that
\* an earlier one left can be taken for its own.
LEMMA TruthRequest ==
  ASSUME TypeInv, TypeInv', FlowInv, FlowInv', StoreInv, TruthInv,
         NEW kind \in Kind, NEW names \in NameLists(kind), Request(kind, names)
  PROVE  TruthInv'
<1> USE DEF script, stores, pipes
<1>1. names \in Seq(Params) /\ (kind \notin SetKind => names # <<>>)
  BY NameListsType
<1>2. /\ dpc = "idle" /\ dpc' = "write" /\ nreq' = nreq + 1
      /\ req' = [id |-> nreq + 1, kind |-> kind, names |-> names]
      /\ toSend' = Conversation(req')
      /\ kind = "get" => rest' = Tail(names)
      /\ UNCHANGED <<list, status, script, stores, pipes, verdict>>
  BY DEF Request, GetKind
<1>3. nreq' \in Id /\ nreq \in Nat /\ verdict[nreq'] = "none"
  <2>1. nreq' \in Id /\ nreq \in Nat
    BY IdType DEF TypeInv, TypeOK
  <2> QED BY <1>2, <2>1 DEF FlowInv, DaemonInv
<1>4. /\ req' \in [id: Id, kind: Kind, names: Seq(Params)]
      /\ req'.kind = kind /\ req'.names = names /\ req'.id = nreq + 1
  BY <1>1, <1>2, <1>3
<1>5. /\ ~Open /\ list = <<>> /\ status = 0 /\ outp = <<>> /\ say = <<>> /\ cpc # "eval"
      /\ \A x \in Elements(inp) : x.op = "apply_object"
  BY <1>2 DEF Open, FlowInv, DaemonInv, TypeInv, NameInv
<1>6. Lines' = {} /\ Elements(list') = {} /\ ~HasStatus'
  <2>1. Lines' = {} /\ Elements(list') = {}
    BY <1>2, <1>5, Nothing DEF Lines
  <2> QED BY <1>2, <1>5, <2>1 DEF HasStatus
<1>7. verdict'[req'.id] = "none"
  BY <1>2, <1>3, <1>4
<1>8. Queue' = Elements(inp) \cup Elements(toSend')
  BY <1>2 DEF Queue
<1>9. FileOrder'
  <2>1. todo' = <<>>
    BY <1>2, <1>5 DEF StoreInv, LifeInv, Evaluating, FlowInv, DaemonInv
  <2>2. \A e \in Elements(command_file) : e.id # nreq + 1
    <3>1. \A e \in Elements(command_file) : e.id \in orphaned /\ orphaned \subseteq 0..nreq
      BY <1>5 DEF StoreInv, FileInv, LifeInv, Applying
    <3> QED BY <1>3, <3>1
  <2>3. \A x, y : After(command_file, x, y) => x \in Elements(command_file)
    BY NoElements DEF TypeInv, TypeOK
  <2> QED BY <1>2, <1>4, <2>1, <2>2, <2>3, Nothing DEF FileOrder
<1>10. SetInv'
  <2>1. ASSUME kind \in SetKind, NEW n \in Names(names)
        PROVE  Sent(n)'
    <3>1. n \in Names(req'.names) /\ req'.kind \in SetKind
      BY <1>4, <2>1
    <3> DEFINE r == req'
    <3>2. r \in [id: Id, kind: Kind, names: Seq(Params)]
      BY <1>4
    <3> HIDE DEF r
    <3>3. n \in Names(r.names) /\ r.kind \in SetKind
      BY <3>1 DEF r
    <3>4. \E x \in Elements(Conversation(r)) : x.op = "set" /\ x.name = n
      BY <3>2, <3>3, ConversationShape, ZenonT(60)
    <3>5. \E x \in Elements(toSend') : x.op = "set" /\ x.name = n
      BY <1>2, <3>4 DEF r
    <3> QED BY <1>8, <3>5 DEF Sent
  <2> QED BY <1>2, <1>4, <1>5, <1>6, <1>7, <2>1 DEF SetInv
<1>11. ObjectInv'
  BY <1>4, <1>6, <1>7, OneName DEF ObjectInv
<1>12. GetInv'
  <2> SUFFICES ASSUME kind = "get"
      PROVE  ListNames' \cup AskedNames' \cup SaidNames' \cup Names(rest') = Names(names)
    BY <1>4, <1>7 DEF GetInv
  <2>1. ListNames' = {} /\ SaidNames' = {}
    BY <1>6 DEF ListNames, SaidNames
  <2>2. AskedNames' = {Head(names)}
    <3>1. kind \notin SetKind
      BY DEF SetKind
    <3>2. /\ \A x \in Elements(toSend') : x.op = "end" \/ (x.op = "get" /\ x.name = Head(names))
          /\ \E x \in Elements(toSend') : x.op = "get"
      BY <1>1, <1>2, <1>4, <3>1, ConversationShape
    <3> QED BY <1>5, <1>8, <3>2 DEF AskedNames
  <2>3. Names(names) = {Head(names)} \cup Names(Tail(names))
    BY <1>1, NamesSplit DEF SetKind
  <2> QED BY <1>2, <2>1, <2>2, <2>3
<1>13. ListInv'
  BY <1>7 DEF ListInv
<1> QED BY <1>9, <1>10, <1>11, <1>12, <1>13 DEF TruthInv

\* The end of a session asks for nothing that was told.
LEMMA TruthService ==
  ASSUME TypeInv, TypeInv', FlowInv, FlowInv', TruthInv, EndSession
  PROVE  TruthInv'
<1>1. /\ dpc = "idle" /\ task' = "service"
      /\ UNCHANGED <<req, script, stores, pipes, observers>>
  BY DEF EndSession
<1>2. /\ ~Open /\ ~Open' /\ Elements(toSend) = {} /\ cpc # "eval" /\ InHand' = InHand
  BY <1>1, Nothing DEF Open, TypeInv, TypeOK, FlowInv, DaemonInv, InHand, script
<1>3. Queue \subseteq Queue'
  BY <1>1, <1>2 DEF Queue, pipes
<1> QED BY <1>1, <1>2, <1>3, TruthRest DEF Orphan, observers, script

\* The daemon writes a command; a dead script has orphaned the request.
LEMMA TruthWrite ==
  ASSUME TypeInv, TypeInv', FlowInv, FlowInv', StoreInv, TruthInv, ExternalWritePipe
  PROVE  TruthInv'
<1> USE DEF script, observers
<1> DEFINE h == Head(toSend)
<1>1. /\ dpc = "write" /\ h \in Elements(toSend)
      /\ UNCHANGED <<task, req, rest, list, status, outp, script, stores, observers>>
      /\ Alive => Queue' = Queue
      /\ ~Alive => Queue = Elements(toSend)
      /\ InHand' = InHand /\ Lines' = Lines /\ HasStatus' = HasStatus
      /\ dpc' \in {"write", "read", "idle"}
      /\ (dpc' # "idle" => Open' = Open)
      /\ dpc' = "idle" => ~Open /\ ~Open' /\ h.op = "apply_object"
  BY WriteMoves
<1> HIDE DEF h
<1>2. (Open' <=> Open) /\ (Orphan' <=> Orphan)
  BY <1>1 DEF Orphan
<1>3. CASE Alive
  <2>1. ListNames' = ListNames /\ SaidNames' = SaidNames
    BY <1>1 DEF ListNames, SaidNames
  <2> QED BY <1>1, <1>2, <1>3, <2>1, TruthMoves
<1>4. CASE Orphan
  <2>1. SetInv' /\ ObjectInv' /\ GetInv'
    BY <1>2, <1>4 DEF SetInv, ObjectInv, GetInv
  <2>2. FileOrder' /\ ListInv'
    BY <1>1 DEF TruthInv, FileOrder, ListInv, stores
  <2> QED BY <2>1, <2>2 DEF TruthInv
<1>5. CASE ~Alive /\ ~Orphan
  <2>1. task # "rpc"
    BY <1>1, <1>5 DEF StoreInv, LifeInv
  <2>2. ~Open /\ InHand = {} /\ cpc # "eval"
    BY <1>5, <2>1 DEF Open, InHand, Alive, Working
  <2>3. \A x \in Queue : x.op # "apply_object"
    BY <1>1, <1>5, <2>1 DEF FlowInv, DaemonInv
  <2> QED BY <1>1, <1>2, <2>2, <2>3, TruthRest
<1> QED BY <1>3, <1>4, <1>5


\* A request is answered, or the next name of a Get method is asked for.
LEMMA TruthAnswer ==
  ASSUME TypeInv, TypeInv', FlowInv, FlowInv', TruthInv, ReadPrompt \/ ReadEof,
         task = "rpc"
  PROVE  TruthInv'
<1> USE DEF script, stores
<1>1. /\ Queue = {} /\ InHand = {} /\ Lines' = {} /\ inp' = <<>>
      /\ \A l \in Lines : l.what = "prompt"
      /\ UNCHANGED <<req, script, stores, orphaned>>
  BY ReadReturns
<1>2. /\ Open /\ task' = "rpc"
      /\ \/ /\ HasStatus /\ req.kind \in SetKind /\ Answer("status") /\ dpc' = "idle"
         \/ /\ HasStatus /\ req.kind \in ObjectKind /\ Answer("status")
            /\ toSend' = <<Command("apply_object", req, NoName)>>
         \/ /\ Answer("fault") /\ dpc' = "idle"
         \/ /\ ~HasStatus /\ req.kind = "get" /\ rest = <<>> /\ Answer("list")
            /\ dpc' = "idle"
         \/ /\ ~HasStatus /\ req.kind = "get" /\ rest # <<>>
            /\ toSend' = <<Command("get", req, Head(rest)), Plain("end")>>
            /\ rest' = Tail(rest) /\ UNCHANGED <<list, verdict, listed>>
  BY Verdicts DEF Kind
<1>3. /\ verdict \in [Id -> {"none", "status", "fault", "list"}] /\ verdict[req.id] = "none"
      /\ req \in [id: Id, kind: Kind \cup {NoKind}, names: Seq(Params)]
      /\ req.id \in Id /\ list \in Seq(Line) /\ rest \in Seq(Params)
  BY <1>2 DEF TypeInv, TypeOK, Open
<1>4. \A v : Answer(v) => verdict'[req.id] = v
  BY <1>3 DEF Answer
<1>5. cpc \notin Working /\ cpc' = cpc
  BY <1>1 DEF InHand
<1>6. /\ FileOrder' /\ (Orphan' <=> Orphan)
      /\ HasStatus' => Open'
  BY <1>1 DEF TruthInv, FileOrder, Orphan, HasStatus, FlowInv, LineInv, DaemonInv
<1>7. SaidNames = {} /\ AskedNames = {} /\ SaidNames' = {}
  BY <1>1 DEF SaidNames, AskedNames
<1>8. CASE HasStatus /\ req.kind \in SetKind /\ Answer("status") /\ dpc' = "idle"
  <2>1. SetInv'
    <3>1. ~Orphan => \A n \in Names(req.names) : Staged(n) /\ Committed(n)
      BY <1>5, <1>8 DEF TruthInv, SetInv, Working
    <3>2. \A n : (Staged(n)' <=> Staged(n)) /\ (Committed(n)' <=> Committed(n))
      BY <1>1 DEF Staged, Committed
    <3> QED BY <1>1, <1>5, <1>6, <1>8, <3>1, <3>2 DEF SetInv, Open, Working
  <2>2. ObjectInv' /\ GetInv' /\ ListInv'
    BY <1>1, <1>4, <1>8 DEF ObjectInv, GetInv, ListInv, SetKind, ObjectKind
  <2> QED BY <1>6, <2>1, <2>2 DEF TruthInv
<1>9. CASE /\ HasStatus /\ req.kind \in ObjectKind /\ Answer("status")
           /\ toSend' = <<Command("apply_object", req, NoName)>>
  <2> DEFINE x == Command("apply_object", req, NoName)
  <2>1. x \in Cmd /\ x.op = "apply_object" /\ x.id = req.id
    BY <1>3, CmdType DEF Op
  <2> HIDE DEF x
  <2>2. x \in Queue'
    BY <1>9, <2>1, OneElement DEF Queue, x
  <2>3. ObjectInv'
    BY <1>1, <1>6, <1>9, <2>1, <2>2 DEF TruthInv, ObjectInv, ObjectSlot
  <2>4. SetInv' /\ GetInv' /\ ListInv'
    BY <1>1, <1>4, <1>9 DEF SetInv, GetInv, ListInv, SetKind, ObjectKind
  <2> QED BY <1>6, <2>3, <2>4 DEF TruthInv
<1>10. CASE Answer("fault") /\ dpc' = "idle"
  <2>1. ~Open' /\ ~HasStatus' /\ verdict'[req.id] = "fault"
    BY <1>4, <1>6, <1>10 DEF Open
  <2>2. SetInv' /\ GetInv' /\ ListInv'
    BY <1>1, <1>5, <2>1 DEF SetInv, GetInv, ListInv, Working
  <2>3. ObjectInv'
    BY <1>1, <1>6, <2>1 DEF TruthInv, ObjectInv
  <2> QED BY <1>6, <2>2, <2>3 DEF TruthInv
<1>11. CASE req.kind = "get" /\ rest = <<>> /\ Answer("list") /\ dpc' = "idle"
  <2>1. DOMAIN list = 1..Len(list)
    BY <1>3, LenProperties
  <2>2. listed' = ListNames
    BY <1>11, <2>1 DEF Answer, ListNames, Elements
  <2>3. ~Orphan => listed' = Names(req.names)
    BY <1>2, <1>3, <1>7, <1>11, <2>2, NamesSplit DEF TruthInv, GetInv
  <2>4. GetInv' /\ ListInv'
    BY <1>1, <1>6, <1>11, <2>3 DEF GetInv, ListInv, Open
  <2>5. SetInv' /\ ObjectInv'
    BY <1>1, <1>11 DEF SetInv, ObjectInv, SetKind, ObjectKind
  <2> QED BY <1>6, <2>4, <2>5 DEF TruthInv
<1>12. CASE /\ req.kind = "get" /\ rest # <<>>
            /\ toSend' = <<Command("get", req, Head(rest)), Plain("end")>>
            /\ rest' = Tail(rest) /\ UNCHANGED <<list, verdict, listed>>
  <2> DEFINE x == Command("get", req, Head(rest))
             y == Plain("end")
  <2>1. Names(rest) = {Head(rest)} \cup Names(Tail(rest)) /\ Head(rest) \in Params
    BY <1>3, <1>12, NamesSplit, NamesType
  <2>2. /\ x \in Cmd /\ x.op = "get" /\ x.name = Head(rest)
        /\ y \in Cmd /\ y.op = "end"
    BY <1>3, <2>1, CmdType DEF Op
  <2> HIDE DEF x, y
  <2>3. Queue' = {x, y}
    <3>1. Elements(<<x, y>>) = {x, y}
      BY <2>2, TwoElements
    <3>2. toSend' = <<x, y>>
      BY <1>12 DEF x, y
    <3> QED BY <1>1, <3>1, <3>2, Nothing DEF Queue
  <2>4. AskedNames' = {Head(rest)} /\ ListNames' = ListNames
    BY <1>12, <2>2, <2>3 DEF AskedNames, ListNames
  <2>5. GetInv'
    BY <1>1, <1>2, <1>6, <1>7, <1>12, <2>1, <2>4 DEF TruthInv, GetInv
  <2>6. SetInv' /\ ObjectInv' /\ ListInv'
    BY <1>1, <1>12 DEF SetInv, ObjectInv, ListInv, SetKind, ObjectKind
  <2> QED BY <1>6, <2>5, <2>6 DEF TruthInv
<1> QED BY <1>2, <1>8, <1>9, <1>10, <1>11, <1>12

\* external_read_pipe returns to the start or to the end of a session.
LEMMA TruthDone ==
  ASSUME TypeInv, TypeInv', FlowInv, FlowInv', TruthInv, ReadPrompt \/ ReadEof
  PROVE  TruthInv'
<1>1. CASE task = "rpc"
  BY <1>1, TruthAnswer
<1>2. CASE task # "rpc"
  <2>1. /\ ReadDone /\ Queue = {} /\ InHand = {} /\ InHand' = {}
        /\ UNCHANGED <<req, script, stores, orphaned>>
    BY ReadReturns
  <2>2. task' # "rpc" /\ UNCHANGED <<verdict, listed>>
    BY <1>2, <2>1 DEF ReadDone, TypeInv, TypeOK
  <2>3. ~Open /\ ~Open' /\ cpc' # "eval"
    BY <1>2, <2>1, <2>2 DEF Open, InHand, Working
  <2> QED BY <2>1, <2>2, <2>3, TruthRest DEF Orphan, script
<1> QED BY <1>1, <1>2

\* Every step keeps what is told true.
LEMMA TruthStep ==
  TypeInv /\ FlowInv /\ StoreInv /\ TruthInv /\ [Next]_vars => TruthInv'
<1> SUFFICES ASSUME TypeInv, FlowInv, StoreInv, TruthInv, [Next]_vars
             PROVE  TruthInv'
  OBVIOUS
<1>1. TypeInv' /\ FlowInv'
  BY TypeStep, FlowStep
<1>2. CASE ExternalInit \/ ExternalExit
  BY <1>1, <1>2, TruthFork
<1>3. CASE \E kind \in Kind : \E names \in NameLists(kind) : Request(kind, names)
  BY <1>1, <1>3, TruthRequest
<1>4. CASE EndSession
  BY <1>1, <1>4, TruthService
<1>5. CASE ExternalWritePipe
  BY <1>1, <1>5, TruthWrite
<1>6. CASE ReadLine
  BY <1>1, <1>6, TruthRead
<1>7. CASE ReadPrompt \/ ReadEof
  BY <1>1, <1>7, TruthDone
<1>8. CASE TakeStep
  BY <1>1, <1>8, TruthTake
<1>9. CASE WorkStep
  BY <1>1, <1>9, TruthWork
<1>10. CASE EchoLine
  BY <1>1, <1>10, TruthEcho
<1>11. CASE Exit \/ ScriptDies
  BY <1>1, <1>11, TruthGone
<1>12. CASE UNCHANGED vars
  BY <1>12 DEF TruthInv, FileOrder, SetInv, ObjectInv, GetInv, ListInv, Orphan, Open, Asked,
     Sent, Noted, ToDo, Staged, Committed, HasStatus, ObjectSlot, ListNames, AskedNames,
     SaidNames, Queue, InHand, Lines, vars, daemon, script, stores, pipes, observers
<1> QED BY <1>2, <1>3, <1>4, <1>5, <1>6, <1>7, <1>8, <1>9, <1>10, <1>11, <1>12
        DEF Next, DaemonStep, ScriptStep, TakeStep, WorkStep

\* The whole inductive invariant of the conversations.
LEMMA TruthInvariance == Spec => [](TypeInv /\ FlowInv /\ StoreInv /\ TruthInv)
<1>1. Init => TruthInv
  BY TruthInit
<1>2. TypeInv /\ FlowInv /\ StoreInv /\ TruthInv /\ [Next]_vars => TruthInv'
  BY TruthStep
<1> QED BY <1>1, <1>2, StoreInvariance, PTL DEF Spec

\* What xml_handle_set_parameter_values and its siblings tell the ACS is so:
\* a status is sent after the commit, or with the commit of an object on its
\* way, and a list has exactly the names asked for, unless the script died.
THEOREM AnswersHold == Spec => []AnswersAreTrue
<1>1. TypeInv /\ FlowInv /\ StoreInv /\ TruthInv => AnswersAreTrue
  <2> SUFFICES ASSUME TypeInv, FlowInv, TruthInv, dpc = "idle", ~Orphan
      PROVE  /\ (verdict[req.id] = "status" /\ req.kind \in SetKind) =>
                  \A n \in Names(req.names) : config[<<req.kind, n>>] = req.id
             /\ (verdict[req.id] = "status" /\ req.kind \in ObjectKind) =>
                  \A n \in Names(req.names) :
                     \/ config[<<"object", n>>] = req.id
                     \/ /\ staged[<<"object", n>>] = req.id
                        /\ \/ \E i \in DOMAIN inp : inp[i].op = "apply_object"
                           \/ cpc = "commit"
             /\ verdict[req.id] = "list" => listed = Names(req.names)
    BY DEF AnswersAreTrue, Orphan
  <2>1. /\ cpc \in {"none", "zombie", "read", "commit"}
        /\ cpc = "commit" => ccmd.op = "apply_object"
    BY DEF FlowInv, DaemonInv
  <2>2. toSend = <<>> /\ inp \in Seq(Cmd)
    BY DEF TypeInv, TypeOK
  <2>3. Queue = Elements(inp) /\ DOMAIN inp = 1..Len(inp)
    BY <2>2, Nothing, LenProperties DEF Queue
  <2>4. \A x \in Queue : \E i \in DOMAIN inp : inp[i] = x
    BY <2>3 DEF Elements
  <2>5. \A x \in InHand : cpc = "commit"
    BY <2>1 DEF InHand, Working
  <2>6. ASSUME verdict[req.id] = "status", req.kind \in SetKind, NEW n \in Names(req.names)
        PROVE  config[<<req.kind, n>>] = req.id
    BY <2>1, <2>6 DEF TruthInv, SetInv, Committed
  <2>7. ASSUME verdict[req.id] = "status", req.kind \in ObjectKind
        PROVE  /\ Names(req.names) = {Head(req.names)}
               /\ \/ config[ObjectSlot] = req.id
                  \/ /\ staged[ObjectSlot] = req.id
                     /\ \/ \E i \in DOMAIN inp : inp[i].op = "apply_object"
                        \/ cpc = "commit"
    BY <2>4, <2>5, <2>7 DEF TruthInv, ObjectInv
  <2>8. verdict[req.id] = "list" => listed = Names(req.names)
    BY DEF TruthInv, GetInv, ListInv
  <2> QED BY <2>6, <2>7, <2>8 DEF ObjectSlot
<1> QED BY <1>1, TruthInvariance, PTL
============================================================================
