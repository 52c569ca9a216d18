-------------------------- MODULE MgetAsyncProofs ---------------------------
(***************************************************************************)
(* For any number of calls, contexts, descriptors and frames: every        *)
(* request of mget2 is refused or answered once, with its own values, even *)
(* after callbacks have put other contexts into the pool than their own.   *)
(* The reason is that whoever shares a connection shares its order: the    *)
(* callbacks that hiredis keeps for a context are always the answers that  *)
(* have arrived, the commands at the proxy and the commands that have not  *)
(* been written yet, in this order. And the pool of contexts stays sane    *)
(* for as long as every callback has returned its own context, and no      *)
(* request is stranded for as long as no connection has ended.             *)
(***************************************************************************)
EXTENDS MgetAsync, SequenceTheorems, FiniteSetTheorems, TLAPS

----------------------------------------------------------------------------
(* Three queues in a row.                                                  *)

Row(s, t, u) == (s \o t) \o u

LEMMA HeadAndTail ==
    ASSUME NEW S, NEW s \in Seq(S), s # << >>
    PROVE  /\ Head(s) \in S /\ Tail(s) \in Seq(S)
           /\ <<Head(s)>> \in Seq(S)
           /\ s = <<Head(s)>> \o Tail(s)
  <1>1. Head(s) \in S /\ Tail(s) \in Seq(S) /\ Len(Tail(s)) = Len(s) - 1
        /\ \A i \in 1..Len(Tail(s)) : Tail(s)[i] = s[i + 1]
    BY HeadTailProperties
  <1>2. <<Head(s)>> \in Seq(S) /\ Len(<<Head(s)>>) = 1
        /\ <<Head(s)>>[1] = s[1]
    BY <1>1
  <1>3. Len(s) \in Nat
    BY LenProperties
  <1>. DEFINE c == <<Head(s)>> \o Tail(s)
  <1>4. /\ c \in Seq(S)
        /\ Len(c) = 1 + Len(Tail(s))
        /\ \A i \in 1..(1 + Len(Tail(s))) :
              c[i] = IF i <= 1 THEN <<Head(s)>>[i] ELSE Tail(s)[i - 1]
    BY <1>1, <1>2, ConcatProperties
  <1>. HIDE DEF c
  <1>5. \A i \in 1..Len(s) : s[i] = c[i]
    <2>. TAKE i \in 1..Len(s)
    <2>1. CASE i = 1
      BY <2>1, <1>1, <1>2, <1>3, <1>4
    <2>2. CASE i # 1
      <3>1. i - 1 \in 1..Len(Tail(s)) /\ i \in 1..(1 + Len(Tail(s))) /\ ~(i <= 1)
        BY <2>2, <1>1, <1>3
      <3>2. c[i] = Tail(s)[i - 1]
        BY <3>1, <1>4
      <3>3. Tail(s)[i - 1] = s[(i - 1) + 1]
        BY <3>1, <1>1
      <3>4. (i - 1) + 1 = i
        OBVIOUS
      <3>. QED BY <3>2, <3>3, <3>4
    <2>. QED BY <2>1, <2>2
  <1>6. s = c
    BY <1>1, <1>3, <1>4, <1>5, SeqEqual
  <1>. QED BY <1>1, <1>2, <1>6 DEF c

LEMMA MovesOne ==
    ASSUME NEW S, NEW s \in Seq(S), NEW t \in Seq(S), t # << >>
    PROVE  Append(s, Head(t)) \o Tail(t) = s \o t
  <1>1. /\ Head(t) \in S /\ Tail(t) \in Seq(S) /\ <<Head(t)>> \in Seq(S)
        /\ t = <<Head(t)>> \o Tail(t)
    BY HeadAndTail
  <1>2. Append(s, Head(t)) = s \o <<Head(t)>>
    BY <1>1, AppendIsConcat
  <1>3. (s \o <<Head(t)>>) \o Tail(t) = s \o (<<Head(t)>> \o Tail(t))
    BY <1>1, ConcatAssociative
  <1>. QED BY <1>1, <1>2, <1>3

\* HandleWrite: a command goes from the buffer to the proxy.
LEMMA SendsOne ==
    ASSUME NEW S, NEW s \in Seq(S), NEW t \in Seq(S), NEW u \in Seq(S),
           u # << >>
    PROVE  Row(s, Append(t, Head(u)), Tail(u)) = Row(s, t, u)
  <1>1. Head(u) \in S /\ Tail(u) \in Seq(S)
    BY HeadAndTail
  <1>2. Append(t, Head(u)) \in Seq(S)
    BY <1>1, AppendProperties
  <1>. DEFINE v == Append(t, Head(u))  w == Tail(u)
  <1>3. (s \o v) \o w = s \o (v \o w)
    <2>. HIDE DEF v, w
    <2>1. v \in Seq(S) /\ w \in Seq(S)
      BY <1>1, <1>2 DEF v, w
    <2>. QED BY <2>1, ConcatAssociative, SMTT(20)
  <1>4. Append(t, Head(u)) \o Tail(u) = t \o u
    BY MovesOne
  <1>5. (s \o t) \o u = s \o (t \o u)
    BY ConcatAssociative
  <1>. QED BY <1>3, <1>4, <1>5 DEF Row

\* Answer: the proxy takes the first command it got.
LEMMA AnswersOne ==
    ASSUME NEW S, NEW s \in Seq(S), NEW t \in Seq(S), NEW u \in Seq(S),
           t # << >>
    PROVE  Row(Append(s, Head(t)), Tail(t), u) = Row(s, t, u)
  <1>1. Append(s, Head(t)) \o Tail(t) = s \o t
    BY MovesOne
  <1>. QED BY <1>1 DEF Row

\* HandleReply: the first answer is of the first callback.
LEMMA TakesOne ==
    ASSUME NEW S, NEW s \in Seq(S), NEW t \in Seq(S), NEW u \in Seq(S),
           s # << >>
    PROVE  /\ Row(s, t, u) # << >>
           /\ Head(Row(s, t, u)) = Head(s)
           /\ Tail(Row(s, t, u)) = Row(Tail(s), t, u)
  <1>. DEFINE h == Head(s)  q == (Tail(s) \o t) \o u
  <1>1. /\ h \in S /\ Tail(s) \in Seq(S) /\ <<h>> \in Seq(S)
        /\ s = <<h>> \o Tail(s)
    BY HeadAndTail
  <1>2. Tail(s) \o t \in Seq(S) /\ q \in Seq(S)
    BY <1>1, ConcatProperties
  <1>3. s \o t = <<h>> \o (Tail(s) \o t)
    BY <1>1, ConcatAssociative
  <1>4. (s \o t) \o u = <<h>> \o q
    BY <1>1, <1>2, <1>3, ConcatAssociative
  <1>. HIDE DEF h, q
  <1>5. <<h>> \o q # << >>
    <2>1. <<h>> # << >>
      OBVIOUS
    <2>. QED BY <2>1, <1>1, <1>2, ConcatEqualIffEmpty
  <1>6. /\ <<h>> \o q \in Seq(S)
        /\ Len(<<h>> \o q) = 1 + Len(q)
        /\ Len(q) \in Nat
        /\ \A i \in 1..(1 + Len(q)) :
              (<<h>> \o q)[i] = IF i <= 1 THEN h ELSE q[i - 1]
    <2>1. Len(<<h>>) = 1 /\ <<h>>[1] = h
      OBVIOUS
    <2>2. Len(q) \in Nat
      BY <1>2, LenProperties
    <2>. QED BY <2>1, <2>2, <1>1, <1>2, ConcatProperties
  <1>7. Head(<<h>> \o q) = h
    BY <1>5, <1>6
  <1>8. Tail(<<h>> \o q) = q
    <2>1. /\ Tail(<<h>> \o q) \in Seq(S)
          /\ Len(Tail(<<h>> \o q)) = Len(q)
          /\ \A i \in 1..Len(q) : Tail(<<h>> \o q)[i] = (<<h>> \o q)[i + 1]
      BY <1>5, <1>6, HeadTailProperties
    <2>2. \A i \in 1..Len(q) : Tail(<<h>> \o q)[i] = q[i]
      BY <2>1, <1>6
    <2>. QED BY <2>1, <2>2, <1>2, SeqEqual
  <1>. QED BY <1>4, <1>5, <1>7, <1>8 DEF h, q, Row

\* Submit: the new callback and the new command both are the last.
LEMMA AsksOne ==
    ASSUME NEW S, NEW s \in Seq(S), NEW t \in Seq(S), NEW u \in Seq(S),
           NEW e \in S
    PROVE  Append(Row(s, t, u), e) = Row(s, t, Append(u, e))
  <1>1. s \o t \in Seq(S) /\ (s \o t) \o u \in Seq(S) /\ <<e>> \in Seq(S)
    BY ConcatProperties
  <1>2. Append((s \o t) \o u, e) = ((s \o t) \o u) \o <<e>>
    BY <1>1, AppendIsConcat
  <1>3. ((s \o t) \o u) \o <<e>> = (s \o t) \o (u \o <<e>>)
    BY <1>1, ConcatAssociative
  <1>. QED BY <1>2, <1>3, AppendIsConcat DEF Row

----------------------------------------------------------------------------
(* The inductive invariant.                                                *)

\* A call that has begun has its local variable in a frame.
FramesTaken == \A r \in Request : req[r] # "new" => frame[r] \in Frames

\* The callbacks of a context are in the order of its commands, of which the
\* first are answered and the last are not sent yet.
QueuesMatch == \A a \in Addr : replies[a] = Row(in[a], wire[a], out[a])

\* Only a request that is not answered yet waits, once, for one connection.
WaitingSent ==
    \A a \in Addr : \A i \in 1..Len(replies[a]) : req[replies[a][i]] = "sent"
WaitsOnce ==
    \A a, b \in Addr : \A i \in 1..Len(replies[a]), j \in 1..Len(replies[b]) :
        replies[a][i] = replies[b][j] => a = b /\ i = j

MInv == TypeOK /\ FramesTaken /\ QueuesMatch /\ WaitingSent /\ WaitsOnce

exchange == <<req, values, replies, out, wire, in>>

\* Six actions change what is exchanged; the others leave all of it alone.
LEMMA NextKinds ==
    ASSUME Next
    PROVE  \/ \E r \in Request : StartCall(r) \/ BorrowFails(r) \/ Submit(r)
           \/ \E a \in Addr : HandleWrite(a) \/ HandleReply(a) \/ Answer(a)
           \/ UNCHANGED exchange
  <1>. USE DEF exchange, vars, callerVars, netVars
  <1>1. ASSUME NEW r \in Request, StartCall(r) \/ Mget2(r)
        PROVE  StartCall(r) \/ BorrowFails(r) \/ Submit(r) \/ UNCHANGED exchange
    BY <1>1 DEF Mget2, BorrowPooled, BorrowNew, BorrowUndefined,
                SubmitUndefined, Register, Crash
  <1>2. ASSUME NEW f \in Frames, ReuseStack(f)
        PROVE  UNCHANGED exchange
    BY <1>2 DEF ReuseStack
  <1>3. ASSUME NEW a \in Addr, Handle(a) \/ Answer(a) \/ ProxyCloses(a)
        PROVE  HandleWrite(a) \/ HandleReply(a) \/ Answer(a) \/ UNCHANGED exchange
    BY <1>3 DEF Handle, FiresWild, HandleEof, CallbackUndefined, ProxyCloses,
                Crash
  <1>4. ASSUME LoopEnds \/ DeleteClient \/ Rests
        PROVE  UNCHANGED exchange
    BY <1>4 DEF LoopEnds, DeleteClient, Rests
  <1>. QED BY <1>1, <1>2, <1>3, <1>4 DEF Next, Running

LEMMA InitMInv == Init => MInv
  <1>. SUFFICES ASSUME Init PROVE MInv
    OBVIOUS
  <1>1. TypeOK
    <2>1. << >> \in Seq(Request) /\ << >> \in Seq(Addr \cup {Null, Junk})
      OBVIOUS
    <2>2. values \in [Request -> Seq(Request)] /\ closes \in 0..MaxCloses
      BY <2>1, MgetAssumption DEF Init
    <2>3. \A q \in {replies, out, wire, in} : q \in [Addr -> Seq(Request)]
      BY <2>1 DEF Init
    <2>4. /\ events \in [Fds -> [mask : SUBSET {"r", "w"},
                                 context : Addr \cup {Null}]]
          /\ \A f \in Fds : f >= SetSize => events[f].mask = {}
      BY DEF Init
    <2>. QED BY <2>1, <2>2, <2>3, <2>4 DEF Init, TypeOK
  <1>2. FramesTaken
    BY DEF Init, FramesTaken
  <1>3. QueuesMatch
    <2>1. << >> \in Seq({}) /\ << >> \o << >> = << >>
      BY ConcatEmptySeq
    <2>. QED BY <2>1 DEF Init, QueuesMatch, Row
  <1>4. WaitingSent /\ WaitsOnce
    BY DEF Init, WaitingSent, WaitsOnce
  <1>. QED BY <1>1, <1>2, <1>3, <1>4 DEF MInv

\* The callback at the head belongs to a request that waits, and what is read
\* is its answer.
LEMMA HeadOfReplies ==
    ASSUME MInv, NEW a \in Addr, in[a] # << >>
    PROVE  /\ replies[a] # << >>
           /\ Head(replies[a]) = Head(in[a])
           /\ Tail(replies[a]) = Row(Tail(in[a]), wire[a], out[a])
           /\ Head(replies[a]) \in Request
           /\ req[Head(replies[a])] = "sent"
  <1>1. /\ in[a] \in Seq(Request) /\ wire[a] \in Seq(Request)
        /\ out[a] \in Seq(Request) /\ replies[a] \in Seq(Request)
    BY DEF MInv, TypeOK
  <1>2. replies[a] = Row(in[a], wire[a], out[a])
    BY DEF MInv, QueuesMatch
  <1>3. /\ replies[a] # << >> /\ Head(replies[a]) = Head(in[a])
        /\ Tail(replies[a]) = Row(Tail(in[a]), wire[a], out[a])
    <2>1. \A s, t, u \in Seq(Request) :
             s # << >> => /\ Row(s, t, u) # << >>
                          /\ Head(Row(s, t, u)) = Head(s)
                          /\ Tail(Row(s, t, u)) = Row(Tail(s), t, u)
      BY TakesOne, Zenon
    <2>2. /\ Row(in[a], wire[a], out[a]) # << >>
          /\ Head(Row(in[a], wire[a], out[a])) = Head(in[a])
          /\ Tail(Row(in[a], wire[a], out[a])) = Row(Tail(in[a]), wire[a], out[a])
      BY <1>1, <2>1, Zenon
    <2>. QED BY <1>2, <2>2, Zenon
  <1>4. Len(replies[a]) \in Nat /\ Len(replies[a]) > 0
    BY <1>1, <1>3
  <1>5. Head(replies[a]) = replies[a][1] /\ 1 \in 1..Len(replies[a])
    BY <1>1, <1>3, <1>4
  <1>6. Head(replies[a]) \in Request
    BY <1>1, <1>3, HeadTailProperties
  <1>. QED BY <1>3, <1>5, <1>6 DEF MInv, WaitingSent

----------------------------------------------------------------------------
(* The queues stay in order.                                               *)

Queues == QueuesMatch /\ WaitingSent /\ WaitsOnce

\* Who does not wait may change its state.
LEMMA OthersWait ==
    ASSUME MInv, NEW r \in Request, req[r] # "sent", NEW s,
           req' = [req EXCEPT ![r] = s],
           UNCHANGED <<replies, out, wire, in>>
    PROVE  Queues'
  <1>1. req \in [Request -> {"new", "asked", "sent", "refused", "done"}]
        /\ replies \in [Addr -> Seq(Request)]
    BY DEF MInv, TypeOK
  <1>2. WaitingSent'
    <2>. SUFFICES ASSUME NEW a \in Addr, NEW i \in 1..Len(replies[a])
                  PROVE  req'[replies[a][i]] = "sent"
      BY DEF WaitingSent
    <2>1. replies[a][i] \in Request /\ req[replies[a][i]] = "sent"
      BY <1>1, ElementOfSeq DEF MInv, WaitingSent
    <2>. QED BY <2>1, <1>1
  <1>3. QueuesMatch'
    BY DEF MInv, QueuesMatch
  <1>4. WaitsOnce'
    BY DEF MInv, WaitsOnce
  <1>. QED BY <1>2, <1>3, <1>4 DEF Queues

LEMMA SubmitQueues ==
    ASSUME MInv, NEW r \in Request, Submit(r)
    PROVE  Queues'
  <1>. DEFINE a == Here(r)
  <1>1. /\ a \in Addr /\ req[r] = "asked"
        /\ replies' = [replies EXCEPT ![a] = Append(@, r)]
        /\ out' = [out EXCEPT ![a] = Append(@, r)]
        /\ req' = [req EXCEPT ![r] = "sent"]
        /\ UNCHANGED <<wire, in>>
    BY DEF Submit, Live, netVars
  <1>. HIDE DEF a
  <1>2. /\ req \in [Request -> {"new", "asked", "sent", "refused", "done"}]
        /\ replies \in [Addr -> Seq(Request)] /\ out \in [Addr -> Seq(Request)]
        /\ wire \in [Addr -> Seq(Request)] /\ in \in [Addr -> Seq(Request)]
    BY DEF MInv, TypeOK
  <1>3. QueuesMatch'
    <2>. SUFFICES ASSUME NEW b \in Addr
                  PROVE  replies'[b] = Row(in[b], wire[b], out'[b])
      BY <1>1 DEF QueuesMatch
    <2>1. replies[b] = Row(in[b], wire[b], out[b])
      BY DEF MInv, QueuesMatch
    <2>2. CASE b # a
      BY <2>1, <2>2, <1>1, <1>2
    <2>3. CASE b = a
      <3>1. replies'[b] = Append(replies[b], r) /\ out'[b] = Append(out[b], r)
        BY <2>3, <1>1, <1>2
      <3>2. /\ in[b] \in Seq(Request) /\ wire[b] \in Seq(Request)
            /\ out[b] \in Seq(Request)
        BY <1>2
      <3>3. Append(Row(in[b], wire[b], out[b]), r)
              = Row(in[b], wire[b], Append(out[b], r))
        <4>1. \A s, t, u \in Seq(Request), e \in Request :
                 Append(Row(s, t, u), e) = Row(s, t, Append(u, e))
          BY AsksOne, SMTT(30)
        <4>. QED BY <3>2, <4>1, Zenon
      <3>. QED BY <2>1, <3>1, <3>3
    <2>. QED BY <2>2, <2>3
  \* A place in the new lists is an old one, or the one r got.
  <1>4. ASSUME NEW b \in Addr, NEW i \in 1..Len(replies'[b])
        PROVE  \/ /\ i \in 1..Len(replies[b]) /\ replies'[b][i] = replies[b][i]
                  /\ replies[b][i] \in Request /\ req[replies[b][i]] = "sent"
               \/ b = a /\ i = Len(replies[a]) + 1 /\ replies'[b][i] = r
    <2>1. replies[b] \in Seq(Request) /\ Len(replies[b]) \in Nat
      BY <1>2, LenProperties
    <2>2. CASE i \in 1..Len(replies[b])
      <3>1. replies'[b][i] = replies[b][i]
        <4>1. CASE b = a
          BY <4>1, <2>1, <2>2, <1>1, <1>2, AppendProperties
        <4>2. CASE b # a
          BY <4>2, <1>1, <1>2
        <4>. QED BY <4>1, <4>2
      <3>2. replies[b][i] \in Request /\ req[replies[b][i]] = "sent"
        BY <2>1, <2>2, ElementOfSeq DEF MInv, WaitingSent
      <3>. QED BY <2>2, <3>1, <3>2
    <2>3. CASE i \notin 1..Len(replies[b])
      <3>1. b = a
        BY <2>3, <1>1, <1>2
      <3>2. replies'[b] = Append(replies[a], r)
        BY <3>1, <1>1, <1>2
      <3>3. /\ Len(Append(replies[a], r)) = Len(replies[a]) + 1
            /\ Append(replies[a], r)[Len(replies[a]) + 1] = r
        BY <2>1, <3>1, AppendProperties
      <3>4. i = Len(replies[a]) + 1
        BY <2>1, <2>3, <3>1, <3>2, <3>3
      <3>. QED BY <3>1, <3>2, <3>3, <3>4
    <2>. QED BY <2>2, <2>3
  <1>5. WaitingSent'
    <2>. SUFFICES ASSUME NEW b \in Addr, NEW i \in 1..Len(replies'[b])
                  PROVE  req'[replies'[b][i]] = "sent"
      BY DEF WaitingSent
    <2>. QED BY <1>1, <1>2, <1>4
  <1>6. WaitsOnce'
    <2>. SUFFICES ASSUME NEW b \in Addr, NEW c \in Addr,
                         NEW i \in 1..Len(replies'[b]),
                         NEW j \in 1..Len(replies'[c]),
                         replies'[b][i] = replies'[c][j]
                  PROVE  b = c /\ i = j
      BY DEF WaitsOnce
    <2>1. CASE replies'[b][i] = r
      <3>1. req[r] # "sent"
        BY <1>1
      <3>2. b = a /\ i = Len(replies[a]) + 1
        BY <2>1, <3>1, <1>4
      <3>3. replies'[c][j] = r
        BY <2>1
      <3>4. c = a /\ j = Len(replies[a]) + 1
        BY <3>1, <3>3, <1>4
      <3>. QED BY <3>2, <3>4
    <2>2. CASE replies'[b][i] # r
      <3>1. i \in 1..Len(replies[b]) /\ replies'[b][i] = replies[b][i]
        BY <2>2, <1>4
      <3>2. j \in 1..Len(replies[c]) /\ replies'[c][j] = replies[c][j]
        BY <2>2, <1>4
      <3>3. replies[b][i] = replies[c][j]
        BY <3>1, <3>2
      <3>4. \A k \in 1..Len(replies[b]), l \in 1..Len(replies[c]) :
               replies[b][k] = replies[c][l] => b = c /\ k = l
        BY DEF MInv, WaitsOnce
      <3>. QED BY <3>1, <3>2, <3>3, <3>4
    <2>. QED BY <2>1, <2>2
  <1>. QED BY <1>3, <1>5, <1>6 DEF Queues

LEMMA ReplyQueues ==
    ASSUME MInv, NEW a \in Addr, HandleReply(a)
    PROVE  Queues'
  <1>. DEFINE r == Head(replies[a])
  <1>1. /\ in[a] # << >>
        /\ req' = [req EXCEPT ![r] = "done"]
        /\ replies' = [replies EXCEPT ![a] = Tail(@)]
        /\ in' = [in EXCEPT ![a] = Tail(@)]
        /\ UNCHANGED <<out, wire>>
    BY DEF HandleReply
  <1>2. /\ replies[a] # << >> /\ r \in Request
        /\ Tail(replies[a]) = Row(Tail(in[a]), wire[a], out[a])
    BY <1>1, HeadOfReplies
  <1>3. /\ req \in [Request -> {"new", "asked", "sent", "refused", "done"}]
        /\ replies \in [Addr -> Seq(Request)] /\ in \in [Addr -> Seq(Request)]
    BY DEF MInv, TypeOK
  <1>4. QueuesMatch'
    BY <1>1, <1>2, <1>3 DEF MInv, QueuesMatch
  <1>. DEFINE old(b, i) == IF b = a THEN i + 1 ELSE i
  <1>5. ASSUME NEW b \in Addr, NEW i \in 1..Len(replies'[b])
        PROVE  /\ old(b, i) \in 1..Len(replies[b])
               /\ replies'[b][i] = replies[b][old(b, i)]
               /\ replies'[b][i] \in Request /\ replies'[b][i] # r
               /\ req[replies'[b][i]] = "sent"
    <2>1. replies[b] \in Seq(Request) /\ Len(replies[b]) \in Nat
      BY <1>3, LenProperties
    <2>2. replies[a] \in Seq(Request) /\ Len(replies[a]) \in Nat \ {0}
          /\ r = replies[a][1]
      BY <1>2, <1>3, EmptySeq
    <2>3. old(b, i) \in 1..Len(replies[b])
          /\ replies'[b][i] = replies[b][old(b, i)]
      <3>1. CASE b = a
        <4>1. replies'[b] = Tail(replies[a])
          BY <3>1, <1>1, <1>3
        <4>2. /\ Len(Tail(replies[a])) = Len(replies[a]) - 1
              /\ \A k \in 1..Len(Tail(replies[a])) :
                    Tail(replies[a])[k] = replies[a][k + 1]
          BY <1>2, <2>2, HeadTailProperties
        <4>. QED BY <4>1, <4>2, <3>1, <2>2
      <3>2. CASE b # a
        BY <3>2, <1>1, <1>3
      <3>. QED BY <3>1, <3>2
    <2>4. replies'[b][i] \in Request /\ req[replies'[b][i]] = "sent"
      BY <2>1, <2>3, ElementOfSeq DEF MInv, WaitingSent
    <2>5. replies'[b][i] # r
      <3>1. 1 \in 1..Len(replies[a])
        BY <2>2
      <3>2. ~(b = a /\ old(b, i) = 1)
        OBVIOUS
      <3>. HIDE DEF old
      <3>. QED BY <3>1, <3>2, <2>2, <2>3 DEF MInv, WaitsOnce
    <2>. QED BY <2>3, <2>4, <2>5
  <1>6. WaitingSent'
    <2>. SUFFICES ASSUME NEW b \in Addr, NEW i \in 1..Len(replies'[b])
                  PROVE  req'[replies'[b][i]] = "sent"
      BY DEF WaitingSent
    <2>. HIDE DEF r, old
    <2>. QED BY <1>1, <1>2, <1>3, <1>5
  <1>7. WaitsOnce'
    <2>. SUFFICES ASSUME NEW b \in Addr, NEW c \in Addr,
                         NEW i \in 1..Len(replies'[b]),
                         NEW j \in 1..Len(replies'[c]),
                         replies'[b][i] = replies'[c][j]
                  PROVE  b = c /\ i = j
      BY DEF WaitsOnce
    <2>1. b = c /\ old(b, i) = old(c, j)
      <3>1. /\ old(b, i) \in 1..Len(replies[b])
            /\ old(c, j) \in 1..Len(replies[c])
            /\ replies[b][old(b, i)] = replies[c][old(c, j)]
        BY <1>5
      <3>2. \A k \in 1..Len(replies[b]), l \in 1..Len(replies[c]) :
               replies[b][k] = replies[c][l] => b = c /\ k = l
        BY DEF MInv, WaitsOnce
      <3>. HIDE DEF old
      <3>. QED BY <3>1, <3>2
    <2>. QED BY <2>1
  <1>. QED BY <1>4, <1>6, <1>7 DEF Queues

\* HandleWrite and Answer move a command on, and who waits still does.
LEMMA MovesQueues ==
    ASSUME MInv, NEW a \in Addr, HandleWrite(a) \/ Answer(a)
    PROVE  Queues'
  <1>1. UNCHANGED <<req, replies>>
    BY DEF HandleWrite, Answer
  <1>2. /\ in[a] \in Seq(Request) /\ wire[a] \in Seq(Request)
        /\ out[a] \in Seq(Request)
        /\ DOMAIN in = Addr /\ DOMAIN wire = Addr /\ DOMAIN out = Addr
    BY DEF MInv, TypeOK
  <1>. DEFINE s == in[a]  t == wire[a]  u == out[a]
  <1>3. CASE HandleWrite(a)
    <2>1. /\ u # << >> /\ UNCHANGED in
          /\ wire' = [wire EXCEPT ![a] = Append(t, Head(u))]
          /\ out' = [out EXCEPT ![a] = Tail(u)]
      BY <1>3 DEF HandleWrite
    <2>2. Row(s, Append(t, Head(u)), Tail(u)) = Row(s, t, u)
      BY <1>2, <2>1, SendsOne
    <2>3. QueuesMatch'
      BY <1>1, <1>2, <2>1, <2>2 DEF MInv, QueuesMatch
    <2>. QED BY <1>1, <2>3 DEF MInv, WaitingSent, WaitsOnce, Queues
  <1>4. CASE Answer(a)
    <2>1. /\ t # << >> /\ UNCHANGED out
          /\ in' = [in EXCEPT ![a] = Append(s, Head(t))]
          /\ wire' = [wire EXCEPT ![a] = Tail(t)]
      BY <1>4 DEF Answer
    <2>2. Row(Append(s, Head(t)), Tail(t), u) = Row(s, t, u)
      BY <1>2, <2>1, AnswersOne
    <2>3. QueuesMatch'
      BY <1>1, <1>2, <2>1, <2>2 DEF MInv, QueuesMatch
    <2>. QED BY <1>1, <2>3 DEF MInv, WaitingSent, WaitsOnce, Queues
  <1>. QED BY <1>3, <1>4

LEMMA QueuesStep == MInv /\ [Next]_vars => Queues'
  <1>. SUFFICES ASSUME MInv, [Next]_vars PROVE Queues'
    OBVIOUS
  <1>1. CASE UNCHANGED exchange
    BY <1>1 DEF exchange, MInv, Queues, QueuesMatch, WaitingSent, WaitsOnce
  <1>2. ASSUME NEW r \in Request, StartCall(r) \/ BorrowFails(r)
        PROVE  Queues'
    <2>1. CASE StartCall(r)
      <3>1. /\ req[r] # "sent" /\ req' = [req EXCEPT ![r] = "asked"]
            /\ UNCHANGED <<replies, out, wire, in>>
        BY <2>1 DEF StartCall, netVars
      <3>. QED BY <3>1, OthersWait
    <2>2. CASE BorrowFails(r)
      <3>1. /\ req[r] # "sent" /\ req' = [req EXCEPT ![r] = "refused"]
            /\ UNCHANGED <<replies, out, wire, in>>
        BY <2>2 DEF BorrowFails, netVars
      <3>. QED BY <3>1, OthersWait
    <2>. QED BY <1>2, <2>1, <2>2
  <1>3. UNCHANGED vars => UNCHANGED exchange
    BY DEF vars, netVars, exchange
  <1>. QED BY <1>1, <1>2, <1>3, NextKinds, SubmitQueues, ReplyQueues, MovesQueues

----------------------------------------------------------------------------
(* The types.                                                              *)

Typed == TypeOK /\ FramesTaken

\* The loop's table, with no event for a descriptor out of its range.
Entry(f) == {e \in [mask : SUBSET {"r", "w"}, context : Addr \cup {Null}] :
                f >= SetSize => e.mask = {}}
EventsTyped(e) ==
    /\ e = [f \in Fds |-> e[f]]
    /\ \A f \in Fds : e[f] \in Entry(f)

LEMMA EventsType ==
    ASSUME NEW e
    PROVE  EventsTyped(e) <=>
             /\ e \in [Fds -> [mask : SUBSET {"r", "w"},
                               context : Addr \cup {Null}]]
             /\ \A f \in Fds : f >= SetSize => e[f].mask = {}
  BY DEF EventsTyped, Entry

LEMMA MaskEntry ==
    ASSUME NEW f \in Fds, f < SetSize,
           NEW x \in Entry(f), NEW m \in SUBSET {"r", "w"}
    PROVE  [x EXCEPT !.mask = m] \in Entry(f)
  <1>1. ~(f >= SetSize)
    BY MgetAssumption
  <1>. QED BY <1>1 DEF Entry

LEMMA OneEntry ==
    ASSUME NEW e, EventsTyped(e), NEW f, NEW v, f \in Fds => v \in Entry(f)
    PROVE  EventsTyped([e EXCEPT ![f] = v])
  BY DEF EventsTyped

\* What mget2 has in its frame is a context, NULL or something else.
LEMMA HereTyped ==
    ASSUME MInv, NEW r \in Request, req[r] # "new"
    PROVE  Here(r) \in Addr \cup {Null, Junk} /\ frame[r] \in Frames
  BY DEF MInv, TypeOK, FramesTaken, Here

LEMMA PoolTyped ==
    ASSUME MInv, NEW n \in 0..Len(unUsedAsync)
    PROVE  Rest(n) \in Seq(Addr \cup {Null, Junk})
  <1>1. unUsedAsync \in Seq(Addr \cup {Null, Junk})
    BY DEF MInv, TypeOK
  <1>. QED BY <1>1 DEF Rest

LEMMA WatchTyped ==
    ASSUME MInv, NEW f, NEW m \in SUBSET {"r", "w"}, Watch(f, m)
    PROVE  EventsTyped(events')
  <1>1. EventsTyped(events)
    BY EventsType DEF MInv, TypeOK
  <1>2. CASE ~(f < SetSize)
    BY <1>1, <1>2 DEF Watch
  <1>3. CASE f < SetSize
    <2>. DEFINE v == [events[f] EXCEPT !.mask = @ \cup m]
    <2>1. events' = [events EXCEPT ![f] = v]
      BY <1>3 DEF Watch
    <2>2. ASSUME f \in Fds
          PROVE  v \in Entry(f)
      <3>1. events[f] \in Entry(f)
        BY <1>1, <2>2 DEF EventsTyped
      <3>2. events[f].mask \cup m \in SUBSET {"r", "w"}
        BY <3>1 DEF Entry
      <3>. QED BY <1>3, <2>2, <3>1, <3>2, MaskEntry
    <2>. HIDE DEF v
    <2>. QED BY <1>1, <2>1, <2>2, OneEntry
  <1>. QED BY <1>2, <1>3

LEMMA CallTyped ==
    ASSUME MInv, NEW r \in Request, StartCall(r) \/ Mget2(r)
    PROVE  Typed'
  <1>. USE DEF callerVars, netVars
  <1>. TypeOK /\ FramesTaken /\ EventsTyped(events)
    BY EventsType DEF MInv, TypeOK
  <1>1. CASE StartCall(r)
    BY <1>1 DEF StartCall, Typed, TypeOK, FramesTaken
  <1>2. CASE BorrowPooled(r)
    <2>1. PICK n \in 0..(Len(unUsedAsync) - 1) :
            /\ pc = "borrow" /\ req[r] = "asked" /\ client
            /\ unUsedAsync[n + 1] \in Live
            /\ SetLocal(r, unUsedAsync[n + 1])
            /\ unUsedAsync' = Rest(n + 1)
            /\ pc' = "submit"
            /\ UNCHANGED <<frame, req, values, ctx, fd, replies, out, netVars,
                           events, loop, client, status, strayed>>
      BY <1>2 DEF BorrowPooled
    <2>2. Len(unUsedAsync) \in Nat
      BY DEF TypeOK
    <2>3. unUsedAsync' \in Seq(Addr \cup {Null, Junk})
      <3>1. n + 1 \in 0..Len(unUsedAsync)
        BY <2>2
      <3>. QED BY <2>1, <3>1, PoolTyped
    <2>4. frames' \in [Frames -> Addr \cup {Null, Junk}]
      BY <2>1 DEF SetLocal, Live, TypeOK
    <2>. QED BY <2>1, <2>3, <2>4 DEF Typed, TypeOK, FramesTaken
  <1>3. CASE BorrowNew(r)
    <2>1. PICK a \in Addr, f \in Fds :
            /\ ctx' = [ctx EXCEPT ![a] = "open"]
            /\ fd' = [fd EXCEPT ![a] = f]
            /\ SetLocal(r, a)
      BY <1>3 DEF BorrowNew
    <2>2. /\ unUsedAsync' = << >> /\ pc' = "submit"
          /\ UNCHANGED <<frame, req, values, replies, out, netVars, events,
                         loop, client, status, strayed>>
      BY <1>3 DEF BorrowNew
    <2>3. frames' \in [Frames -> Addr \cup {Null, Junk}]
      BY <2>1 DEF SetLocal, TypeOK
    <2>. QED BY <2>1, <2>2, <2>3 DEF Typed, TypeOK, FramesTaken
  <1>4. CASE BorrowFails(r)
    <2>1. <<Null>> \in Seq(Addr \cup {Null, Junk})
      OBVIOUS
    <2>. QED BY <1>4, <2>1 DEF BorrowFails, SetLocal, Typed, TypeOK, FramesTaken
  <1>5. CASE BorrowUndefined(r) \/ SubmitUndefined(r)
    BY <1>5 DEF BorrowUndefined, SubmitUndefined, Crash, Typed, TypeOK,
                FramesTaken
  <1>6. CASE Submit(r)
    <2>. DEFINE a == Here(r)
    <2>1. /\ a \in Addr
          /\ req[r] = "asked" /\ req' = [req EXCEPT ![r] = "sent"]
          /\ replies' = [replies EXCEPT ![a] = Append(@, r)]
          /\ out' = [out EXCEPT ![a] = Append(@, r)]
          /\ Watch(fd[a], {"w"})
          /\ pc' = "register"
          /\ UNCHANGED <<frame, frames, values, unUsedAsync, ctx, fd, netVars,
                         loop, client, status, strayed>>
      BY <1>6 DEF Submit, Live
    <2>. HIDE DEF a
    <2>2. /\ replies' \in [Addr -> Seq(Request)]
          /\ out' \in [Addr -> Seq(Request)]
      <3>1. /\ replies \in [Addr -> Seq(Request)]
            /\ out \in [Addr -> Seq(Request)]
        BY DEF TypeOK
      <3>2. /\ Append(replies[a], r) \in Seq(Request)
            /\ Append(out[a], r) \in Seq(Request)
        BY <2>1, <3>1, AppendProperties
      <3>. QED BY <2>1, <3>1, <3>2
    <2>3. EventsTyped(events')
      BY <2>1, WatchTyped
    <2>. QED BY <2>1, <2>2, <2>3, EventsType DEF Typed, TypeOK, FramesTaken
  <1>7. CASE Register(r)
    <2>1. /\ events' = [f \in Fds |->
                IF Here(r) \in Live /\ f = fd[Here(r)] /\ f < SetSize
                  THEN [events[f] EXCEPT !.context = Here(r)]
                  ELSE events[f]]
          /\ pc' = "idle"
          /\ UNCHANGED <<frame, req, frames, values, unUsedAsync, ctx, fd,
                         replies, out, netVars, loop, client, status, strayed>>
      BY <1>7 DEF Register
    <2>2. EventsTyped(events')
      <3>1. ASSUME NEW f \in Fds
            PROVE  events'[f] \in Entry(f)
        <4>1. events[f] \in Entry(f)
          BY DEF EventsTyped
        <4>2. CASE Here(r) \in Live
          <5>1. [events[f] EXCEPT !.context = Here(r)] \in Entry(f)
            BY <4>1, <4>2 DEF Entry, Live
          <5>. QED BY <2>1, <4>1, <5>1
        <4>3. CASE Here(r) \notin Live
          BY <2>1, <4>1, <4>3
        <4>. QED BY <4>2, <4>3
      <3>. QED BY <2>1, <3>1 DEF EventsTyped
    <2>. QED BY <2>1, <2>2, EventsType DEF Typed, TypeOK, FramesTaken
  <1>. QED BY <1>1, <1>2, <1>3, <1>4, <1>5, <1>6, <1>7 DEF Mget2

LEMMA LoopTyped ==
    ASSUME MInv, NEW a \in Addr, Handle(a) \/ Answer(a) \/ ProxyCloses(a)
    PROVE  Typed'
  <1>. USE DEF callerVars, netVars
  <1>. TypeOK /\ FramesTaken /\ EventsTyped(events)
    BY EventsType DEF MInv, TypeOK
  <1>1. CASE FiresWild(a) \/ CallbackUndefined(a)
    BY <1>1 DEF FiresWild, CallbackUndefined, Crash, Typed, TypeOK, FramesTaken
  <1>2. CASE HandleWrite(a)
    <2>1. /\ fd[a] < SetSize /\ out[a] # << >>
          /\ wire' = [wire EXCEPT ![a] = Append(@, Head(out[a]))]
          /\ out' = [out EXCEPT ![a] = Tail(@)]
          /\ events' = [events EXCEPT ![fd[a]].mask =
                          IF Len(out[a]) = 1 THEN {"r"} ELSE {"r", "w"}]
          /\ UNCHANGED <<callerVars, req, frames, values, unUsedAsync, ctx, fd,
                         replies, in, closes, loop, client, status, strayed>>
      BY <1>2 DEF HandleWrite, Fires
    <2>2. /\ wire' \in [Addr -> Seq(Request)]
          /\ out' \in [Addr -> Seq(Request)]
      <3>1. Head(out[a]) \in Request /\ Tail(out[a]) \in Seq(Request)
        BY <2>1, HeadTailProperties DEF TypeOK
      <3>. QED BY <2>1, <3>1 DEF TypeOK
    <2>3. EventsTyped(events')
      <3>. DEFINE m == IF Len(out[a]) = 1 THEN {"r"} ELSE {"r", "w"}
                  v == [events[fd[a]] EXCEPT !.mask = m]
      <3>1. events' = [events EXCEPT ![fd[a]] = v]
        BY <2>1
      <3>2. m \in SUBSET {"r", "w"}
        OBVIOUS
      <3>. HIDE DEF m
      <3>3. ASSUME fd[a] \in Fds
            PROVE  v \in Entry(fd[a])
        <4>1. events[fd[a]] \in Entry(fd[a])
          BY <3>3 DEF EventsTyped
        <4>. QED BY <2>1, <3>2, <3>3, <4>1, MaskEntry
      <3>. HIDE DEF v
      <3>. QED BY <3>1, <3>3, OneEntry
    <2>4. /\ events' \in [Fds -> [mask : SUBSET {"r", "w"},
                                  context : Addr \cup {Null}]]
          /\ \A f \in Fds : f >= SetSize => events'[f].mask = {}
      BY <2>3, EventsType
    <2>5. UNCHANGED <<pc, frame, req, frames, values, unUsedAsync, ctx, fd,
                      replies, in, closes, loop, client, status, strayed>>
      BY <2>1
    <2>. QED BY <2>2, <2>4, <2>5 DEF Typed, TypeOK, FramesTaken
  <1>3. CASE HandleReply(a)
    <2>. DEFINE r == Head(replies[a])
    <2>1. /\ in[a] # << >>
          /\ req' = [req EXCEPT ![r] = "done"]
          /\ values' = [values EXCEPT ![r] = Append(@, Head(in[a]))]
          /\ unUsedAsync' = Append(unUsedAsync, Here(r))
          /\ strayed' = (strayed \/ Here(r) # a)
          /\ replies' = [replies EXCEPT ![a] = Tail(@)]
          /\ in' = [in EXCEPT ![a] = Tail(@)]
          /\ UNCHANGED <<callerVars, frames, ctx, fd, out, wire, closes, events,
                         loop, client, status>>
      BY <1>3 DEF HandleReply
    <2>2. replies[a] # << >> /\ r \in Request /\ req[r] = "sent"
          /\ Head(in[a]) = r
      BY <2>1, HeadOfReplies
    <2>3. Here(r) \in Addr \cup {Null, Junk} /\ frame[r] \in Frames
      BY <2>2, HereTyped
    <2>. HIDE DEF r
    <2>4. unUsedAsync' \in Seq(Addr \cup {Null, Junk})
      BY <2>1, <2>3, AppendProperties DEF TypeOK
    <2>5. /\ replies' \in [Addr -> Seq(Request)]
          /\ in' \in [Addr -> Seq(Request)]
      <3>1. Tail(replies[a]) \in Seq(Request) /\ Tail(in[a]) \in Seq(Request)
        BY <2>1, <2>2, HeadTailProperties DEF TypeOK
      <3>. QED BY <2>1, <3>1 DEF TypeOK
    <2>6. values' \in [Request -> Seq(Request)]
      BY <2>1, <2>2 DEF TypeOK
    <2>7. strayed' \in BOOLEAN
      BY <2>1 DEF TypeOK
    <2>. QED BY <2>1, <2>2, <2>3, <2>4, <2>5, <2>6, <2>7, ZenonT(40)
             DEF Typed, TypeOK, FramesTaken
  <1>4. CASE HandleEof(a)
    <2>1. events' = [events EXCEPT ![fd[a]] = [mask |-> {}, context |-> Null]]
      BY <1>4 DEF HandleEof
    <2>2. EventsTyped(events')
      <3>1. \A f : [mask |-> {}, context |-> Null] \in Entry(f)
        BY DEF Entry
      <3>. QED BY <2>1, <3>1, OneEntry
    <2>. QED BY <1>4, <2>2, EventsType DEF HandleEof, Typed, TypeOK, FramesTaken
  <1>5. CASE Answer(a)
    <2>1. Head(wire[a]) \in Request /\ Tail(wire[a]) \in Seq(Request)
      BY <1>5, HeadTailProperties DEF Answer, TypeOK
    <2>2. /\ in' = [in EXCEPT ![a] = Append(@, Head(wire[a]))]
          /\ wire' = [wire EXCEPT ![a] = Tail(@)]
          /\ UNCHANGED <<callerVars, req, frames, values, unUsedAsync, ctx, fd,
                         replies, out, closes, events, loop, client, status,
                         strayed>>
      BY <1>5 DEF Answer
    <2>3. in' \in [Addr -> Seq(Request)] /\ wire' \in [Addr -> Seq(Request)]
      BY <2>1, <2>2 DEF TypeOK
    <2>. QED BY <2>2, <2>3 DEF Typed, TypeOK, FramesTaken
  <1>6. CASE ProxyCloses(a)
    <2>1. closes' \in 0..MaxCloses
      BY <1>6, MgetAssumption DEF ProxyCloses, TypeOK
    <2>. QED BY <1>6, <2>1 DEF ProxyCloses, Typed, TypeOK, FramesTaken
  <1>. QED BY <1>1, <1>2, <1>3, <1>4, <1>5, <1>6 DEF Handle

LEMMA TypedStep == MInv /\ [Next]_vars => Typed'
  <1>. SUFFICES ASSUME MInv, [Next]_vars PROVE Typed'
    OBVIOUS
  <1>. USE DEF callerVars, netVars
  <1>1. ASSUME NEW f \in Frames, ReuseStack(f)
        PROVE  Typed'
    BY <1>1 DEF ReuseStack, MInv, Typed, TypeOK, FramesTaken
  <1>2. CASE LoopEnds \/ DeleteClient
    BY <1>2, ZenonT(40) DEF LoopEnds, DeleteClient, MInv, Typed, TypeOK, FramesTaken
  <1>3. CASE UNCHANGED vars
    BY <1>3 DEF vars, MInv, Typed, TypeOK, FramesTaken
  <1>. QED BY <1>1, <1>2, <1>3, CallTyped, LoopTyped DEF Next, Running, Rests

LEMMA MInvStep == MInv /\ [Next]_vars => MInv'
  BY QueuesStep, TypedStep DEF MInv, Queues, Typed

\* Every variable of the model has a value that the program can give it, and
\* the loop's table has no entry for a descriptor that is out of its range:
\* for any number of calls, contexts, descriptors and frames.
THEOREM TypeOKHolds == Spec => []TypeOK
  <1>1. MInv => TypeOK
    BY DEF MInv
  <1>. QED BY <1>1, InitMInv, MInvStep, PTL DEF Spec

----------------------------------------------------------------------------
(* What mget2 promises.                                                    *)

LEMMA InitPromise == Init => Promise!Init
  BY DEF Init, Promise!Init, state

LEMMA ReplyKeepsPromise ==
    ASSUME MInv, NEW a \in Addr, HandleReply(a)
    PROVE  Promise!Next
  <1>. DEFINE r == Head(replies[a])
  <1>1. /\ in[a] # << >>
        /\ req' = [req EXCEPT ![r] = "done"]
        /\ values' = [values EXCEPT ![r] = Append(@, Head(in[a]))]
    BY DEF HandleReply
  <1>2. r \in Request /\ req[r] = "sent" /\ Head(in[a]) = r
    BY <1>1, HeadOfReplies
  <1>. HIDE DEF r
  <1>3. req \in [Request -> {"new", "asked", "sent", "refused", "done"}]
    BY DEF MInv, TypeOK
  <1>4. state[r] = "asked" /\ state' = [state EXCEPT ![r] = "done"]
    BY <1>1, <1>2, <1>3 DEF state
  <1>5. Promise!Answer(r)
    BY <1>1, <1>2, <1>4 DEF Promise!Answer, Promise!Move, state
  <1>. QED BY <1>2, <1>5 DEF Promise!Next

LEMMA StepKeepsPromise ==
    MInv /\ [Next]_vars => [Promise!Next]_<<state, values>>
  <1>. SUFFICES ASSUME MInv, [Next]_vars
                PROVE  [Promise!Next]_<<state, values>>
    OBVIOUS
  <1>1. req \in [Request -> {"new", "asked", "sent", "refused", "done"}]
    BY DEF MInv, TypeOK
  <1>2. CASE UNCHANGED <<req, values>>
    BY <1>2 DEF state
  <1>3. ASSUME NEW r \in Request, StartCall(r)
        PROVE  Promise!Next
    <2>1. /\ req[r] = "new" /\ req' = [req EXCEPT ![r] = "asked"]
          /\ UNCHANGED values
      BY <1>3 DEF StartCall
    <2>2. state[r] = "new" /\ state' = [state EXCEPT ![r] = "asked"]
      BY <1>1, <2>1 DEF state
    <2>. QED BY <2>1, <2>2 DEF Promise!Next, Promise!Ask, Promise!Move, state
  <1>4. ASSUME NEW r \in Request, BorrowFails(r)
        PROVE  Promise!Next
    <2>1. /\ req[r] = "asked" /\ req' = [req EXCEPT ![r] = "refused"]
          /\ UNCHANGED values
      BY <1>4 DEF BorrowFails
    <2>2. state[r] = "asked" /\ state' = [state EXCEPT ![r] = "refused"]
      BY <1>1, <2>1 DEF state
    <2>. QED BY <2>1, <2>2 DEF Promise!Next, Promise!Refuse, Promise!Move, state
  <1>5. ASSUME NEW r \in Request, Submit(r)
        PROVE  UNCHANGED <<state, values>>
    <2>1. /\ req[r] = "asked" /\ req' = [req EXCEPT ![r] = "sent"]
          /\ UNCHANGED values
      BY <1>5 DEF Submit
    <2>. QED BY <1>1, <2>1 DEF state
  <1>6. ASSUME NEW a \in Addr, HandleWrite(a) \/ Answer(a)
        PROVE  UNCHANGED <<state, values>>
    BY <1>6 DEF HandleWrite, Answer, state
  <1>7. UNCHANGED vars \/ UNCHANGED exchange => UNCHANGED <<req, values>>
    BY DEF vars, exchange
  <1>. QED BY <1>2, <1>3, <1>4, <1>5, <1>6, <1>7, NextKinds, ReplyKeepsPromise

\* Each request of mget2 is refused or its callback runs once, with the values
\* of its own keys: for any number of calls, contexts and frames, also after
\* contexts have come to be shared, connections have ended and the client has
\* been deleted.
THEOREM OneOwnAnswerHolds == Spec => OneOwnAnswer
  <1>. QED BY InitMInv, MInvStep, InitPromise, StepKeepsPromise, PTL
           DEF Spec, OneOwnAnswer, Promise!Spec

----------------------------------------------------------------------------
(* The pool, as long as every callback has found its own context and no    *)
(* connection has ended.                                                   *)

\* One call of mget2 at a time, until its request is sent.
AskedInv ==
    /\ \A q, r \in Request : req[q] = "asked" /\ req[r] = "asked" => q = r
    /\ pc \notin {"borrow", "submit"} => Asked = {}

\* A pool u, the contexts H in the hands of mget2 and W at work, L of all.
Sane(u, H, W, L) ==
    /\ \A i, j \in DOMAIN u : u[i] = u[j] /\ i # j => u[i] = Null
    /\ Range(u) \cap (W \cup H) = {}
    /\ L = (Range(u) \ {Null}) \cup H \cup W
    /\ H \cap W = {}

\* A context works on one request at a time.
OneAtWork ==
    \A a \in Addr : /\ ctx[a] # "eof"
                    /\ Len(replies[a]) <= 1
                    /\ ctx[a] = "free" => replies[a] = << >>

SaneInv ==
    /\ AskedInv
    /\ ~strayed /\ closes = 0 =>
          Sane(unUsedAsync, Held, Working, Live) /\ OneAtWork

PoolInv == MInv /\ SaneInv

LEMMA SaneTake ==
    ASSUME NEW S, NEW u \in Seq(S), NEW W, NEW L, Sane(u, {}, W, L),
           u # << >>, u[1] # Null
    PROVE  Sane(Tail(u), {u[1]}, W, L)
  <1>. DEFINE v == Tail(u)
  <1>1. /\ DOMAIN u = 1..Len(u) /\ Len(u) \in Nat \ {0}
        /\ DOMAIN v = 1..(Len(u) - 1)
        /\ \A i \in DOMAIN v : v[i] = u[i + 1]
    <2>1. /\ DOMAIN u = 1..Len(u) /\ Len(u) \in Nat \ {0}
      BY EmptySeq, LenProperties
    <2>2. v \in Seq(S) /\ Len(v) = Len(u) - 1
          /\ \A i \in 1..Len(v) : v[i] = u[i + 1]
      BY HeadTailProperties
    <2>3. DOMAIN v = 1..Len(v)
      BY <2>2, LenProperties
    <2>. QED BY <2>1, <2>2, <2>3
  <1>. HIDE DEF v
  <1>2. \A i \in DOMAIN v : i + 1 \in DOMAIN u /\ i + 1 # 1 /\ v[i] # u[1]
    BY <1>1 DEF Sane
  <1>3. Range(v) = Range(u) \ {u[1]}
    <2>1. \A x \in Range(v) : x \in Range(u) \ {u[1]}
      BY <1>1, <1>2 DEF Range
    <2>2. ASSUME NEW i \in DOMAIN u, u[i] # u[1]
          PROVE  u[i] \in Range(v)
      <3>1. i - 1 \in DOMAIN v /\ i = (i - 1) + 1
        BY <1>1, <2>2
      <3>2. v[i - 1] = u[i]
        BY <1>1, <3>1
      <3>. QED BY <3>1, <3>2 DEF Range
    <2>. QED BY <2>1, <2>2 DEF Range
  <1>4. u[1] \in Range(u)
    BY <1>1 DEF Range
  <1>5. ASSUME NEW i \in DOMAIN v, NEW j \in DOMAIN v, v[i] = v[j], i # j
        PROVE  v[i] = Null
    <2>1. u[i + 1] = u[j + 1] /\ i + 1 # j + 1
      BY <1>1, <1>5
    <2>. QED BY <1>1, <1>2, <2>1 DEF Sane
  <1>6. Sane(v, {u[1]}, W, L)
    BY <1>3, <1>4, <1>5 DEF Sane
  <1>. QED BY <1>6 DEF v

\* What is in the pool can be used, but for NULL: nothing is dropped.
LEMMA SaneKeeps ==
    ASSUME NEW S, NEW u \in Seq(S), NEW H, NEW W, NEW L, Sane(u, H, W, L),
           NEW n \in 0..Len(u), \A i \in 1..n : u[i] \notin L \cup {Null}
    PROVE  n = 0
  <1>1. DOMAIN u = 1..Len(u) /\ Len(u) \in Nat
    BY LenProperties
  <1>2. n # 0 => 1 \in 1..n /\ 1 \in DOMAIN u
    BY <1>1
  <1>3. 1 \in DOMAIN u => u[1] \in L \cup {Null}
    BY DEF Sane, Range
  <1>. QED BY <1>2, <1>3

LEMMA SaneReturn ==
    ASSUME NEW S, NEW u \in Seq(S), NEW H, NEW W, NEW L, Sane(u, H, W, L),
           NEW a \in W, a # Null, a \in S
    PROVE  Sane(Append(u, a), H, W \ {a}, L)
  <1>. DEFINE v == Append(u, a)
  <1>1. /\ DOMAIN u = 1..Len(u) /\ DOMAIN v = 1..(Len(u) + 1) /\ Len(u) \in Nat
        /\ v[Len(u) + 1] = a
        /\ \A i \in 1..Len(u) : v[i] = u[i]
    BY AppendProperties, LenProperties
  <1>. HIDE DEF v
  <1>2. \A i \in DOMAIN v : i \in DOMAIN u \/ i = Len(u) + 1
    BY <1>1
  <1>3. Range(v) = Range(u) \cup {a}
    <2>1. \A i \in DOMAIN v : v[i] \in Range(u) \cup {a}
      BY <1>1, <1>2 DEF Range
    <2>2. \A i \in DOMAIN u : u[i] \in Range(v)
      BY <1>1 DEF Range
    <2>3. a \in Range(v)
      BY <1>1 DEF Range
    <2>. QED BY <2>1, <2>2, <2>3 DEF Range
  <1>4. a \notin Range(u) /\ a \notin H
    BY DEF Sane
  <1>5. \A i \in DOMAIN u : u[i] # a
    BY <1>4 DEF Range
  <1>6. \A i, j \in DOMAIN v : v[i] = v[j] /\ i # j => v[i] = Null
    BY <1>1, <1>2, <1>5 DEF Sane
  <1>7. Sane(v, H, W \ {a}, L)
    BY <1>3, <1>4, <1>6 DEF Sane
  <1>. QED BY <1>7 DEF v

saneVars == <<pc, req, frame, frames, unUsedAsync, ctx, replies, closes,
              strayed>>

LEMMA SameSane == ASSUME PoolInv, UNCHANGED saneVars PROVE SaneInv'
  BY DEF PoolInv, SaneInv, saneVars, AskedInv, Asked, Held, Here, Working, Live,
         OneAtWork

LEMMA AskedStep == PoolInv /\ [Next]_vars => AskedInv'
  <1>. SUFFICES ASSUME PoolInv, [Next]_vars PROVE AskedInv'
    OBVIOUS
  <1>. USE DEF PoolInv, SaneInv, AskedInv, Asked
  <1>1. ASSUME UNCHANGED <<pc, req>> PROVE AskedInv'
    BY <1>1
  <1>2. req \in [Request -> {"new", "asked", "sent", "refused", "done"}]
    BY DEF MInv, TypeOK
  <1>3. ASSUME NEW r \in Request, StartCall(r) \/ Mget2(r) PROVE AskedInv'
    <2>1. CASE StartCall(r)
      BY <1>2, <2>1 DEF StartCall
    <2>2. CASE BorrowPooled(r) \/ BorrowNew(r)
      BY <2>2 DEF BorrowPooled, BorrowNew
    <2>3. CASE BorrowFails(r) \/ Submit(r)
      <3>1. req[r] = "asked"
            /\ \E s \in {"refused", "sent"} : req' = [req EXCEPT ![r] = s]
        BY <2>3 DEF BorrowFails, Submit
      <3>. QED BY <1>2, <3>1
    <2>4. CASE Register(r)
      BY <2>4 DEF Register
    <2>5. CASE BorrowUndefined(r) \/ SubmitUndefined(r)
      BY <1>1, <2>5 DEF BorrowUndefined, SubmitUndefined, Crash, callerVars
    <2>. QED BY <1>3, <2>1, <2>2, <2>3, <2>4, <2>5 DEF Mget2
  <1>4. ASSUME NEW a \in Addr, HandleReply(a) PROVE AskedInv'
    <2>1. req' = [req EXCEPT ![Head(replies[a])] = "done"] /\ pc' = pc
      BY <1>4 DEF HandleReply, callerVars
    <2>. QED BY <1>2, <2>1
  <1>5. ASSUME NEW a \in Addr, Handle(a) \/ Answer(a) \/ ProxyCloses(a)
        PROVE  AskedInv'
    BY <1>1, <1>4, <1>5 DEF Handle, FiresWild, HandleWrite, HandleEof,
       CallbackUndefined, Crash, Answer, ProxyCloses, callerVars
  <1>6. ASSUME NEW f \in Frames, ReuseStack(f) PROVE AskedInv'
    BY <1>1, <1>6 DEF ReuseStack, callerVars
  <1>7. CASE LoopEnds \/ DeleteClient \/ Rests \/ UNCHANGED vars
    BY <1>1, <1>7 DEF LoopEnds, DeleteClient, Rests, vars, callerVars
  <1>. QED BY <1>3, <1>5, <1>6, <1>7 DEF Next, Running

\* Only one request is asked, and so only one context is in hand.
LEMMA OneHeld ==
    ASSUME AskedInv, NEW r \in Request, req[r] = "asked"
    PROVE  /\ pc = "submit" => Held = {Here(r)}
           /\ pc # "submit" => Held = {}
  BY DEF AskedInv, Held, Asked

\* A refused call takes a free place and gives it up: no connection is made.
LEMMA FailsLoses ==
    ASSUME MInv, NEW r \in Request, BorrowFails(r)
    PROVE  \E a \in Addr :
              /\ ctx[a] = "free" /\ ctx' = [ctx EXCEPT ![a] = "lost"]
              /\ ctx'[a] = "lost" /\ \A b \in Addr \ {a} : ctx'[b] = ctx[b]
              /\ Live' = Live /\ Lost' = Lost \cup {a} /\ a \notin Lost
  <1>1. ctx \in [Addr -> {"free", "open", "eof", "lost"}]
    BY DEF MInv, TypeOK
  <1>2. PICK a \in Addr : ctx[a] = "free" /\ ctx' = [ctx EXCEPT ![a] = "lost"]
    BY DEF BorrowFails
  <1>3. ctx'[a] = "lost" /\ \A b \in Addr \ {a} : ctx'[b] = ctx[b]
    BY <1>1, <1>2
  <1>4. Live' = Live
    BY <1>2, <1>3 DEF Live
  <1>5. Lost' = Lost \cup {a} /\ a \notin Lost
    BY <1>2, <1>3 DEF Lost
  <1>. QED BY <1>2, <1>3, <1>4, <1>5

LEMMA BorrowSane ==
    ASSUME PoolInv, NEW r \in Request,
           BorrowPooled(r) \/ BorrowNew(r) \/ BorrowFails(r),
           AskedInv', ~strayed, closes = 0
    PROVE  Sane(unUsedAsync, Held, Working, Live)' /\ OneAtWork'
  <1>1. /\ unUsedAsync \in Seq(Addr \cup {Null, Junk})
        /\ frames \in [Frames -> Addr \cup {Null, Junk}]
        /\ frame[r] \in Frames
        /\ ctx \in [Addr -> {"free", "open", "eof", "lost"}]
        /\ req[r] = "asked" /\ pc = "borrow"
    BY DEF PoolInv, MInv, TypeOK, FramesTaken, BorrowPooled, BorrowNew, BorrowFails
  <1>2. Sane(unUsedAsync, {}, Working, Live) /\ OneAtWork
    BY <1>1, OneHeld DEF PoolInv, SaneInv
  <1>3. Len(unUsedAsync) \in Nat
    BY <1>1, LenProperties
  <1>4. ASSUME NEW n \in 0..Len(unUsedAsync), Droppable(n) PROVE n = 0
    <2>1. \A i \in 1..n : unUsedAsync[i] \notin Live \cup {Null}
      BY <1>4, MgetAssumption DEF Droppable
    <2>. QED BY <1>1, <1>2, <2>1, SaneKeeps
  <1>5. CASE BorrowPooled(r)
    <2>1. PICK n \in 0..(Len(unUsedAsync) - 1) :
            /\ Droppable(n) /\ unUsedAsync[n + 1] \in Live
            /\ SetLocal(r, unUsedAsync[n + 1])
            /\ unUsedAsync' = Rest(n + 1)
            /\ pc' = "submit" /\ UNCHANGED <<frame, req, ctx, replies>>
      BY <1>5 DEF BorrowPooled
    <2>2. n = 0 /\ Len(unUsedAsync) > 0
      BY <1>3, <1>4, <2>1
    <2>. DEFINE c == unUsedAsync[1]
    <2>3. /\ c \in Live /\ frames' = [frames EXCEPT ![frame[r]] = c]
          /\ unUsedAsync' = Rest(1)
      BY <2>1, <2>2 DEF SetLocal
    <2>4. unUsedAsync # << >> /\ Rest(1) = Tail(unUsedAsync)
      BY <1>1, <2>2 DEF Rest
    <2>5. c # Null
      BY <2>3, MgetAssumption DEF Live
    <2>. HIDE DEF c
    <2>6. Held' = {c}
      <3>1. (Here(r))' = c
        BY <1>1, <2>1, <2>3 DEF Here
      <3>2. req'[r] = "asked" /\ pc' = "submit"
        BY <1>1, <2>1
      <3>. QED BY <3>1, <3>2 DEF AskedInv, Held, Asked
    <2>7. Working' = Working /\ Live' = Live /\ OneAtWork'
      BY <1>2, <2>1 DEF Working, Live, OneAtWork
    <2>8. Sane(Tail(unUsedAsync), {c}, Working, Live)
      BY <1>1, <1>2, <2>4, <2>5, SaneTake DEF c
    <2>. QED BY <2>3, <2>4, <2>6, <2>7, <2>8, ZenonT(40) DEF Sane
  <1>6. CASE BorrowNew(r) \/ BorrowFails(r)
    <2>1. unUsedAsync = << >>
      <3>1. Droppable(Len(unUsedAsync)) /\ Len(unUsedAsync) \in 0..Len(unUsedAsync)
        BY <1>3, <1>6 DEF BorrowNew, BorrowFails
      <3>2. Len(unUsedAsync) = 0
        BY <1>4, <3>1
      <3>. QED BY <1>1, <3>2, EmptySeq
    <2>2. Live = Working
      BY <1>2, <2>1 DEF Sane, Range
    <2>3. CASE BorrowNew(r)
      <3>1. PICK a \in Addr : /\ ctx[a] = "free"
                              /\ ctx' = [ctx EXCEPT ![a] = "open"]
                              /\ SetLocal(r, a)
        BY <2>3 DEF BorrowNew
      <3>2. /\ unUsedAsync' = << >> /\ pc' = "submit"
            /\ UNCHANGED <<frame, req, replies>>
        BY <2>3 DEF BorrowNew
      <3>3. Live' = Live \cup {a} /\ a \notin Live
        BY <1>1, <3>1 DEF Live
      <3>4. Working' = Working
        BY <1>1, <1>2, <3>1, <3>2, <3>3 DEF Working, OneAtWork
      <3>5. Held' = {a}
        <4>1. (Here(r))' = a
          BY <1>1, <3>1, <3>2 DEF Here, SetLocal
        <4>. QED BY <1>1, <3>2, <4>1 DEF AskedInv, Held, Asked
      <3>6. OneAtWork'
        BY <1>1, <1>2, <3>1, <3>2 DEF OneAtWork
      <3>. QED BY <2>2, <3>2, <3>3, <3>4, <3>5, <3>6 DEF Sane, Range
    <2>4. CASE BorrowFails(r)
      <3>1. /\ unUsedAsync' = <<Null>> /\ pc' = "idle"
            /\ UNCHANGED replies
        BY <2>4 DEF BorrowFails
      <3>2. Live' = Live /\ Working' = Working /\ Held' = {} /\ OneAtWork'
        <4>1. PICK a \in Addr : /\ ctx[a] = "free" /\ ctx'[a] = "lost"
                                /\ \A b \in Addr \ {a} : ctx'[b] = ctx[b]
                                /\ Live' = Live
          BY <2>4, FailsLoses DEF PoolInv
        <4>2. Working' = Working /\ Held' = {}
          BY <3>1, <4>1 DEF Working, Held
        <4>3. OneAtWork'
          BY <1>2, <3>1, <4>1 DEF OneAtWork
        <4>. QED BY <4>1, <4>2, <4>3
      <3>3. /\ DOMAIN unUsedAsync' = {1} /\ unUsedAsync'[1] = Null
            /\ Range(unUsedAsync') = {Null}
        BY <3>1 DEF Range
      <3>4. Null \notin Working
        BY MgetAssumption DEF Working, Live
      <3>. QED BY <2>2, <3>2, <3>3, <3>4 DEF Sane
    <2>. QED BY <1>6, <2>3, <2>4
  <1>. QED BY <1>5, <1>6

LEMMA SubmitSane ==
    ASSUME PoolInv, NEW r \in Request, Submit(r), ~strayed, closes = 0
    PROVE  Sane(unUsedAsync, Held, Working, Live)' /\ OneAtWork'
  <1>. DEFINE a == Here(r)
  <1>1. /\ a \in Live /\ pc = "submit" /\ req[r] = "asked"
        /\ replies' = [replies EXCEPT ![a] = Append(@, r)]
        /\ pc' = "register" /\ UNCHANGED <<unUsedAsync, ctx>>
    BY DEF Submit
  <1>2. Held = {a} /\ Held' = {}
    <2>1. Held = {a}
      BY <1>1, OneHeld DEF PoolInv, SaneInv
    <2>. QED BY <1>1, <2>1 DEF Held
  <1>. HIDE DEF a
  <1>3. Sane(unUsedAsync, {a}, Working, Live) /\ OneAtWork
    BY <1>2 DEF PoolInv, SaneInv
  <1>4. a \in Addr /\ replies \in [Addr -> Seq(Request)]
    BY <1>1 DEF Live, PoolInv, MInv, TypeOK
  <1>5. replies[a] = << >>
    BY <1>1, <1>3 DEF Sane, Working
  <1>6. replies' = [replies EXCEPT ![a] = <<r>>]
    BY <1>1, <1>5
  <1>7. Live' = Live /\ Working' = Working \cup {a}
    BY <1>1, <1>4, <1>6 DEF Live, Working
  <1>8. OneAtWork'
    BY <1>1, <1>3, <1>4, <1>6 DEF OneAtWork, Live
  <1>. QED BY <1>1, <1>2, <1>3, <1>7, <1>8 DEF Sane

(* A sequence of one element has an empty tail. *)
LEMMA TailOfOne ==
  ASSUME NEW S, NEW s \in Seq(S), s # << >>, Len(s) <= 1
  PROVE  Tail(s) = << >>
  <1>1. Len(s) \in Nat \ {0}
    BY EmptySeq
  <1>2. Tail(s) \in Seq(S) /\ Len(Tail(s)) = Len(s) - 1
    BY HeadTailProperties
  <1>. DEFINE n == Len(s)
  <1>3. n = 1
    <2>1. n \in Nat \ {0} /\ n <= 1
      BY <1>1
    <2>. HIDE DEF n
    <2>. QED BY <2>1
  <1>4. Len(Tail(s)) = 0
    BY <1>2, <1>3
  <1>. QED BY <1>2, <1>4, EmptySeq

LEMMA ReplySane ==
    ASSUME PoolInv, NEW a \in Addr, HandleReply(a), ~strayed', closes = 0
    PROVE  Sane(unUsedAsync, Held, Working, Live)' /\ OneAtWork'
  <1>. DEFINE r == Head(replies[a])
  <1>1. /\ in[a] # << >> /\ a \in Live
        /\ unUsedAsync' = Append(unUsedAsync, Here(r))
        /\ strayed' = (strayed \/ Here(r) # a)
        /\ req' = [req EXCEPT ![r] = "done"]
        /\ replies' = [replies EXCEPT ![a] = Tail(@)]
        /\ UNCHANGED <<pc, frame, frames, ctx>>
    BY DEF HandleReply, Fires, callerVars
  <1>2. replies[a] # << >> /\ r \in Request /\ req[r] = "sent"
    BY <1>1, HeadOfReplies DEF PoolInv
  <1>. HIDE DEF r
  <1>3. ~strayed /\ Here(r) = a
    BY <1>1
  <1>4. Sane(unUsedAsync, Held, Working, Live) /\ OneAtWork
    BY <1>3 DEF PoolInv, SaneInv
  <1>5. /\ replies \in [Addr -> Seq(Request)]
        /\ unUsedAsync \in Seq(Addr \cup {Null, Junk})
        /\ req \in [Request -> {"new", "asked", "sent", "refused", "done"}]
    BY DEF PoolInv, MInv, TypeOK
  <1>6. replies' = [replies EXCEPT ![a] = << >>]
    <2>1. Len(replies[a]) <= 1 /\ replies[a] \in Seq(Request)
      BY <1>4, <1>5 DEF OneAtWork
    <2>2. Tail(replies[a]) = << >>
      BY <1>2, <2>1, TailOfOne
    <2>. QED BY <1>1, <2>2
  <1>7. Live' = Live /\ Working' = Working \ {a} /\ a \in Working
    BY <1>1, <1>2, <1>5, <1>6 DEF Live, Working
  <1>8. Held' = Held
    <2>1. Asked' = Asked
      BY <1>1, <1>2, <1>5 DEF Asked
    <2>. QED BY <1>1, <2>1 DEF Held, Here
  <1>9. OneAtWork'
    BY <1>1, <1>4, <1>5, <1>6 DEF OneAtWork
  <1>10. Sane(Append(unUsedAsync, a), Held, Working \ {a}, Live)
    BY <1>4, <1>5, <1>7, SaneReturn, MgetAssumption
  <1>. QED BY <1>1, <1>3, <1>7, <1>8, <1>9, <1>10 DEF Sane

LEMMA SaneStep == PoolInv /\ [Next]_vars => PoolInv'
  <1>. SUFFICES ASSUME PoolInv, [Next]_vars PROVE SaneInv'
    BY MInvStep DEF PoolInv
  <1>. USE DEF callerVars, netVars
  <1>1. AskedInv'
    BY AskedStep
  <1>2. ASSUME NEW r \in Request, StartCall(r) \/ Mget2(r) PROVE SaneInv'
    <2>1. UNCHANGED <<strayed, closes>>
      BY <1>2 DEF StartCall, Mget2, BorrowPooled, BorrowNew, BorrowFails,
                  BorrowUndefined, Submit, SubmitUndefined, Register, Crash
    <2>2. CASE StartCall(r) \/ Register(r)
      <3>1. /\ pc # "submit" /\ pc' # "submit"
            /\ UNCHANGED <<unUsedAsync, ctx, replies>>
        BY <2>2 DEF StartCall, Register
      <3>2. Held = {} /\ Held' = {}
        BY <3>1 DEF Held
      <3>. QED BY <1>1, <2>1, <3>1, <3>2
               DEF PoolInv, SaneInv, Sane, Working, Live, OneAtWork
    <2>3. CASE BorrowPooled(r) \/ BorrowNew(r) \/ BorrowFails(r)
      BY <1>1, <2>1, <2>3, BorrowSane DEF SaneInv
    <2>4. CASE Submit(r)
      BY <1>1, <2>1, <2>4, SubmitSane DEF SaneInv
    <2>5. CASE BorrowUndefined(r) \/ SubmitUndefined(r)
      BY <2>5, SameSane DEF BorrowUndefined, SubmitUndefined, Crash, saneVars
    <2>. QED BY <1>2, <2>2, <2>3, <2>4, <2>5 DEF Mget2
  <1>3. ASSUME NEW a \in Addr, Handle(a) \/ Answer(a) PROVE SaneInv'
    <2>1. CASE FiresWild(a) \/ CallbackUndefined(a) \/ HandleWrite(a) \/ Answer(a)
      BY <2>1, SameSane
         DEF FiresWild, CallbackUndefined, HandleWrite, Answer, Crash, saneVars
    <2>2. CASE HandleReply(a)
      <3>1. closes' = closes
        BY <2>2 DEF HandleReply
      <3>. QED BY <1>1, <2>2, <3>1, ReplySane DEF SaneInv
    <2>3. CASE HandleEof(a)
      <3>1. ctx[a] = "eof" /\ UNCHANGED <<strayed, closes>>
        BY <2>3 DEF HandleEof
      <3>2. strayed \/ closes # 0
        BY <3>1 DEF PoolInv, SaneInv, OneAtWork
      <3>. QED BY <1>1, <3>1, <3>2 DEF SaneInv
    <2>. QED BY <1>3, <2>1, <2>2, <2>3 DEF Handle
  <1>4. ASSUME NEW a \in Addr, ProxyCloses(a) PROVE SaneInv'
    <2>1. closes' = closes + 1 /\ closes \in Nat
      BY <1>4, MgetAssumption DEF ProxyCloses, PoolInv, MInv, TypeOK
    <2>. QED BY <1>1, <2>1 DEF SaneInv
  <1>5. ASSUME NEW f \in Frames, ReuseStack(f) PROVE SaneInv'
    <2>1. /\ pc # "submit"
          /\ UNCHANGED <<pc, unUsedAsync, ctx, replies, closes, strayed>>
      BY <1>5 DEF ReuseStack
    <2>2. Held = {} /\ Held' = {}
      BY <2>1 DEF Held
    <2>. QED BY <1>1, <2>1, <2>2
             DEF PoolInv, SaneInv, Sane, Working, Live, OneAtWork
  <1>6. CASE LoopEnds \/ DeleteClient \/ Rests \/ UNCHANGED vars
    BY <1>6, SameSane DEF LoopEnds, DeleteClient, Rests, vars, saneVars
  <1>. QED BY <1>2, <1>3, <1>4, <1>5, <1>6 DEF Next, Running

LEMMA InitPoolInv == Init => PoolInv
  <1>. SUFFICES ASSUME Init PROVE SaneInv
    BY InitMInv DEF PoolInv
  <1>1. AskedInv
    BY DEF Init, AskedInv, Asked
  <1>2. Held = {} /\ Working = {} /\ Live = {} /\ Range(unUsedAsync) = {}
    BY DEF Init, Held, Working, Live, Range
  <1>3. Sane(unUsedAsync, Held, Working, Live)
    BY <1>2 DEF Init, Sane
  <1>4. OneAtWork
    BY DEF Init, OneAtWork
  <1>. QED BY <1>1, <1>3, <1>4 DEF SaneInv

\* What the refused requests have cost.
LossInv == /\ IsFiniteSet(Lost) /\ IsFiniteSet(Refused)
           /\ Cardinality(Lost) = Cardinality(Refused)

LEMMA LossStep == MInv /\ LossInv /\ [Next]_vars => LossInv'
  <1>. SUFFICES ASSUME MInv, LossInv, [Next]_vars PROVE LossInv'
    OBVIOUS
  <1>. USE DEF callerVars, netVars
  <1>1. /\ req \in [Request -> {"new", "asked", "sent", "refused", "done"}]
        /\ ctx \in [Addr -> {"free", "open", "eof", "lost"}]
    BY DEF MInv, TypeOK
  <1>2. Lost' = Lost /\ Refused' = Refused => LossInv'
    BY DEF LossInv
  <1>3. ctx' = ctx => Lost' = Lost
    BY DEF Lost
  <1>4. req' = req => Refused' = Refused
    BY DEF Refused
  <1>5. ASSUME NEW r \in Request, NEW s \in {"asked", "sent", "done"},
               req[r] # "refused", req' = [req EXCEPT ![r] = s]
        PROVE  Refused' = Refused
    BY <1>1, <1>5 DEF Refused
  <1>6. ASSUME NEW a \in Addr, NEW s \in {"open", "eof", "free"},
               ctx[a] # "lost", ctx' = [ctx EXCEPT ![a] = s]
        PROVE  Lost' = Lost
    BY <1>1, <1>6 DEF Lost
  <1>7. ASSUME NEW r \in Request, BorrowFails(r) PROVE LossInv'
    <2>1. PICK a \in Addr : Lost' = Lost \cup {a} /\ a \notin Lost
      BY <1>7, FailsLoses
    <2>2. Refused' = Refused \cup {r} /\ r \notin Refused
      BY <1>1, <1>7 DEF BorrowFails, Refused
    <2>3. IsFiniteSet(Lost) /\ IsFiniteSet(Refused)
          /\ Cardinality(Lost) = Cardinality(Refused)
      BY DEF LossInv
    <2>4. /\ IsFiniteSet(Lost \cup {a})
          /\ Cardinality(Lost \cup {a}) = Cardinality(Lost) + 1
      BY <2>1, <2>3, FS_AddElement
    <2>5. /\ IsFiniteSet(Refused \cup {r})
          /\ Cardinality(Refused \cup {r}) = Cardinality(Refused) + 1
      BY <2>2, <2>3, FS_AddElement
    <2>6. IsFiniteSet(Lost') /\ IsFiniteSet(Refused')
      BY <2>1, <2>2, <2>4, <2>5, Zenon
    <2>7. Cardinality(Lost') = Cardinality(Refused')
      BY <2>1, <2>2, <2>3, <2>4, <2>5, Zenon
    <2>. QED BY <2>6, <2>7 DEF LossInv
  <1>8. ASSUME NEW r \in Request, StartCall(r) \/ Submit(r) PROVE LossInv'
    <2>1. /\ ctx' = ctx /\ req[r] \in {"new", "asked"}
          /\ \E s \in {"asked", "sent"} : req' = [req EXCEPT ![r] = s]
      BY <1>8 DEF StartCall, Submit
    <2>. QED BY <1>2, <1>3, <1>5, <2>1
  <1>9. ASSUME NEW r \in Request, BorrowNew(r) PROVE LossInv'
    <2>1. /\ req' = req
          /\ \E a \in Addr : ctx[a] = "free" /\ ctx' = [ctx EXCEPT ![a] = "open"]
      BY <1>9 DEF BorrowNew
    <2>. QED BY <1>2, <1>4, <1>6, <2>1
  <1>10. ASSUME NEW a \in Addr, HandleEof(a) \/ ProxyCloses(a) PROVE LossInv'
    <2>1. /\ req' = req /\ ctx[a] # "lost"
          /\ \E s \in {"free", "eof"} : ctx' = [ctx EXCEPT ![a] = s]
      BY <1>10 DEF HandleEof, ProxyCloses
    <2>. QED BY <1>2, <1>4, <1>6, <2>1
  <1>11. ASSUME NEW a \in Addr, HandleReply(a) PROVE LossInv'
    <2>. DEFINE r == Head(replies[a])
    <2>1. /\ in[a] # << >> /\ ctx' = ctx
          /\ req' = [req EXCEPT ![r] = "done"]
      BY <1>11 DEF HandleReply
    <2>2. r \in Request /\ req[r] = "sent"
      BY <2>1, HeadOfReplies
    <2>. HIDE DEF r
    <2>. QED BY <1>2, <1>3, <1>5, <2>1, <2>2
  <1>12. ASSUME UNCHANGED <<req, ctx>> PROVE LossInv'
    BY <1>2, <1>3, <1>4, <1>12
  <1>13. ASSUME NEW r \in Request, Mget2(r) PROVE LossInv'
    BY <1>7, <1>8, <1>9, <1>12, <1>13
       DEF Mget2, BorrowPooled, BorrowUndefined, SubmitUndefined, Register, Crash
  <1>14. ASSUME NEW a \in Addr, Handle(a) \/ Answer(a) PROVE LossInv'
    BY <1>10, <1>11, <1>12, <1>14
       DEF Handle, FiresWild, HandleWrite, CallbackUndefined, Crash, Answer
  <1>15. ASSUME NEW f \in Frames, ReuseStack(f) PROVE LossInv'
    BY <1>12, <1>15 DEF ReuseStack
  <1>16. CASE LoopEnds \/ DeleteClient \/ Rests \/ UNCHANGED vars
    BY <1>12, <1>16 DEF LoopEnds, DeleteClient, Rests, vars
  <1>17. ASSUME NEW r \in Request, StartCall(r) \/ Mget2(r) PROVE LossInv'
    BY <1>8, <1>13, <1>17
  <1>18. ASSUME NEW a \in Addr, Handle(a) \/ Answer(a) \/ ProxyCloses(a)
         PROVE  LossInv'
    BY <1>10, <1>14, <1>18
  <1>. QED BY <1>15, <1>16, <1>17, <1>18 DEF Next, Running

LEMMA InitLossInv == Init => LossInv
  <1>. SUFFICES ASSUME Init PROVE LossInv
    OBVIOUS
  <1>1. Lost = {} /\ Refused = {}
    BY DEF Init, Lost, Refused
  <1>. QED BY <1>1, FS_EmptySet DEF LossInv

\* A refused request costs the process the context that createAsync gave up,
\* and nothing else is lost as long as every callback has found its own context
\* in the frame of its mget2 and no connection has ended: the pool has no
\* context twice and none that works or is in hand, and every context with a
\* connection is in one of the three: for any number of calls, contexts and
\* frames.
THEOREM PoolSaneHolds == Spec => []PoolSane
  <1>1. PoolInv /\ LossInv => PoolSane
    BY DEF PoolInv, SaneInv, Sane, LossInv, PoolSane, Pooled
  <1>2. Init => PoolInv /\ LossInv
    BY InitPoolInv, InitLossInv
  <1>3. PoolInv /\ LossInv /\ [Next]_vars => (PoolInv /\ LossInv)'
    BY SaneStep, LossStep DEF PoolInv
  <1>. QED BY <1>1, <1>2, <1>3, PTL DEF Spec

----------------------------------------------------------------------------
(* No request is stranded, as long as no connection has ended: whatever    *)
(* has to move next, somebody is told of it.                               *)

\* The last call of mget2 that has begun.
Latest(r) == req[r] # "new" /\ \A q \in Request : q > r => req[q] = "new"

\* The calls come one after the other, and mget2 works on the last one.
OrderInv ==
    /\ \A q, r \in Request : q < r /\ req[r] # "new" => req[q] # "new"
    /\ \A r \in Request : req[r] = "asked" => Latest(r)

\* No connection has ended, and so nobody has stopped the loop.
Steady ==
    /\ loop = "running"
    /\ \A a \in Addr : ctx[a] # "eof"
    /\ \A a \in Addr : ctx[a] = "free" =>
          /\ replies[a] = << >> /\ out[a] = << >>
          /\ wire[a] = << >> /\ in[a] = << >>

\* A descriptor belongs to one context, and only then to the loop's table.
OwnFds ==
    /\ \A a \in Live : fd[a] \in Fds
    /\ \A a, b \in Live : fd[a] = fd[b] => a = b
    /\ \A f \in Fds : events[f].mask # {} => \E a \in Live : fd[a] = f

\* The mask has what a context waits for: its commands to be written, and
\* the answers to what is written to be read.
Armed ==
    \A a \in Live : fd[a] < SetSize =>
        /\ out[a] # << >> => "w" \in events[fd[a]].mask
        /\ wire[a] # << >> \/ in[a] # << >> => "r" \in events[fd[a]].mask

\* The loop knows whom it serves, or mget2 is about to tell it.
Told ==
    \A a \in Live : events[fd[a]].mask # {} =>
        \/ Known(a)
        \/ pc = "register" /\ \E r \in Request : Latest(r) /\ Here(r) = a

\* Who is sent waits for an answer on some connection.
SentWaits ==
    \A r \in Request : req[r] = "sent" => \E a \in Live : r \in Range(replies[a])

WakeInv ==
    /\ OrderInv
    /\ closes = 0 => Steady /\ OwnFds /\ Armed /\ Told /\ SentWaits

StrandInv == PoolInv /\ WakeInv

loopVars == <<pc, req, frame, frames, ctx, fd, replies, out, wire, in, events,
              loop>>

LEMMA SameWake == ASSUME StrandInv, UNCHANGED <<loopVars, closes>> PROVE WakeInv'
  BY DEF StrandInv, WakeInv, loopVars, OrderInv, Latest, Steady, OwnFds, Armed,
         Told, SentWaits, Live, Known, Here

\* A request leaves "new" once, in its turn.
LEMMA OrderStep == StrandInv /\ [Next]_vars => OrderInv'
  <1>. SUFFICES ASSUME StrandInv, [Next]_vars PROVE OrderInv'
    OBVIOUS
  <1>1. /\ req \in [Request -> {"new", "asked", "sent", "refused", "done"}]
        /\ OrderInv /\ AskedInv
    BY DEF StrandInv, WakeInv, PoolInv, SaneInv, MInv, TypeOK
  <1>2. CASE UNCHANGED req
    BY <1>1, <1>2 DEF OrderInv, Latest
  <1>3. ASSUME NEW r \in Request, StartCall(r) PROVE OrderInv'
    <2>1. /\ req[r] = "new" /\ req' = [req EXCEPT ![r] = "asked"] /\ Asked = {}
          /\ \A q \in Request : q < r => req[q] # "new"
      BY <1>1, <1>3 DEF StartCall, AskedInv
    <2>2. \A q \in Request : req[q] # "new" => q < r
      <3>1. \A q \in Request : q \in Nat
        BY DEF Request
      <3>. QED BY <1>1, <2>1, <3>1 DEF OrderInv
    <2>3. \A q \in Request : req'[q] # "new" <=> req[q] # "new" \/ q = r
      BY <1>1, <2>1
    <2>4. \A p, q \in Request : p < q /\ req'[q] # "new" => req'[p] # "new"
      BY <1>1, <2>1, <2>3 DEF OrderInv
    <2>5. \A q \in Request : req'[q] = "asked" => q = r
      BY <1>1, <2>1 DEF Asked
    <2>6. \A q \in Request : q > r => req'[q] = "new"
      <3>1. \A q \in Request : q \in Nat
        BY DEF Request
      <3>. QED BY <2>2, <2>3, <3>1
    <2>. QED BY <2>3, <2>4, <2>5, <2>6 DEF OrderInv, Latest
  <1>4. ASSUME NEW r \in Request, NEW s \in {"sent", "refused", "done"},
               req[r] # "new", req' = [req EXCEPT ![r] = s]
        PROVE  OrderInv'
    <2>1. \A q \in Request : /\ req'[q] = "new" <=> req[q] = "new"
                             /\ req'[q] = "asked" => req[q] = "asked"
      BY <1>1, <1>4
    <2>. QED BY <1>1, <2>1 DEF OrderInv, Latest
  <1>5. ASSUME NEW r \in Request, BorrowFails(r) \/ Submit(r) PROVE OrderInv'
    BY <1>4, <1>5 DEF BorrowFails, Submit
  <1>6. ASSUME NEW a \in Addr, HandleWrite(a) \/ HandleReply(a) \/ Answer(a)
        PROVE  OrderInv'
    <2>1. CASE HandleWrite(a) \/ Answer(a)
      BY <1>2, <2>1 DEF HandleWrite, Answer
    <2>2. CASE HandleReply(a)
      <3>. DEFINE r == Head(replies[a])
      <3>1. in[a] # << >> /\ req' = [req EXCEPT ![r] = "done"]
        BY <2>2 DEF HandleReply
      <3>2. r \in Request /\ req[r] = "sent"
        BY <3>1, HeadOfReplies DEF StrandInv, PoolInv
      <3>. HIDE DEF r
      <3>. QED BY <1>4, <3>1, <3>2
    <2>. QED BY <1>6, <2>1, <2>2
  <1>7. UNCHANGED vars \/ UNCHANGED exchange => UNCHANGED req
    BY DEF vars, exchange
  <1>. QED BY <1>2, <1>3, <1>5, <1>6, <1>7, NextKinds

\* What the actions of the loop and of the proxy, and Submit, say of the parts
\* of the invariant.
WakeParts == Steady /\ OwnFds /\ Armed /\ Told /\ SentWaits

LEMMA StrandTypes ==
    ASSUME StrandInv
    PROVE  /\ req \in [Request -> {"new", "asked", "sent", "refused", "done"}]
           /\ ctx \in [Addr -> {"free", "open", "eof", "lost"}]
           /\ fd \in [Addr -> Fds \cup {Null}]
           /\ replies \in [Addr -> Seq(Request)] /\ out \in [Addr -> Seq(Request)]
           /\ wire \in [Addr -> Seq(Request)] /\ in \in [Addr -> Seq(Request)]
           /\ events \in [Fds -> [mask : SUBSET {"r", "w"},
                                  context : Addr \cup {Null}]]
           /\ \A f \in Fds : f >= SetSize => events[f].mask = {}
           /\ frames \in [Frames -> Addr \cup {Null, Junk}]
           /\ \A r \in Request : req[r] # "new" => frame[r] \in Frames
           /\ \A f \in Fds : f \in Nat
           /\ SetSize \in Nat
  BY MgetAssumption
     DEF StrandInv, PoolInv, MInv, TypeOK, FramesTaken

LEMMA StartWake ==
    ASSUME StrandInv, NEW r \in Request, StartCall(r), WakeParts
    PROVE  WakeParts'
  <1>1. /\ pc = "idle" /\ pc' = "borrow"
        /\ req[r] = "new" /\ req' = [req EXCEPT ![r] = "asked"]
        /\ UNCHANGED <<ctx, fd, replies, out, wire, in, events, loop>>
    BY DEF StartCall, netVars
  <1>2. \A q \in Request : req'[q] = "sent" => req[q] = "sent"
    BY <1>1, StrandTypes
  <1>3. Steady' /\ OwnFds' /\ Armed'
    BY <1>1 DEF WakeParts, Steady, OwnFds, Armed, Live
  <1>4. Told'
    BY <1>1 DEF WakeParts, Told, Live, Known
  <1>5. SentWaits'
    BY <1>1, <1>2 DEF WakeParts, SentWaits, Live
  <1>. QED BY <1>3, <1>4, <1>5 DEF WakeParts

LEMMA BorrowWake ==
    ASSUME StrandInv, NEW r \in Request,
           BorrowPooled(r) \/ BorrowNew(r) \/ BorrowFails(r), WakeParts
    PROVE  WakeParts'
  <1>1. CASE BorrowPooled(r) \/ BorrowFails(r)
    <2>1. /\ pc = "borrow" /\ pc' # "register"
          /\ UNCHANGED <<fd, replies, out, wire, in, events, loop>>
      BY <1>1 DEF BorrowPooled, BorrowFails, netVars
    <2>2. \A q \in Request : req'[q] = "sent" => req[q] = "sent"
      BY <1>1, StrandTypes DEF BorrowPooled, BorrowFails
    <2>3. /\ Live' = Live
          /\ \A b \in Addr : /\ ctx'[b] = "eof" => ctx[b] = "eof"
                             /\ ctx'[b] = "free" => ctx[b] = "free"
      <3>1. CASE BorrowPooled(r)
        BY <3>1 DEF BorrowPooled, Live
      <3>2. CASE BorrowFails(r)
        BY <3>2, FailsLoses DEF StrandInv, PoolInv
      <3>. QED BY <1>1, <3>1, <3>2
    <2>4. Steady'
      BY <2>1, <2>3 DEF WakeParts, Steady
    <2>5. OwnFds' /\ Armed'
      BY <2>1, <2>3 DEF WakeParts, OwnFds, Armed
    <2>6. Told'
      BY <2>1, <2>3 DEF WakeParts, Told, Known
    <2>7. SentWaits'
      BY <2>1, <2>2, <2>3 DEF WakeParts, SentWaits
    <2>. QED BY <2>4, <2>5, <2>6, <2>7 DEF WakeParts
  <1>2. CASE BorrowNew(r)
    <2>1. PICK a \in Addr, f \in Fds \ UsedFds :
            /\ ctx[a] = "free"
            /\ ctx' = [ctx EXCEPT ![a] = "open"]
            /\ fd' = [fd EXCEPT ![a] = f]
      BY <1>2 DEF BorrowNew
    <2>2. /\ pc = "borrow" /\ pc' = "submit"
          /\ UNCHANGED <<req, replies, out, wire, in, events, loop>>
      BY <1>2 DEF BorrowNew, netVars
    <2>3. /\ Live' = Live \cup {a} /\ a \notin Live
          /\ fd'[a] = f /\ \A b \in Live : fd'[b] = fd[b] /\ fd[b] # f
      BY <2>1, StrandTypes DEF Live, UsedFds
    <2>4. events[f].mask = {}
      BY <2>1 DEF WakeParts, OwnFds, UsedFds
    <2>5. Steady'
      BY <2>1, <2>2, StrandTypes DEF WakeParts, Steady
    <2>6. OwnFds'
      <3>1. \A g \in Fds : events[g].mask # {} => \E b \in Live : fd[b] = g
        BY DEF WakeParts, OwnFds
      <3>2. \A g \in Fds : events'[g].mask # {} => \E b \in Live' : fd'[b] = g
        BY <2>2, <2>3, <3>1
      <3>. QED BY <2>1, <2>2, <2>3, <3>2 DEF WakeParts, OwnFds
    <2>7. out[a] = << >> /\ wire[a] = << >> /\ in[a] = << >>
      BY <2>1 DEF WakeParts, Steady
    <2>8. Armed'
      BY <2>2, <2>3, <2>7 DEF WakeParts, Armed
    <2>9. Told'
      <3>. SUFFICES ASSUME NEW b \in Live', events'[fd'[b]].mask # {}
                    PROVE  Known(b)'
        BY DEF Told
      <3>1. b # a
        BY <2>2, <2>3, <2>4
      <3>2. b \in Live /\ fd'[b] = fd[b]
        BY <2>3, <3>1
      <3>. QED BY <2>2, <3>2 DEF WakeParts, Told, Known
    <2>10. SentWaits'
      BY <2>2, <2>3 DEF WakeParts, SentWaits
    <2>. QED BY <2>5, <2>6, <2>8, <2>9, <2>10 DEF WakeParts
  <1>. QED BY <1>1, <1>2

\* A new mask for the descriptor of a; nobody else's entry changes.
LEMMA MaskWake ==
    ASSUME StrandInv, WakeParts, NEW a \in Live, NEW m \in SUBSET {"r", "w"},
           events' = [events EXCEPT ![fd[a]].mask = m], UNCHANGED <<ctx, fd>>
    PROVE  /\ OwnFds' /\ Live' = Live
           /\ events'[fd'[a]].mask = m
           /\ events'[fd'[a]].context = events[fd[a]].context
           /\ \A b \in Live : b # a => events'[fd'[b]] = events[fd[b]]
  <1>1. fd[a] \in Fds /\ Live' = Live /\ \A b \in Live : fd[b] \in Fds
    BY DEF WakeParts, OwnFds, Live
  <1>2. events \in [Fds -> [mask : SUBSET {"r", "w"}, context : Addr \cup {Null}]]
    BY StrandTypes
  <1>3. /\ events'[fd'[a]].mask = m
        /\ events'[fd'[a]].context = events[fd[a]].context
        /\ \A f \in Fds : f # fd[a] => events'[f] = events[f]
    BY <1>1, <1>2
  <1>4. \A b \in Live : b # a => events'[fd'[b]] = events[fd[b]]
    BY <1>1, <1>3 DEF WakeParts, OwnFds
  <1>5. OwnFds'
    BY <1>1, <1>3 DEF WakeParts, OwnFds
  <1>. QED BY <1>1, <1>3, <1>4, <1>5

LEMMA SubmitWake ==
    ASSUME StrandInv, NEW r \in Request, Submit(r), WakeParts
    PROVE  WakeParts'
  <1>. DEFINE a == Here(r)
  <1>1. /\ a \in Live /\ a \in Addr /\ pc = "submit" /\ pc' = "register"
        /\ req[r] = "asked" /\ req' = [req EXCEPT ![r] = "sent"]
        /\ replies' = [replies EXCEPT ![a] = Append(@, r)]
        /\ out' = [out EXCEPT ![a] = Append(@, r)]
        /\ Watch(fd[a], {"w"})
        /\ UNCHANGED <<frame, frames, ctx, fd, wire, in, loop>>
    BY DEF Submit, Live, netVars
  <1>2. a' = a
    BY <1>1 DEF Here
  <1>3. Latest(r)'
    <2>1. Latest(r) /\ req[r] # "sent"
      BY <1>1 DEF StrandInv, WakeInv, OrderInv
    <2>2. \A q \in Request : req'[q] = "new" <=> req[q] = "new"
      BY <1>1, StrandTypes
    <2>. QED BY <2>1, <2>2 DEF Latest
  <1>4. \E q \in Request : Latest(q)' /\ Here(q)' = a
    BY <1>2, <1>3
  <1>. HIDE DEF a
  <1>5. /\ OwnFds' /\ Live' = Live
        /\ fd[a] < SetSize => "w" \in events'[fd[a]].mask
        /\ events[fd[a]].mask \subseteq events'[fd[a]].mask
        /\ events'[fd[a]].context = events[fd[a]].context
        /\ \A b \in Live : b # a => events'[fd[b]] = events[fd[b]]
    <2>1. CASE fd[a] < SetSize
      <3>. DEFINE m == events[fd[a]].mask \cup {"w"}
      <3>1. fd[a] \in Fds
        BY <1>1 DEF WakeParts, OwnFds
      <3>2. m \in SUBSET {"r", "w"} /\ events' = [events EXCEPT ![fd[a]].mask = m]
        BY <1>1, <2>1, <3>1, StrandTypes DEF Watch
      <3>3. "w" \in m /\ events[fd[a]].mask \subseteq m
        OBVIOUS
      <3>. HIDE DEF m
      <3>4. /\ OwnFds' /\ Live' = Live
            /\ events'[fd'[a]].mask = m
            /\ events'[fd'[a]].context = events[fd[a]].context
            /\ \A b \in Live : b # a => events'[fd'[b]] = events[fd[b]]
        BY <1>1, <3>2, MaskWake
      <3>. QED BY <1>1, <3>3, <3>4
    <2>2. CASE ~(fd[a] < SetSize)
      <3>1. events' = events
        BY <1>1, <2>2 DEF Watch
      <3>. QED BY <1>1, <2>2, <3>1 DEF WakeParts, OwnFds, Live
    <2>. QED BY <2>1, <2>2
  <1>6. \A b \in Addr : b # a => replies'[b] = replies[b] /\ out'[b] = out[b]
    BY <1>1, StrandTypes
  <1>7. replies'[a] = Append(replies[a], r) /\ replies[a] \in Seq(Request)
    BY <1>1, StrandTypes
  <1>8. Steady'
    BY <1>1, <1>6 DEF WakeParts, Steady, Live
  <1>9. Armed'
    <2>. SUFFICES ASSUME NEW b \in Live, fd[b] < SetSize
                  PROVE  /\ out'[b] # << >> => "w" \in events'[fd[b]].mask
                         /\ wire[b] # << >> \/ in[b] # << >>
                              => "r" \in events'[fd[b]].mask
      BY <1>1, <1>5 DEF Armed
    <2>1. b \in Addr
      BY DEF Live
    <2>. QED BY <1>5, <1>6, <2>1 DEF WakeParts, Armed
  <1>10. Told'
    <2>. SUFFICES ASSUME NEW b \in Live, b # a, events'[fd[b]].mask # {}
                  PROVE  Known(b)'
      BY <1>1, <1>4, <1>5 DEF Told
    <2>. QED BY <1>1, <1>5 DEF WakeParts, Told, Known
  <1>11. SentWaits'
    <2>. SUFFICES ASSUME NEW q \in Request, req'[q] = "sent"
                  PROVE  \E b \in Live : q \in Range(replies'[b])
      BY <1>5 DEF SentWaits
    <2>1. /\ DOMAIN replies[a] = 1..Len(replies[a])
          /\ DOMAIN replies'[a] = 1..(Len(replies[a]) + 1)
          /\ Len(replies[a]) \in Nat
          /\ replies'[a][Len(replies[a]) + 1] = r
          /\ \A i \in 1..Len(replies[a]) : replies'[a][i] = replies[a][i]
      BY <1>7, AppendProperties, LenProperties
    <2>2. r \in Range(replies'[a])
      BY <2>1 DEF Range
    <2>3. \A p \in Range(replies[a]) : p \in Range(replies'[a])
      BY <2>1 DEF Range
    <2>4. CASE q = r
      BY <1>1, <2>2, <2>4
    <2>5. CASE q # r
      <3>1. PICK b \in Live : q \in Range(replies[b])
        BY <1>1, <2>5, StrandTypes DEF WakeParts, SentWaits
      <3>2. b \in Addr
        BY DEF Live
      <3>3. q \in Range(replies'[b])
        BY <1>6, <2>3, <3>1, <3>2
      <3>. QED BY <3>3
    <2>. QED BY <2>4, <2>5
  <1>. QED BY <1>5, <1>8, <1>9, <1>10, <1>11 DEF WakeParts

\* After Register the loop knows every context it serves.
LEMMA RegisterWake ==
    ASSUME StrandInv, NEW r \in Request, Register(r), WakeParts
    PROVE  WakeParts'
  <1>. DEFINE a == Here(r)
  <1>1. /\ pc = "register" /\ pc' = "idle" /\ Latest(r)
        /\ events' = [f \in Fds |-> IF a \in Live /\ f = fd[a] /\ f < SetSize
                                      THEN [events[f] EXCEPT !.context = a]
                                      ELSE events[f]]
        /\ UNCHANGED <<req, ctx, fd, replies, out, wire, in, loop>>
    BY DEF Register, Latest, netVars
  <1>2. \A q \in Request : Latest(q) => q = r
    <2>1. \A q \in Request : q \in Nat
      BY DEF Request
    <2>. QED BY <1>1, <2>1 DEF Latest
  <1>3. \A b \in Live : events[fd[b]].mask # {} => Known(b) \/ b = a
    BY <1>1, <1>2 DEF WakeParts, Told
  <1>. HIDE DEF a
  <1>4. \A f \in Fds : events'[f].mask = events[f].mask
    BY <1>1, StrandTypes
  <1>5. Live' = Live /\ \A b \in Live : fd[b] \in Fds
    BY <1>1 DEF WakeParts, OwnFds, Live
  <1>6. Steady' /\ OwnFds' /\ Armed' /\ SentWaits'
    BY <1>1, <1>4, <1>5 DEF WakeParts, Steady, OwnFds, Armed, SentWaits
  <1>7. Told'
    <2>. SUFFICES ASSUME NEW b \in Live, events[fd[b]].mask # {}
                  PROVE  events'[fd[b]].context = b
      BY <1>1, <1>4, <1>5 DEF Told, Known
    <2>1. fd[b] \in Fds /\ fd[b] < SetSize
      <3>1. fd[b] \in Fds /\ ~(fd[b] >= SetSize)
        BY <1>5, StrandTypes
      <3>. QED BY <3>1, StrandTypes
    <2>2. CASE b = a
      BY <1>1, <2>1, <2>2, StrandTypes
    <2>3. CASE b # a
      <3>1. events'[fd[b]] = events[fd[b]]
        BY <1>1, <2>1, <2>3 DEF WakeParts, OwnFds
      <3>. QED BY <1>3, <2>3, <3>1 DEF Known
    <2>. QED BY <2>2, <2>3
  <1>. QED BY <1>6, <1>7 DEF WakeParts

LEMMA WriteWake ==
    ASSUME StrandInv, NEW a \in Addr, HandleWrite(a), WakeParts
    PROVE  WakeParts'
  <1>. DEFINE m == IF Len(out[a]) = 1 THEN {"r"} ELSE {"r", "w"}
  <1>1. /\ a \in Live /\ out[a] # << >> /\ Known(a)
        /\ wire' = [wire EXCEPT ![a] = Append(@, Head(out[a]))]
        /\ out' = [out EXCEPT ![a] = Tail(@)]
        /\ events' = [events EXCEPT ![fd[a]].mask = m]
        /\ UNCHANGED <<pc, req, frame, frames, ctx, fd, replies, in, loop>>
    BY DEF HandleWrite, Fires, callerVars
  <1>2. m \in SUBSET {"r", "w"} /\ "r" \in m
    OBVIOUS
  <1>3. "w" \notin m => Tail(out[a]) = << >>
    <2>1. ASSUME Len(out[a]) = 1 PROVE Tail(out[a]) = << >>
      <3>1. Len(out[a]) <= 1 /\ out[a] \in Seq(Request)
        BY <2>1, StrandTypes
      <3>. QED BY <1>1, <3>1, TailOfOne
    <2>. QED BY <2>1
  <1>. HIDE DEF m
  <1>4. /\ OwnFds' /\ Live' = Live
        /\ events'[fd'[a]].mask = m
        /\ events'[fd'[a]].context = events[fd[a]].context
        /\ \A b \in Live : b # a => events'[fd'[b]] = events[fd[b]]
    BY <1>1, <1>2, MaskWake
  <1>5. /\ out'[a] = Tail(out[a])
        /\ \A b \in Addr : b # a => out'[b] = out[b] /\ wire'[b] = wire[b]
    BY <1>1, StrandTypes
  <1>6. Steady'
    BY <1>1, <1>5 DEF WakeParts, Steady, Live
  <1>7. Armed'
    <2>. SUFFICES ASSUME NEW b \in Live, fd[b] < SetSize
                  PROVE  /\ out'[b] # << >> => "w" \in events'[fd'[b]].mask
                         /\ wire'[b] # << >> \/ in[b] # << >>
                              => "r" \in events'[fd'[b]].mask
      BY <1>1, <1>4 DEF Armed
    <2>1. b \in Addr
      BY DEF Live
    <2>. QED BY <1>2, <1>3, <1>4, <1>5, <2>1 DEF WakeParts, Armed
  <1>8. Told'
    <2>1. \A q \in Request : (Latest(q)' <=> Latest(q)) /\ Here(q)' = Here(q)
      BY <1>1 DEF Latest, Here
    <2>. QED BY <1>1, <1>4, <2>1 DEF WakeParts, Told, Known
  <1>9. SentWaits'
    BY <1>1, <1>4 DEF WakeParts, SentWaits
  <1>. QED BY <1>4, <1>6, <1>7, <1>8, <1>9 DEF WakeParts

LEMMA AnswerWake ==
    ASSUME StrandInv, NEW a \in Addr, Answer(a), WakeParts
    PROVE  WakeParts'
  <1>1. /\ ctx[a] = "open" /\ wire[a] # << >>
        /\ in' = [in EXCEPT ![a] = Append(@, Head(wire[a]))]
        /\ wire' = [wire EXCEPT ![a] = Tail(@)]
        /\ UNCHANGED <<pc, req, frame, frames, ctx, fd, replies, out, events,
                       loop>>
    BY DEF Answer, callerVars
  <1>2. /\ a \in Live /\ Live' = Live
        /\ \A b \in Addr : b # a => in'[b] = in[b] /\ wire'[b] = wire[b]
    BY <1>1, StrandTypes DEF Live
  <1>3. Steady' /\ OwnFds' /\ SentWaits'
    BY <1>1, <1>2 DEF WakeParts, Steady, OwnFds, SentWaits
  <1>4. Armed'
    <2>. SUFFICES ASSUME NEW b \in Live, fd[b] < SetSize
                  PROVE  /\ out[b] # << >> => "w" \in events[fd[b]].mask
                         /\ wire'[b] # << >> \/ in'[b] # << >>
                              => "r" \in events[fd[b]].mask
      BY <1>1, <1>2 DEF Armed
    <2>1. b \in Addr
      BY DEF Live
    <2>. QED BY <1>1, <1>2, <2>1 DEF WakeParts, Armed
  <1>5. Told'
    BY <1>1, <1>2 DEF WakeParts, Told, Known, Latest, Here
  <1>. QED BY <1>3, <1>4, <1>5 DEF WakeParts

LEMMA ReplyWake ==
    ASSUME StrandInv, NEW a \in Addr, HandleReply(a), WakeParts
    PROVE  WakeParts'
  <1>. DEFINE r == Head(replies[a])
  <1>1. /\ a \in Live /\ in[a] # << >>
        /\ req' = [req EXCEPT ![r] = "done"]
        /\ replies' = [replies EXCEPT ![a] = Tail(@)]
        /\ in' = [in EXCEPT ![a] = Tail(@)]
        /\ UNCHANGED <<pc, frame, frames, ctx, fd, out, wire, events, loop>>
    BY DEF HandleReply, Fires, callerVars
  <1>2. /\ r \in Request /\ req[r] = "sent" /\ replies[a] # << >>
        /\ replies[a] \in Seq(Request)
    BY <1>1, HeadOfReplies, StrandTypes DEF StrandInv, PoolInv
  <1>3. /\ \A q \in Request : req'[q] = "new" <=> req[q] = "new"
        /\ \A q \in Request : req'[q] = "sent" <=> req[q] = "sent" /\ q # r
    <2>. HIDE DEF r
    <2>. QED BY <1>1, <1>2, StrandTypes
  <1>4. /\ Live' = Live
        /\ \A b \in Addr : b # a => in'[b] = in[b] /\ replies'[b] = replies[b]
        /\ replies'[a] = Tail(replies[a])
    BY <1>1, StrandTypes DEF Live
  <1>5. Steady' /\ OwnFds'
    BY <1>1, <1>4 DEF WakeParts, Steady, OwnFds, Live
  <1>6. Armed'
    <2>. SUFFICES ASSUME NEW b \in Live, fd[b] < SetSize
                  PROVE  /\ out[b] # << >> => "w" \in events[fd[b]].mask
                         /\ wire[b] # << >> \/ in'[b] # << >>
                              => "r" \in events[fd[b]].mask
      BY <1>1, <1>4 DEF Armed
    <2>1. b \in Addr
      BY DEF Live
    <2>. QED BY <1>1, <1>4, <2>1 DEF WakeParts, Armed
  <1>7. Told'
    <2>1. \A q \in Request : (Latest(q)' <=> Latest(q)) /\ Here(q)' = Here(q)
      BY <1>1, <1>3 DEF Latest, Here
    <2>. QED BY <1>1, <1>4, <2>1 DEF WakeParts, Told, Known
  <1>8. SentWaits'
    <2>. SUFFICES ASSUME NEW q \in Request, req[q] = "sent", q # r
                  PROVE  \E b \in Live : q \in Range(replies'[b])
      BY <1>3, <1>4 DEF SentWaits
    <2>1. PICK b \in Live : q \in Range(replies[b])
      BY DEF WakeParts, SentWaits
    <2>2. CASE b # a
      <3>1. replies'[b] = replies[b]
        BY <1>4, <2>2 DEF Live
      <3>. QED BY <2>1, <3>1
    <2>3. CASE b = a
      <3>1. PICK i \in 1..Len(replies[a]) : replies[a][i] = q
        BY <1>2, <2>1, <2>3, LenProperties DEF Range
      <3>2. /\ Len(replies[a]) \in Nat \ {0} /\ replies[a][1] = r
            /\ Tail(replies[a]) \in Seq(Request)
            /\ Len(Tail(replies[a])) = Len(replies[a]) - 1
            /\ \A k \in 1..Len(Tail(replies[a])) :
                  Tail(replies[a])[k] = replies[a][k + 1]
        BY <1>2, EmptySeq, HeadTailProperties
      <3>. HIDE DEF r
      <3>3. i # 1
        BY <3>1, <3>2
      <3>4. i - 1 \in 1..Len(Tail(replies[a])) /\ (i - 1) + 1 = i
        BY <3>1, <3>2, <3>3
      <3>5. Tail(replies[a])[i - 1] = q
        BY <3>1, <3>2, <3>4
      <3>6. i - 1 \in DOMAIN Tail(replies[a])
        BY <3>2, <3>4, LenProperties
      <3>7. q \in Range(replies'[a])
        BY <1>4, <3>5, <3>6 DEF Range
      <3>. QED BY <1>1, <3>7
    <2>. QED BY <2>2, <2>3
  <1>. QED BY <1>5, <1>6, <1>7, <1>8 DEF WakeParts

LEMMA WakeStep == StrandInv /\ [Next]_vars => StrandInv'
  <1>. SUFFICES ASSUME StrandInv, [Next]_vars PROVE WakeInv'
    BY SaneStep DEF StrandInv
  <1>. USE DEF callerVars, netVars
  <1>1. OrderInv'
    BY OrderStep
  <1>2. closes \in Nat /\ (closes = 0 => WakeParts)
    BY MgetAssumption DEF StrandInv, PoolInv, MInv, TypeOK, WakeInv, WakeParts
  <1>3. WakeParts' \/ closes' # 0 => WakeInv'
    BY <1>1 DEF WakeInv, WakeParts
  <1>4. ASSUME NEW r \in Request, StartCall(r) \/ Mget2(r) PROVE WakeInv'
    <2>1. CASE BorrowUndefined(r) \/ SubmitUndefined(r)
      BY <2>1, SameWake DEF BorrowUndefined, SubmitUndefined, Crash, loopVars
    <2>2. CASE ~(BorrowUndefined(r) \/ SubmitUndefined(r))
      <3>1. closes' = closes
        BY <1>4, <2>2 DEF StartCall, Mget2, BorrowPooled, BorrowNew, BorrowFails,
                          Submit, Register
      <3>2. WakeParts => WakeParts'
        BY <1>4, <2>2, StartWake, BorrowWake, SubmitWake, RegisterWake DEF Mget2
      <3>. QED BY <1>2, <1>3, <3>1, <3>2
    <2>. QED BY <2>1, <2>2
  <1>5. ASSUME NEW a \in Addr, Handle(a) \/ Answer(a) PROVE WakeInv'
    <2>1. CASE FiresWild(a) \/ CallbackUndefined(a)
      BY <2>1, SameWake DEF FiresWild, CallbackUndefined, Crash, loopVars
    <2>2. CASE HandleWrite(a) \/ HandleReply(a) \/ Answer(a)
      <3>1. closes' = closes
        BY <2>2 DEF HandleWrite, HandleReply, Answer
      <3>2. WakeParts => WakeParts'
        BY <2>2, WriteWake, ReplyWake, AnswerWake
      <3>. QED BY <1>2, <1>3, <3>1, <3>2
    <2>3. CASE HandleEof(a)
      <3>1. ctx[a] = "eof" /\ closes' = closes
        BY <2>3 DEF HandleEof
      <3>2. ~WakeParts
        BY <3>1 DEF WakeParts, Steady
      <3>. QED BY <1>2, <1>3, <3>1, <3>2
    <2>. QED BY <1>5, <2>1, <2>2, <2>3 DEF Handle
  <1>6. ASSUME NEW a \in Addr, ProxyCloses(a) PROVE WakeInv'
    <2>1. closes' = closes + 1
      BY <1>6 DEF ProxyCloses
    <2>. QED BY <1>2, <1>3, <2>1
  <1>7. ASSUME NEW f \in Frames, ReuseStack(f) PROVE WakeInv'
    <2>1. /\ pc = "idle"
          /\ UNCHANGED <<pc, req, ctx, fd, replies, out, wire, in, events, loop,
                         closes>>
      BY <1>7 DEF ReuseStack
    <2>2. WakeParts => WakeParts'
      BY <2>1 DEF WakeParts, Steady, OwnFds, Armed, Told, SentWaits, Live, Known
    <2>. QED BY <1>2, <1>3, <2>1, <2>2
  <1>8. CASE LoopEnds
    <2>1. loop = "stopping" /\ closes' = closes
      BY <1>8 DEF LoopEnds
    <2>2. ~WakeParts
      BY <2>1 DEF WakeParts, Steady
    <2>. QED BY <1>2, <1>3, <2>1, <2>2
  <1>9. CASE DeleteClient \/ Rests \/ UNCHANGED vars
    BY <1>9, SameWake DEF DeleteClient, Rests, vars, loopVars
  <1>. QED BY <1>4, <1>5, <1>6, <1>7, <1>8, <1>9 DEF Next, Running

LEMMA InitStrandInv == Init => StrandInv
  <1>. SUFFICES ASSUME Init PROVE WakeInv
    BY InitPoolInv DEF StrandInv
  <1>1. Live = {} /\ \A r \in Request : req[r] = "new"
    BY DEF Init, Live
  <1>2. OrderInv
    BY <1>1 DEF OrderInv
  <1>3. Steady
    BY DEF Init, Steady
  <1>4. OwnFds
    BY <1>1 DEF Init, OwnFds
  <1>5. Armed /\ Told /\ SentWaits
    BY <1>1 DEF Armed, Told, SentWaits
  <1>. QED BY <1>2, <1>3, <1>4, <1>5 DEF WakeInv

\* A request whose mget2 returned true is not answered yet: somebody has to
\* move it on, and is told to. What hiredis keeps for its connection is in one
\* of the three queues, and whoever has to serve a queue that is not empty can:
\* the loop has the event in the mask and, once mget2 has returned, the context
\* that the event is for; the proxy has a connection that is open.
NeverStranded ==
    status = "running" /\ closes = 0 =>
        \A r \in Request : req[r] = "sent" /\ ~Unserved(r) =>
            \E a \in Live :
                /\ r \in Range(replies[a])
                /\ out[a] # << >> \/ wire[a] # << >> \/ in[a] # << >>
                /\ out[a] # << >> => Fires(a, "w")
                /\ wire[a] # << >> => ctx[a] = "open"
                /\ in[a] # << >> => Fires(a, "r")
                /\ pc = "register" \/ Known(a)

\* No wakeup is lost between mget2, which adds to the buffer and to the mask
\* while the loop runs, and the loop, which empties both: the safety half of
\* SentIsAnswered, for any number of calls, contexts, descriptors and frames.
THEOREM NeverStrandedHolds == Spec => []NeverStranded
  <1>1. ASSUME StrandInv PROVE NeverStranded
    <2>. SUFFICES ASSUME closes = 0, NEW r \in Request, req[r] = "sent",
                         ~Unserved(r)
                  PROVE  \E a \in Live :
                            /\ r \in Range(replies[a])
                            /\ out[a] # << >> \/ wire[a] # << >> \/ in[a] # << >>
                            /\ out[a] # << >> => Fires(a, "w")
                            /\ wire[a] # << >> => ctx[a] = "open"
                            /\ in[a] # << >> => Fires(a, "r")
                            /\ pc = "register" \/ Known(a)
      BY DEF NeverStranded
    <2>1. Steady /\ OwnFds /\ Armed /\ Told /\ SentWaits
      BY <1>1 DEF StrandInv, WakeInv
    <2>2. PICK a \in Live : r \in Range(replies[a])
      BY <2>1 DEF SentWaits
    <2>3. a \in Addr /\ ctx[a] = "open" /\ loop = "running"
      BY <2>1 DEF Steady, Live
    <2>4. fd[a] < SetSize
      <3>1. ~(fd[a] >= SetSize)
        BY <2>2 DEF Unserved
      <3>2. fd[a] \in Nat /\ SetSize \in Nat
        BY <1>1, <2>1, StrandTypes DEF OwnFds
      <3>. QED BY <3>1, <3>2
    <2>5. out[a] # << >> \/ wire[a] # << >> \/ in[a] # << >>
      <3>1. << >> \in Seq({}) /\ Row(<< >>, << >>, << >>) = << >>
        BY ConcatEmptySeq DEF Row
      <3>2. replies[a] # << >>
        BY <2>2 DEF Range
      <3>3. replies[a] = Row(in[a], wire[a], out[a])
        BY <1>1, <2>3 DEF StrandInv, PoolInv, MInv, QueuesMatch
      <3>. QED BY <3>1, <3>2, <3>3
    <2>6. /\ out[a] # << >> => Fires(a, "w")
          /\ in[a] # << >> => Fires(a, "r")
      BY <2>1, <2>3, <2>4 DEF Armed, Fires
    <2>7. pc = "register" \/ Known(a)
      BY <2>1, <2>4, <2>5 DEF Armed, Told
    <2>. QED BY <2>2, <2>3, <2>5, <2>6, <2>7
  <1>. QED BY <1>1, InitStrandInv, WakeStep, PTL DEF Spec
=============================================================================
