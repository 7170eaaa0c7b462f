----------------------------- MODULE ChannelProofs -----------------------------
(***************************************************************************)
(* Proofs about the channel, for any number of coroutines, of calls, of    *)
(* timeouts and of places: what goes in comes out, once and in its order.  *)
(***************************************************************************)
EXTENDS MCChannel, CoroutineProofs, SequenceTheorems

\* The types of what the items pass through.
ItemsTypeOK ==
  /\ chan \in {"open", "closing", "freed"}
  /\ pc \in [Task -> {"php", "push", "pop", "free"}]
  /\ arg \in [Task -> Nat]
  /\ sent \in Nat /\ asked \in Nat
  /\ data_queue \in Seq(Nat) /\ accepted \in Seq(Nat) /\ received \in Seq(Nat \X Nat)

(***************************************************************************)
(* The inductive invariant.  ItemsConserved is kept by a push that goes on *)
(* only if its item is new, so what the waiting pushes hold must differ    *)
(* from each other and from all that was accepted (PendingFresh), and it   *)
(* is kept after the channel is closed only because nobody is left in a    *)
(* push or a pop (ClosedEmpty).                                            *)
(***************************************************************************)

\* The items taken, then those in the channel, are the accepted ones.
Flow ==
  /\ \A i \in 1 .. Len(received) : received[i][2] = accepted[i]
  /\ Len(received) <= Len(accepted)
  /\ chan = "open" =>
       /\ Len(accepted) = Len(received) + Len(data_queue)
       /\ \A i \in 1 .. Len(data_queue) : data_queue[i] = accepted[Len(received) + i]

\* The accepted items are distinct, and each was the item of a push call.
Numbered ==
  /\ \A i \in 1 .. Len(accepted) : accepted[i] <= sent
  /\ \A i, j \in 1 .. Len(accepted) : accepted[i] = accepted[j] => i = j

\* What a waiting push holds is not in yet, and nobody else holds it.
PendingFresh ==
  \A t \in Task : pc[t] = "push" =>
    /\ arg[t] <= sent
    /\ \A i \in 1 .. Len(accepted) : accepted[i] # arg[t]
    /\ \A u \in Task : pc[u] = "push" /\ arg[u] = arg[t] => u = t

\* The channel is freed by a task that is in wmChannel_free, with nobody inside.
ClosedEmpty ==
  /\ chan # "open" => \A t \in Task : pc[t] \notin {"push", "pop"}
  /\ \A t \in Task : pc[t] = "free" => chan # "open"

ChIInv == ItemsTypeOK /\ Flow /\ Numbered /\ PendingFresh /\ ClosedEmpty

\* What is taken is a sequence of items.
LEMMA TakenIsSeq ==
  ASSUME NEW r \in Seq(Nat \X Nat)
  PROVE  /\ [i \in DOMAIN r |-> r[i][2]] \in Seq(Nat)
         /\ Len([i \in DOMAIN r |-> r[i][2]]) = Len(r)
         /\ \A i \in 1 .. Len(r) : [j \in DOMAIN r |-> r[j][2]][i] = r[i][2]
<1>1. Len(r) \in Nat /\ DOMAIN r = 1 .. Len(r) /\ \A i \in 1 .. Len(r) : r[i][2] \in Nat
  OBVIOUS
<1>2. [i \in 1 .. Len(r) |-> r[i][2]] \in Seq(Nat)
  BY <1>1
<1> QED
  BY <1>1, <1>2

\* ConcatProperties for items.
LEMMA ConcatOfNats ==
  ASSUME NEW r \in Seq(Nat), NEW q \in Seq(Nat)
  PROVE  /\ r \o q \in Seq(Nat)
         /\ Len(r \o q) = Len(r) + Len(q)
         /\ \A i \in 1 .. Len(r) + Len(q) :
              (r \o q)[i] = IF i <= Len(r) THEN r[i] ELSE q[i - Len(r)]
BY ConcatProperties

\* The invariant implies what the runs check.
LEMMA FlowConserves == ChIInv => ItemsConserved
<1> SUFFICES ASSUME ChIInv PROVE ItemsConserved
  OBVIOUS
<1> DEFINE taken == [i \in DOMAIN received |-> received[i][2]]
<1>1. /\ taken \in Seq(Nat) /\ Len(taken) = Len(received) /\ Len(received) \in Nat
      /\ \A i \in 1 .. Len(received) : taken[i] = received[i][2]
  BY TakenIsSeq DEF ChIInv, ItemsTypeOK
<1>2. /\ accepted \in Seq(Nat) /\ data_queue \in Seq(Nat)
      /\ Len(accepted) \in Nat /\ Len(data_queue) \in Nat
      /\ DOMAIN accepted = 1 .. Len(accepted)
  BY DEF ChIInv, ItemsTypeOK
<1>3. IsInjective(accepted)
  BY <1>2 DEF ChIInv, Numbered, IsInjective
<1> HIDE DEF taken
<1>4. CASE chan = "open"
  <2>1. /\ taken \o data_queue \in Seq(Nat)
        /\ Len(taken \o data_queue) = Len(taken) + Len(data_queue)
        /\ \A i \in 1 .. Len(taken) + Len(data_queue) :
             (taken \o data_queue)[i] =
               IF i <= Len(taken) THEN taken[i] ELSE data_queue[i - Len(taken)]
    BY <1>1, <1>2, ConcatOfNats
  <2>2. Len(accepted) = Len(taken) + Len(data_queue)
    BY <1>1, <1>4 DEF ChIInv, Flow
  <2>3. ASSUME NEW i \in 1 .. Len(accepted)
        PROVE  accepted[i] = (taken \o data_queue)[i]
    <3>1. CASE i <= Len(taken)
      BY <1>1, <1>2, <2>1, <2>2, <3>1 DEF ChIInv, Flow
    <3>2. CASE i > Len(taken)
      <4>1. /\ i - Len(taken) \in 1 .. Len(data_queue)
            /\ Len(received) + (i - Len(taken)) = i
        BY <1>1, <1>2, <2>2, <3>2
      <4> QED
        <5>1. (taken \o data_queue)[i] = data_queue[i - Len(taken)]
          BY <1>1, <1>2, <2>1, <2>2, <3>2
        <5>2. data_queue[i - Len(taken)] = accepted[Len(received) + (i - Len(taken))]
          BY <1>4, <4>1 DEF ChIInv, Flow
        <5> QED
          BY <4>1, <5>1, <5>2
    <3> QED
      <4>1. i <= Len(taken) \/ i > Len(taken)
        BY <1>1, <1>2
      <4> QED
        BY <3>1, <3>2, <4>1
  <2>4. accepted = taken \o data_queue
    BY <1>2, <2>1, <2>2, <2>3, SeqEqual
  <2> QED
    BY <1>3, <1>4, <2>4 DEF ItemsConserved, taken
<1>5. CASE chan # "open"
  <2>1. Len(taken) <= Len(accepted)
    BY <1>1 DEF ChIInv, Flow
  <2>2. SubSeq(taken, 1, Len(taken)) = SubSeq(accepted, 1, Len(taken))
    <3>1. /\ SubSeq(taken, 1, Len(taken)) = [i \in 1 .. Len(taken) |-> taken[i]]
          /\ SubSeq(accepted, 1, Len(taken)) = [i \in 1 .. Len(taken) |-> accepted[i]]
      BY <1>1, <1>2, <2>1
    <3>2. \A i \in 1 .. Len(taken) : taken[i] = accepted[i]
      BY <1>1 DEF ChIInv, Flow
    <3> QED
      BY <3>1, <3>2
  <2>3. IsPrefix(taken, accepted)
    BY <2>1, <2>2 DEF IsPrefix
  <2> QED
    BY <1>3, <1>5, <2>3 DEF ItemsConserved, taken
<1> QED
  BY <1>4, <1>5

\* Putting an item into an open channel keeps the order.
LEMMA PutKeepsFlow ==
  ASSUME ItemsTypeOK, Flow, chan = "open", chan' = chan, NEW item \in Nat, put(item)
  PROVE  /\ data_queue' \in Seq(Nat) /\ accepted' \in Seq(Nat) /\ received' = received
         /\ Len(accepted') = Len(accepted) + 1
         /\ \A i \in 1 .. Len(accepted) : accepted'[i] = accepted[i]
         /\ accepted'[Len(accepted) + 1] = item
         /\ Flow'
<1>1. /\ accepted' = Append(accepted, item) /\ data_queue' = Append(data_queue, item)
      /\ received' = received
  BY DEF put
<1>2. /\ Len(accepted) \in Nat /\ Len(data_queue) \in Nat /\ Len(received) \in Nat
      /\ accepted \in Seq(Nat) /\ data_queue \in Seq(Nat)
  BY DEF ItemsTypeOK
<1>a. /\ Len(accepted) = Len(received) + Len(data_queue)
      /\ \A i \in 1 .. Len(data_queue) : data_queue[i] = accepted[Len(received) + i]
  BY DEF Flow
<1>3. /\ accepted' \in Seq(Nat) /\ Len(accepted') = Len(accepted) + 1
      /\ \A i \in 1 .. Len(accepted) : accepted'[i] = accepted[i]
      /\ accepted'[Len(accepted) + 1] = item
  BY <1>1, <1>2, AppendProperties
<1>4. /\ data_queue' \in Seq(Nat) /\ Len(data_queue') = Len(data_queue) + 1
      /\ \A i \in 1 .. Len(data_queue) : data_queue'[i] = data_queue[i]
      /\ data_queue'[Len(data_queue) + 1] = item
  BY <1>1, <1>2, AppendProperties
<1>5. Flow'
  <2>1. \A i \in 1 .. Len(received') : received'[i][2] = accepted'[i]
    BY <1>1, <1>2, <1>3 DEF Flow
  <2>2. /\ Len(received') <= Len(accepted')
        /\ Len(accepted') = Len(received') + Len(data_queue')
    BY <1>1, <1>2, <1>3, <1>4 DEF Flow
  <2>3. ASSUME NEW i \in 1 .. Len(data_queue')
        PROVE  data_queue'[i] = accepted'[Len(received') + i]
    <3>1. CASE i = Len(data_queue) + 1
      <4>1. Len(received') + i = Len(accepted) + 1
        BY <1>1, <1>2, <1>a, <3>1
      <4> QED
        BY <1>3, <1>4, <3>1, <4>1
    <3>2. CASE i # Len(data_queue) + 1
      <4>1. i \in 1 .. Len(data_queue)
        BY <1>2, <1>4, <3>2
      <4>2. Len(accepted) = Len(received) + Len(data_queue)
        BY <1>a
      <4>3. Len(received) + i \in 1 .. Len(accepted)
        BY <1>2, <4>1, <4>2
      <4> QED
        BY <1>1, <1>3, <1>4, <1>a, <4>1, <4>3
    <3> QED
      BY <3>1, <3>2
  <2> QED
    BY <2>1, <2>2, <2>3 DEF Flow
<1> QED
  BY <1>1, <1>3, <1>4, <1>5

\* Taking the first item keeps the order.
LEMMA TakeKeepsFlow ==
  ASSUME ItemsTypeOK, Flow, chan = "open", chan' = chan, data_queue # <<>>,
         NEW n \in Nat, take(n)
  PROVE  /\ data_queue' \in Seq(Nat) /\ received' \in Seq(Nat \X Nat)
         /\ accepted' = accepted
         /\ Flow'
<1> DEFINE head == data_queue[1]
           item == <<n, head>>
<1>1. /\ received' = Append(received, <<n, Head(data_queue)>>)
      /\ data_queue' = Tail(data_queue)
      /\ accepted' = accepted
  BY DEF take
<1>2. /\ received \in Seq(Nat \X Nat) /\ data_queue \in Seq(Nat) /\ Len(data_queue) > 0
      /\ Head(data_queue) = head /\ head \in Nat
  BY DEF ItemsTypeOK
<1>3. Len(accepted) \in Nat /\ Len(data_queue) \in Nat /\ Len(received) \in Nat
  BY DEF ItemsTypeOK
<1>4. /\ data_queue' \in Seq(Nat) /\ Len(data_queue') = Len(data_queue) - 1
      /\ \A i \in 1 .. Len(data_queue) - 1 : data_queue'[i] = data_queue[i + 1]
  BY <1>1, <1>2, HeadTailProperties
<1>5. received' \in Seq(Nat \X Nat)
  BY <1>1, <1>2, AppendProperties
<1>6. /\ Len(received') = Len(received) + 1
      /\ \A i \in 1 .. Len(received) : received'[i] = received[i]
      /\ received'[Len(received) + 1][2] = head
  <2>1. /\ Len(received') = Len(received) + 1
        /\ \A i \in 1 .. Len(received) : received'[i] = received[i]
        /\ received'[Len(received) + 1] = item
    BY <1>1, <1>2, AppendProperties
  <2> QED
    BY <2>1
<1>7. /\ \A i \in 1 .. Len(received) : received[i][2] = accepted[i]
      /\ Len(accepted) = Len(received) + Len(data_queue)
      /\ \A i \in 1 .. Len(data_queue) : data_queue[i] = accepted[Len(received) + i]
  BY DEF Flow
<1>8. head = accepted[Len(received) + 1]
  BY <1>2, <1>3, <1>7
<1> HIDE DEF head, item
<1>9. \A i \in 1 .. Len(received') : received'[i][2] = accepted'[i]
  <2> SUFFICES ASSUME NEW i \in 1 .. Len(received') PROVE received'[i][2] = accepted[i]
    BY <1>1
  <2>1. i \in 1 .. Len(received) \/ i = Len(received) + 1
    BY <1>3, <1>6
  <2>2. CASE i = Len(received) + 1
    BY <1>6, <1>8, <2>2
  <2>3. CASE i \in 1 .. Len(received)
    BY <1>6, <1>7, <2>3
  <2> QED
    BY <2>1, <2>2, <2>3
<1>10. Len(accepted) = Len(received') + Len(data_queue') /\ Len(received') <= Len(accepted)
  <2>1. Len(data_queue) > 0 /\ Len(data_queue') = Len(data_queue) - 1
    BY <1>2, <1>4
  <2>2. Len(received') = Len(received) + 1 /\ Len(accepted) = Len(received) + Len(data_queue)
    BY <1>6, <1>7
  <2> QED
    BY <1>3, <2>1, <2>2
<1>11. ASSUME NEW i \in 1 .. Len(data_queue')
       PROVE  data_queue'[i] = accepted[Len(received') + i]
  <2>1. Len(received') = Len(received) + 1 /\ i \in 1 .. Len(data_queue) - 1
    BY <1>4, <1>6
  <2>2. i + 1 \in 1 .. Len(data_queue) /\ Len(received') + i = Len(received) + (i + 1)
    BY <1>3, <2>1
  <2>3. data_queue'[i] = data_queue[i + 1]
    BY <1>4, <2>1
  <2> QED
    BY <1>7, <2>2, <2>3
<1> QED
  BY <1>1, <1>4, <1>5, <1>9, <1>10, <1>11 DEF Flow

\* A put keeps the invariant whoever calls it, if the item is new and its push over.
LEMMA PutKeepsIInv ==
  ASSUME ChIInv, chan = "open", chan' = chan, asked' = asked, arg' = arg,
         NEW item \in Nat, put(item),
         sent' \in Nat, sent <= sent', item <= sent',
         \A i \in 1 .. Len(accepted) : accepted[i] # item,
         pc' \in [Task -> {"php", "push", "pop", "free"}],
         \A t \in Task : pc'[t] = "push" => pc[t] = "push" /\ arg[t] # item,
         \A t \in Task : pc'[t] # "free"
  PROVE  ChIInv'
<1>1. /\ data_queue' \in Seq(Nat) /\ accepted' \in Seq(Nat) /\ received' = received
      /\ Len(accepted') = Len(accepted) + 1
      /\ \A i \in 1 .. Len(accepted) : accepted'[i] = accepted[i]
      /\ accepted'[Len(accepted) + 1] = item
      /\ Flow'
  BY PutKeepsFlow DEF ChIInv
<1>2. /\ Len(accepted) \in Nat /\ sent \in Nat
      /\ \A i \in 1 .. Len(accepted) : accepted[i] \in Nat
      /\ \A t \in Task : arg[t] \in Nat
  BY DEF ChIInv, ItemsTypeOK
<1>3. ItemsTypeOK'
  BY <1>1 DEF ChIInv, ItemsTypeOK
<1>4. \A i \in 1 .. Len(accepted') : i \in 1 .. Len(accepted) \/ i = Len(accepted) + 1
  BY <1>1, <1>2
<1>5. Numbered'
  <2>1. \A i \in 1 .. Len(accepted') : accepted'[i] <= sent'
    <3>1. \A i \in 1 .. Len(accepted) : accepted'[i] \in Nat /\ accepted'[i] <= sent
      BY <1>1, <1>2 DEF ChIInv, Numbered
    <3>2. \A i \in 1 .. Len(accepted) : accepted'[i] <= sent'
      BY <1>2, <3>1
    <3>3. accepted'[Len(accepted) + 1] <= sent'
      BY <1>1
    <3> QED
      BY <1>4, <3>2, <3>3
  <2>2. ASSUME NEW i \in 1 .. Len(accepted'), NEW j \in 1 .. Len(accepted'),
               accepted'[i] = accepted'[j]
        PROVE  i = j
    <3>1. CASE i \in 1 .. Len(accepted) /\ j \in 1 .. Len(accepted)
      BY <1>1, <2>2, <3>1 DEF ChIInv, Numbered
    <3>2. CASE i = Len(accepted) + 1 /\ j \in 1 .. Len(accepted)
      BY <1>1, <2>2, <3>2
    <3>3. CASE i \in 1 .. Len(accepted) /\ j = Len(accepted) + 1
      BY <1>1, <2>2, <3>3
    <3> QED
      BY <1>4, <3>1, <3>2, <3>3
  <2> QED
    BY <2>1, <2>2 DEF Numbered
<1>6. PendingFresh'
  <2> SUFFICES ASSUME NEW t \in Task, pc'[t] = "push"
               PROVE  /\ arg'[t] <= sent'
                      /\ \A i \in 1 .. Len(accepted') : accepted'[i] # arg'[t]
                      /\ \A u \in Task : pc'[u] = "push" /\ arg'[u] = arg'[t] => u = t
    BY DEF PendingFresh
  <2>1. /\ pc[t] = "push" /\ arg'[t] = arg[t] /\ arg[t] # item /\ arg[t] <= sent
        /\ \A i \in 1 .. Len(accepted) : accepted[i] # arg[t]
        /\ \A u \in Task : pc[u] = "push" /\ arg[u] = arg[t] => u = t
    BY DEF ChIInv, PendingFresh
  <2>2. arg'[t] <= sent'
    BY <1>2, <2>1
  <2>3. \A i \in 1 .. Len(accepted') : accepted'[i] # arg'[t]
    BY <1>1, <1>4, <2>1
  <2> QED
    BY <2>1, <2>2, <2>3
<1>7. ClosedEmpty'
  BY DEF ClosedEmpty
<1> QED
  BY <1>1, <1>3, <1>5, <1>6, <1>7 DEF ChIInv

\* So does a take.
LEMMA TakeKeepsIInv ==
  ASSUME ChIInv, chan = "open", chan' = chan, asked' \in Nat, UNCHANGED <<sent, arg>>,
         data_queue # <<>>, NEW n \in Nat, take(n),
         pc' \in [Task -> {"php", "push", "pop", "free"}],
         \A t \in Task : pc'[t] = "push" => pc[t] = "push",
         \A t \in Task : pc'[t] # "free"
  PROVE  ChIInv'
<1>1. /\ data_queue' \in Seq(Nat) /\ received' \in Seq(Nat \X Nat) /\ accepted' = accepted
      /\ Flow'
  BY TakeKeepsFlow DEF ChIInv
<1>2. ItemsTypeOK'
  BY <1>1 DEF ChIInv, ItemsTypeOK
<1>3. Numbered' /\ PendingFresh' /\ ClosedEmpty'
  BY <1>1 DEF ChIInv, Numbered, PendingFresh, ClosedEmpty
<1> QED
  BY <1>1, <1>2, <1>3 DEF ChIInv

LEMMA InitChIInv == ChInit => ChIInv
<1> SUFFICES ASSUME ChInit PROVE ChIInv
  OBVIOUS
<1>1. /\ chan = "open" /\ sent = 0 /\ asked = 0
      /\ pc = [t \in Task |-> "php"] /\ arg = [t \in Task |-> 0]
      /\ data_queue = <<>> /\ accepted = <<>> /\ received = <<>>
  BY DEF ChInit
<1>2. ItemsTypeOK
  BY <1>1 DEF ItemsTypeOK
<1>3. Len(accepted) = 0 /\ Len(received) = 0 /\ Len(data_queue) = 0
  BY <1>1
<1>4. Flow /\ Numbered
  BY <1>1, <1>3 DEF Flow, Numbered
<1>5. PendingFresh /\ ClosedEmpty
  BY <1>1 DEF PendingFresh, ClosedEmpty
<1> QED
  BY <1>2, <1>4, <1>5 DEF ChIInv

\* The variables the invariant is about.
LEMMA Untouched ==
  ASSUME ChIInv, UNCHANGED <<chan, pc, arg, sent, asked, data_queue, accepted, received>>
  PROVE  ChIInv'
BY DEF ChIInv, ItemsTypeOK, Flow, Numbered, PendingFresh, ClosedEmpty

LEMMA StepChIInv == ChIInv /\ [ChNext]_allvars => ChIInv'
<1> SUFFICES ASSUME ChIInv, [ChNext]_allvars PROVE ChIInv'
  OBVIOUS
<1> USE DEF made, queues, records, calls
<1>0. /\ ItemsTypeOK
      /\ \A t \in Task : pc[t] \in {"php", "push", "pop", "free"} /\ arg[t] \in Nat
      /\ Cid \subseteq Task
  BY DEF ChIInv, ItemsTypeOK, Task
<1>1. CASE Scheduler
  BY <1>1, Untouched DEF Scheduler, chvars
<1>2. ASSUME NEW c \in Cid, PushWaits(c) PROVE ChIInv'
  <2>1. /\ chan = "open" /\ UNCHANGED <<chan, asked, data_queue, accepted, received>>
        /\ pc' = [pc EXCEPT ![c] = "push"] /\ sent' = sent + 1
        /\ arg' = [arg EXCEPT ![c] = sent + 1]
    BY <1>2 DEF PushWaits
  <2>2. /\ sent \in Nat /\ c \in Task
        /\ pc' \in [Task -> {"php", "push", "pop", "free"}] /\ arg' \in [Task -> Nat]
    BY <1>0, <2>1 DEF ItemsTypeOK
  <2>3. /\ pc'[c] = "push" /\ arg'[c] = sent + 1
        /\ \A t \in Task \ {c} : pc'[t] = pc[t] /\ arg'[t] = arg[t]
    BY <1>0, <2>1, <2>2 DEF ItemsTypeOK
  <2>4. ItemsTypeOK'
    BY <1>0, <2>1, <2>2 DEF ItemsTypeOK
  <2>5. Flow'
    BY <2>1 DEF ChIInv, Flow
  <2>6. \A i \in 1 .. Len(accepted) : accepted[i] \in Nat /\ accepted[i] <= sent
    BY <1>0 DEF ChIInv, ItemsTypeOK, Numbered
  <2>7. Numbered'
    BY <2>1, <2>2, <2>6 DEF ChIInv, Numbered
  <2>8. PendingFresh'
    <3> SUFFICES ASSUME NEW t \in Task, pc'[t] = "push"
                 PROVE  /\ arg'[t] <= sent'
                        /\ \A i \in 1 .. Len(accepted') : accepted'[i] # arg'[t]
                        /\ \A u \in Task : pc'[u] = "push" /\ arg'[u] = arg'[t] => u = t
      BY DEF PendingFresh
    <3>1. \A u \in Task \ {c} : pc'[u] = "push" => arg'[u] <= sent /\ arg'[u] \in Nat
      BY <1>0, <2>3 DEF ChIInv, PendingFresh
    <3>2. CASE t = c
      BY <2>1, <2>2, <2>3, <2>6, <3>1, <3>2
    <3>3. CASE t # c
      <4>1. arg'[t] = arg[t] /\ pc[t] = "push" /\ arg[t] <= sent
        BY <2>3, <3>3 DEF ChIInv, PendingFresh
      <4>2. \A i \in 1 .. Len(accepted') : accepted'[i] # arg'[t]
        BY <2>1, <4>1 DEF ChIInv, PendingFresh
      <4>3. ASSUME NEW u \in Task, pc'[u] = "push", arg'[u] = arg'[t] PROVE u = t
        <5>1. u # c
          BY <1>0, <2>2, <2>3, <4>1, <4>3
        <5> QED
          BY <2>3, <3>3, <4>1, <4>3, <5>1 DEF ChIInv, PendingFresh
      <4> QED
        BY <1>0, <2>1, <2>2, <4>1, <4>2, <4>3
    <3> QED
      BY <3>2, <3>3
  <2>9. ClosedEmpty'
    BY <2>1, <2>3 DEF ChIInv, ClosedEmpty
  <2> QED
    BY <2>4, <2>5, <2>7, <2>8, <2>9 DEF ChIInv
<1>3. ASSUME NEW c \in Cid, PopWaits(c) PROVE ChIInv'
  <2>1. /\ chan = "open" /\ UNCHANGED <<chan, sent, data_queue, accepted, received>>
        /\ pc' = [pc EXCEPT ![c] = "pop"] /\ asked' = asked + 1
        /\ arg' = [arg EXCEPT ![c] = asked + 1]
    BY <1>3 DEF PopWaits
  <2>2. c \in Task /\ ItemsTypeOK'
    BY <1>0, <2>1 DEF ItemsTypeOK
  <2>3. /\ pc'[c] = "pop"
        /\ \A t \in Task \ {c} : pc'[t] = pc[t] /\ arg'[t] = arg[t]
    BY <1>0, <2>1, <2>2 DEF ItemsTypeOK
  <2>4. Flow' /\ Numbered'
    BY <2>1 DEF ChIInv, Flow, Numbered
  <2>5. PendingFresh' /\ ClosedEmpty'
    BY <2>1, <2>3 DEF ChIInv, PendingFresh, ClosedEmpty
  <2> QED
    BY <2>2, <2>4, <2>5 DEF ChIInv
<1>4. ASSUME NEW c \in Cid, PushGoesOn(c) PROVE ChIInv'
  <2>1. /\ pc[c] = "push" /\ pc' = [pc EXCEPT ![c] = "php"]
        /\ UNCHANGED <<arg, chan, sent, asked>>
        /\ UNCHANGED <<data_queue, accepted, received>> \/ put(arg[c])
    BY <1>4 DEF PushGoesOn, Woken
  <2>2. c \in Task /\ chan = "open"
    BY <1>0, <2>1 DEF ChIInv, ClosedEmpty
  <2>3. /\ pc' \in [Task -> {"php", "push", "pop", "free"}] /\ pc'[c] = "php"
        /\ \A t \in Task \ {c} : pc'[t] = pc[t]
    BY <1>0, <2>1, <2>2 DEF ItemsTypeOK
  <2>4. CASE UNCHANGED <<data_queue, accepted, received>>
    <3>1. ItemsTypeOK' /\ Flow' /\ Numbered'
      BY <2>1, <2>3, <2>4 DEF ChIInv, ItemsTypeOK, Flow, Numbered
    <3>2. PendingFresh' /\ ClosedEmpty'
      BY <2>1, <2>3, <2>4 DEF ChIInv, PendingFresh, ClosedEmpty
    <3> QED
      BY <3>1, <3>2 DEF ChIInv
  <2>5. CASE put(arg[c])
    <3>1. /\ arg[c] \in Nat /\ arg[c] <= sent /\ sent' \in Nat /\ sent <= sent'
          /\ \A i \in 1 .. Len(accepted) : accepted[i] # arg[c]
      BY <1>0, <2>1, <2>2 DEF ChIInv, ItemsTypeOK, PendingFresh
    <3>2. \A t \in Task : pc'[t] = "push" => pc[t] = "push" /\ arg[t] # arg[c]
      BY <2>1, <2>2, <2>3 DEF ChIInv, PendingFresh
    <3>3. \A t \in Task : pc'[t] # "free"
      BY <2>2, <2>3 DEF ChIInv, ClosedEmpty
    <3> QED
      BY <2>1, <2>2, <2>3, <2>5, <3>1, <3>2, <3>3, PutKeepsIInv
  <2> QED
    BY <2>1, <2>4, <2>5
<1>5. ASSUME NEW c \in Cid, PopGoesOn(c) PROVE ChIInv'
  <2>1. /\ pc[c] = "pop" /\ pc' = [pc EXCEPT ![c] = "php"]
        /\ UNCHANGED <<arg, chan, sent, asked>>
        /\ \/ UNCHANGED <<data_queue, accepted, received>>
           \/ data_queue # <<>> /\ take(arg[c])
    BY <1>5 DEF PopGoesOn, Woken
  <2>2. c \in Task /\ chan = "open"
    BY <1>0, <2>1 DEF ChIInv, ClosedEmpty
  <2>3. /\ pc' \in [Task -> {"php", "push", "pop", "free"}] /\ pc'[c] = "php"
        /\ \A t \in Task \ {c} : pc'[t] = pc[t]
    BY <1>0, <2>1, <2>2 DEF ItemsTypeOK
  <2>4. CASE UNCHANGED <<data_queue, accepted, received>>
    <3>1. ItemsTypeOK' /\ Flow' /\ Numbered'
      BY <2>1, <2>3, <2>4 DEF ChIInv, ItemsTypeOK, Flow, Numbered
    <3>2. PendingFresh' /\ ClosedEmpty'
      BY <2>1, <2>3, <2>4 DEF ChIInv, PendingFresh, ClosedEmpty
    <3> QED
      BY <3>1, <3>2 DEF ChIInv
  <2>5. CASE data_queue # <<>> /\ take(arg[c])
    <3>1. arg[c] \in Nat /\ asked' \in Nat
      BY <1>0, <2>1, <2>2 DEF ItemsTypeOK
    <3>2. \A t \in Task : pc'[t] = "push" => pc[t] = "push"
      BY <2>2, <2>3
    <3>3. \A t \in Task : pc'[t] # "free"
      BY <2>2, <2>3 DEF ChIInv, ClosedEmpty
    <3> QED
      BY <2>1, <2>2, <2>3, <2>5, <3>1, <3>2, <3>3, TakeKeepsIInv
  <2> QED
    BY <2>1, <2>4, <2>5
<1>6. ASSUME NEW t \in Task, PushNow(t) PROVE ChIInv'
  <2>1. /\ chan = "open" /\ sent' = sent + 1 /\ put(sent + 1)
        /\ UNCHANGED <<pc, arg, chan, asked>>
    BY <1>6 DEF PushNow
  <2>2. sent \in Nat /\ \A i \in 1 .. Len(accepted) : accepted[i] \in Nat
    BY <1>0 DEF ItemsTypeOK
  <2>3. /\ sent + 1 \in Nat /\ sent' \in Nat /\ sent <= sent' /\ sent + 1 <= sent'
        /\ \A i \in 1 .. Len(accepted) : accepted[i] # sent + 1
    BY <2>1, <2>2 DEF ChIInv, Numbered
  <2>4. /\ pc' \in [Task -> {"php", "push", "pop", "free"}]
        /\ \A u \in Task : pc'[u] = "push" => pc[u] = "push" /\ arg[u] # sent + 1
    BY <1>0, <2>1, <2>2 DEF ChIInv, ItemsTypeOK, PendingFresh
  <2>5. \A u \in Task : pc'[u] # "free"
    BY <2>1 DEF ChIInv, ClosedEmpty
  <2> QED
    BY <2>1, <2>3, <2>4, <2>5, PutKeepsIInv
<1>7. ASSUME NEW t \in Task, PopNow(t) PROVE ChIInv'
  <2>1. /\ chan = "open" /\ data_queue # <<>> /\ asked' = asked + 1 /\ take(asked + 1)
        /\ UNCHANGED <<pc, arg, chan, sent>>
    BY <1>7 DEF PopNow
  <2>2. /\ asked + 1 \in Nat /\ asked' \in Nat
        /\ pc' \in [Task -> {"php", "push", "pop", "free"}]
    BY <1>0, <2>1 DEF ItemsTypeOK
  <2>3. \A u \in Task : pc'[u] # "free"
    BY <2>1 DEF ChIInv, ClosedEmpty
  <2> QED
    BY <2>1, <2>2, <2>3, TakeKeepsIInv
<1>8. ASSUME NEW t \in Task, Close(t) PROVE ChIInv'
  <2>1. /\ \A u \in Task : pc[u] = "php"
        /\ chan' = "closing" /\ pc' = [pc EXCEPT ![t] = "free"] /\ data_queue' = <<>>
        /\ UNCHANGED <<arg, sent, asked, accepted, received>>
    BY <1>8 DEF Close
  <2>2. ItemsTypeOK'
    BY <1>0, <2>1 DEF ItemsTypeOK
  <2>3. \A u \in Task : pc'[u] \in {"php", "free"}
    BY <1>0, <2>1 DEF ItemsTypeOK
  <2>4. Flow' /\ Numbered'
    BY <2>1 DEF ChIInv, Flow, Numbered
  <2>5. PendingFresh' /\ ClosedEmpty'
    BY <2>1, <2>3 DEF PendingFresh, ClosedEmpty
  <2> QED
    BY <2>2, <2>4, <2>5 DEF ChIInv
<1>9. ASSUME NEW t \in Task, CloseStep(t) PROVE ChIInv'
  <2>1. /\ pc[t] = "free"
        /\ UNCHANGED <<data_queue, arg, sent, asked, accepted, received>>
        /\ \/ UNCHANGED <<pc, chan>>
           \/ chan' = "freed" /\ pc' = [pc EXCEPT ![t] = "php"]
    BY <1>9 DEF CloseStep, Woken
  <2>2. CASE UNCHANGED <<pc, chan>>
    BY <2>1, <2>2, Untouched
  <2>3. CASE chan' = "freed" /\ pc' = [pc EXCEPT ![t] = "php"]
    <3>1. chan # "open" /\ \A u \in Task : pc[u] \notin {"push", "pop"}
      BY <2>1 DEF ChIInv, ClosedEmpty
    <3>2. ItemsTypeOK' /\ \A u \in Task : pc'[u] = pc[u] \/ pc'[u] = "php"
      BY <1>0, <2>1, <2>3 DEF ItemsTypeOK
    <3>3. Flow' /\ Numbered'
      BY <2>1, <2>3 DEF ChIInv, Flow, Numbered
    <3>4. PendingFresh' /\ ClosedEmpty'
      BY <2>3, <3>1, <3>2 DEF PendingFresh, ClosedEmpty
    <3> QED
      BY <3>2, <3>3, <3>4 DEF ChIInv
  <2> QED
    BY <2>1, <2>2, <2>3
<1>10. ASSUME NEW w \in WctId, sleep_timeout(w) PROVE ChIInv'
  BY <1>10, Untouched DEF sleep_timeout
<1>11. CASE UNCHANGED allvars
  BY <1>11, Untouched DEF allvars, chvars
<1> QED
  BY <1>1, <1>2, <1>3, <1>4, <1>5, <1>6, <1>7, <1>8, <1>9, <1>10, <1>11 DEF ChNext

THEOREM SpecChIInv == ChSpec => []ChIInv
BY InitChIInv, StepChIInv, PTL DEF ChSpec

(***************************************************************************)
(* wmChannel_push and wmChannel_pop: whatever coroutines push, pop, wait,  *)
(* time out and wake each other, an item that was accepted is returned by  *)
(* one pop at most, in the order in which items were accepted.             *)
(***************************************************************************)
THEOREM NothingLost == ChSpec => []ItemsConserved
BY SpecChIInv, FlowConserves, PTL

-----------------------------------------------------------------------------
(***************************************************************************)
(* The scheduler under the channel: what the steps of the channel do to    *)
(* the variables of Coroutine is what its own actions do, so that they     *)
(* keep the invariant of the scheduler.                                    *)
(***************************************************************************)
RecordsTypeOK ==
  /\ capacity \in Nat \ {0} /\ timeouts \in BOOLEAN
  /\ producer_queue \in Seq(Cid) /\ consumer_queue \in Seq(Cid)
  /\ wct \in [WctId -> Wct] /\ my_wct \in [Cid -> WctId \cup {None}]

\* A record that is armed is that of a coroutine.
LEMMA ArmedIsWct ==
  ASSUME RecordsTypeOK, NEW w \in WctId
  PROVE  /\ wct[w].type \in BOOLEAN
         /\ wct[w].type => wct[w] # Freed /\ wct[w].co \in Cid
<1>1. wct[w] \in Wct
  BY DEF RecordsTypeOK
<1>2. CASE wct[w] = Freed
  BY <1>2 DEF Freed
<1>3. CASE wct[w] \in [co : Cid, type : BOOLEAN]
  <2>1. wct[w].co \in Cid /\ wct[w].type \in BOOLEAN
    BY <1>3
  <2>2. wct[w] # Freed
    <3>1. Freed.co = Main
      BY DEF Freed
    <3> QED BY <2>1, <3>1, Tasks
  <2> QED BY <2>1, <2>2
<1> QED BY <1>1, <1>2, <1>3 DEF Wct

\* A coroutine is resumed, or nobody is.
Entered == \E d \in Cid : Resume(d) /\ SleepsTypeOK'

LEMMA ResumeEnters ==
  ASSUME TypeOK, NEW d, resume(d)
  PROVE  Entered \/ UNCHANGED vars
<1>1. ASSUME NEW e \in Cid, resume_live(e) PROVE Entered \/ UNCHANGED vars
  BY <1>1 DEF resume_live, Entered, sleeps, TypeOK, SleepsTypeOK
<1> QED BY <1>1 DEF resume, TypeOK

LEMMA NotifyEnters ==
  ASSUME TypeOK, NEW q, notify(q)
  PROVE  Entered \/ UNCHANGED vars
<1>1. CASE q = <<>>
  BY <1>1 DEF notify
<1>2. CASE resume(Head(q))
  BY <1>2, ResumeEnters
<1> QED BY <1>1, <1>2 DEF notify

LEMMA RestType == ASSUME NEW q \in Seq(Cid) PROVE rest(q) \in Seq(Cid)
<1>1. CASE q = <<>>
  BY <1>1 DEF rest
<1>2. CASE q # <<>>
  BY <1>2, HeadTailProperties DEF rest
<1> QED BY <1>1, <1>2

LEMMA PutMoves ==
  ASSUME TypeOK, RecordsTypeOK, NEW item, put(item)
  PROVE  /\ Entered \/ UNCHANGED vars
         /\ producer_queue' \in Seq(Cid) /\ consumer_queue' \in Seq(Cid)
<1>1. notify(consumer_queue) /\ consumer_queue' = rest(consumer_queue)
      /\ producer_queue' = producer_queue
  BY DEF put
<1> QED BY <1>1, NotifyEnters, RestType DEF RecordsTypeOK

LEMMA TakeMoves ==
  ASSUME TypeOK, RecordsTypeOK, NEW n, take(n)
  PROVE  /\ Entered \/ UNCHANGED vars
         /\ producer_queue' \in Seq(Cid) /\ consumer_queue' \in Seq(Cid)
<1>1. notify(producer_queue) /\ producer_queue' = rest(producer_queue)
      /\ consumer_queue' = consumer_queue
  BY DEF take
<1> QED BY <1>1, NotifyEnters, RestType DEF RecordsTypeOK

\* The steps of the scheduler that the channel takes.
Moves ==
  \/ Create
  \/ \E c \in Cid : UserYield(c) \/ BodyReturns(c) \/ MainFuncEnds(c) \/ close_coro(c)
  \/ Entered
  \/ UNCHANGED vars

LEMMA ChannelMoves ==
  ASSUME TypeOK, RecordsTypeOK, [ChNext]_allvars
  PROVE  Moves
<1> USE DEF Moves
<1>1. CASE Scheduler
  BY <1>1 DEF Scheduler, UserResume, cut_short, Entered, TypeOK, SleepsTypeOK
<1>2. ASSUME NEW c \in Cid, PushWaits(c) \/ PopWaits(c) PROVE Moves
  BY <1>2 DEF PushWaits, PopWaits, Block, UserYield
<1>3. ASSUME NEW c \in Cid, PushGoesOn(c) PROVE Moves
  BY <1>3, PutMoves DEF PushGoesOn
<1>4. ASSUME NEW c \in Cid, PopGoesOn(c) PROVE Moves
  BY <1>4, TakeMoves DEF PopGoesOn
<1>5. ASSUME NEW t \in Task, PushNow(t) PROVE Moves
  BY <1>5, PutMoves DEF PushNow
<1>6. ASSUME NEW t \in Task, PopNow(t) PROVE Moves
  BY <1>6, TakeMoves DEF PopNow
<1>7. ASSUME NEW t \in Task, Close(t) PROVE Moves
  BY <1>7 DEF Close
<1>8. ASSUME NEW t \in Task, CloseStep(t) PROVE Moves
  BY <1>8, ResumeEnters DEF CloseStep
<1>9. ASSUME NEW w \in WctId, sleep_timeout(w) PROVE Moves
  BY <1>9, ResumeEnters DEF sleep_timeout
<1>10. CASE UNCHANGED allvars
  BY <1>10 DEF allvars
<1> QED
  BY <1>1, <1>2, <1>3, <1>4, <1>5, <1>6, <1>7, <1>8, <1>9, <1>10 DEF ChNext

LEMMA MovesKeep == IInv /\ Moves => IInv'
<1> SUFFICES ASSUME IInv, Moves PROVE IInv'
  OBVIOUS
<1>1. CASE Entered
  <2>1. PICK d \in Cid : Resume(d) /\ SleepsTypeOK'
    BY <1>1 DEF Entered
  <2>2. TypeOK /\ SchedulerInv
    BY DEF IInv
  <2> QED BY <2>1, <2>2, ResumeType, ResumeInv DEF IInv
<1>2. CASE ~ Entered
  <2>1. [Next]_vars
    BY <1>2 DEF Moves, Next
  <2> QED BY <2>1, NextIInv
<1> QED BY <1>1, <1>2

LEMMA RecordsStep ==
  ASSUME IInv, RecordsTypeOK, [ChNext]_allvars
  PROVE  RecordsTypeOK'
<1> USE DEF RecordsTypeOK, made, queues, records
<1>0. TypeOK
  BY DEF IInv
<1>1. CASE Scheduler \/ UNCHANGED allvars
  BY <1>1 DEF Scheduler, chvars, allvars
<1>2. ASSUME NEW c \in Cid, Block(c)
      PROVE  wct' \in [WctId -> Wct] /\ my_wct' \in [Cid -> WctId \cup {None}]
  <2>1. CASE UNCHANGED records
    BY <2>1
  <2>2. CASE ~ UNCHANGED records
    <3>1. PICK w \in FreeWct : /\ wct' = [wct EXCEPT ![w] = [co |-> c, type |-> TRUE]]
                               /\ my_wct' = [my_wct EXCEPT ![c] = w]
      BY <1>2, <2>2 DEF Block
    <3>2. [co |-> c, type |-> TRUE] \in Wct /\ w \in WctId
      BY DEF Wct, FreeWct
    <3> QED BY <3>1, <3>2
  <2> QED BY <2>1, <2>2
<1>3. ASSUME NEW c \in Cid, PushWaits(c) \/ PopWaits(c) PROVE RecordsTypeOK'
  <2>1. Append(producer_queue, c) \in Seq(Cid) /\ Append(consumer_queue, c) \in Seq(Cid)
    BY AppendProperties
  <2> QED BY <1>2, <1>3, <2>1 DEF PushWaits, PopWaits, enqueue
<1>4. ASSUME NEW c \in Cid, disarm(c)
      PROVE  wct' \in [WctId -> Wct] /\ my_wct' \in [Cid -> WctId \cup {None}]
  <2>1. my_wct' \in [Cid -> WctId \cup {None}]
    BY <1>4 DEF disarm
  <2>2. wct' \in [WctId -> Wct]
    <3>1. CASE my_wct[c] # None /\ wct[my_wct[c]] # Freed
      <4> DEFINE w == my_wct[c]
      <4>1. w \in WctId /\ wct[w] \in [co : Cid, type : BOOLEAN]
        BY <3>1 DEF Wct
      <4>2. wct' = [wct EXCEPT ![w].type = FALSE]
        BY <1>4, <3>1 DEF disarm
      <4>3. [wct[w] EXCEPT !.type = FALSE] \in Wct
        BY <4>1 DEF Wct
      <4> HIDE DEF w
      <4> QED BY <4>1, <4>2, <4>3
    <3>2. CASE ~ (my_wct[c] # None /\ wct[my_wct[c]] # Freed)
      BY <1>4, <3>2 DEF disarm
    <3> QED BY <3>1, <3>2
  <2> QED BY <2>1, <2>2
<1>5. ASSUME NEW c \in Cid, PushGoesOn(c) PROVE RecordsTypeOK'
  BY <1>0, <1>4, <1>5, PutMoves DEF PushGoesOn
<1>6. ASSUME NEW c \in Cid, PopGoesOn(c) PROVE RecordsTypeOK'
  BY <1>0, <1>4, <1>6, TakeMoves DEF PopGoesOn
<1>7. ASSUME NEW t \in Task, PushNow(t) PROVE RecordsTypeOK'
  BY <1>0, <1>7, PutMoves DEF PushNow
<1>8. ASSUME NEW t \in Task, PopNow(t) PROVE RecordsTypeOK'
  BY <1>0, <1>8, TakeMoves DEF PopNow
<1>9. ASSUME NEW t \in Task, Close(t) PROVE RecordsTypeOK'
  BY <1>9 DEF Close
<1>10. ASSUME NEW t \in Task, CloseStep(t) PROVE RecordsTypeOK'
  <2>1. /\ consumer_queue # <<>> => Tail(consumer_queue) \in Seq(Cid)
        /\ producer_queue # <<>> => Tail(producer_queue) \in Seq(Cid)
    BY HeadTailProperties
  <2>2. /\ consumer_queue' \in Seq(Cid) /\ producer_queue' \in Seq(Cid)
        /\ UNCHANGED <<capacity, timeouts, wct, my_wct>>
    BY <1>10, <2>1 DEF CloseStep
  <2> QED BY <2>2
<1>11. ASSUME NEW w \in WctId, sleep_timeout(w) PROVE RecordsTypeOK'
  BY <1>11 DEF sleep_timeout, Wct
<1> QED
  BY <1>1, <1>3, <1>5, <1>6, <1>7, <1>8, <1>9, <1>10, <1>11 DEF ChNext

-----------------------------------------------------------------------------
(***************************************************************************)
(* Where the calls are.  A coroutine in a push or a pop has yielded, or it *)
(* has just been woken and has the CPU: nothing comes in between, since    *)
(* the next step of a coroutine in a call is to go on with it.             *)
(***************************************************************************)
InCall(f) == f \in {"push", "pop"}

CallsInv ==
  /\ ~ InCall(pc[Main])
  /\ \A c \in Cid : InCall(pc[c]) =>
       /\ phase[c] \in {"body", "defer"}
       /\ c \in user_yield_coros \/ Executing(c)

\* A record that is armed is that of the call its coroutine is in.
ArmedInCall ==
  /\ \A w \in WctId : wct[w].type => my_wct[wct[w].co] = w /\ InCall(pc[wct[w].co])
  /\ ~ timeouts => \A w \in WctId : wct[w] = Freed

LEMMA ArmedWakes ==
  ASSUME RecordsTypeOK, CallsInv, ArmedInCall PROVE TimerWakesItsCall
BY ArmedIsWct DEF CallsInv, ArmedInCall, TimerWakesItsCall, InCall

\* Nobody comes into a call.
NoneCalls == \A t \in Task : InCall(pc'[t]) => pc'[t] = pc[t]

\* The running task yields: the one that goes on is not in a call, since that one
\* would have the CPU, or have yielded.
LEMMA YieldCalls ==
  ASSUME IInv, CallsInv, NEW c \in Cid, Yield(c, "yield"),
         \A t \in Task \ {c} : pc'[t] = pc[t]
  PROVE  CallsInv'
<1>1. /\ get_task = c /\ phase[c] \in {"body", "defer"} /\ phase' = phase
      /\ user_yield_coros' = user_yield_coros \cup {c}
  BY DEF Yield, RunsPhp, Executing, body
<1>2. ASSUME NEW d \in Cid, InCall(pc'[d])
      PROVE  phase'[d] \in {"body", "defer"} /\ d \in user_yield_coros'
  <2>1. CASE d = c
    BY <1>1, <2>1
  <2>2. CASE d # c
    <3>1. InCall(pc[d])
      BY <1>2, <2>2, Tasks
    <3>2. ~ Executing(d)
      BY <1>1, <2>2 DEF Executing
    <3> QED BY <1>1, <3>1, <3>2 DEF CallsInv
  <2> QED BY <2>1, <2>2
<1>3. pc'[Main] = pc[Main]
  BY Tasks
<1> QED BY <1>2, <1>3 DEF CallsInv

\* A coroutine that is resumed has the CPU.
LEMMA ResumeCalls ==
  ASSUME IInv, CallsInv, NEW d \in Cid, Resume(d), NoneCalls, ~ InCall(pc'[get_task])
  PROVE  CallsInv'
<1>1. /\ user_yield_coros' = user_yield_coros \ {d} /\ current_task' = d /\ cpu' = d
      /\ phase' = phase
  BY DEF Resume, swap_in, body
<1>2. Executing(d)'
  BY <1>1, Tasks DEF Executing, get_task
<1>3. ASSUME NEW c \in Cid, InCall(pc'[c])
      PROVE  phase'[c] \in {"body", "defer"} /\ (c \in user_yield_coros' \/ Executing(c)')
  <2>1. InCall(pc[c]) /\ c # get_task
    BY <1>3, Tasks DEF NoneCalls
  <2>2. phase[c] \in {"body", "defer"} /\ c \in user_yield_coros
    BY <2>1 DEF CallsInv, Executing
  <2> QED BY <1>1, <1>2, <2>2
<1>4. ~ InCall(pc'[Main])
  BY Tasks DEF NoneCalls, CallsInv
<1> QED BY <1>3, <1>4 DEF CallsInv

\* Nobody moves.
LEMMA StayCalls ==
  ASSUME CallsInv, UNCHANGED vars, NoneCalls
  PROVE  CallsInv'
<1>1. UNCHANGED <<phase, user_yield_coros, cpu, current_task>>
  BY DEF vars, body, ctxs
<1> QED BY <1>1, Tasks DEF CallsInv, NoneCalls, Executing, get_task

\* The same in one.
LEMMA WakesCalls ==
  ASSUME IInv, CallsInv, Entered \/ UNCHANGED vars, NoneCalls, ~ InCall(pc'[get_task])
  PROVE  CallsInv'
BY ResumeCalls, StayCalls DEF Entered

\* A task in a coroutine's code runs nothing else: no other coroutine executes.
LEMMA SchedulerCalls ==
  ASSUME IInv, CallsInv, Scheduler
  PROVE  CallsInv'
<1>0. TypeOK /\ SchedulerInv /\ pc' = pc /\ Cid \subseteq Task
  BY Tasks DEF IInv, Scheduler, chvars
<1>1. CASE InPhp(get_task) /\ Create
  <2> DEFINE n == last_cid + 1
  <2>1. /\ n \in Cid /\ phase' = [phase EXCEPT ![n] = "body"]
        /\ current_task' = n /\ cpu' = n /\ user_yield_coros' = user_yield_coros
    BY <1>1 DEF Create, swap_in
  <2>2. phase[n] \notin {"body", "defer"}
    <3>1. n \notin coroutines
      BY <1>0 DEF SchedulerInv, LiveCids, TypeOK
    <3> QED BY <1>0, <2>1, <3>1 DEF SchedulerInv, LiveCids
  <2>3. ~ InCall(pc[get_task])
    BY <1>1 DEF InPhp, InCall
  <2> HIDE DEF n
  <2>4. ASSUME NEW c \in Cid, InCall(pc[c])
        PROVE  phase'[c] \in {"body", "defer"} /\ c \in user_yield_coros'
    <3>1. c # get_task /\ phase[c] \in {"body", "defer"} /\ c \in user_yield_coros
      BY <2>3, <2>4 DEF CallsInv, Executing
    <3> QED BY <1>0, <2>1, <2>2, <3>1 DEF TypeOK
  <2> QED BY <1>0, <2>4 DEF CallsInv
<1>2. ASSUME NEW c \in Cid, UserYield(c) PROVE CallsInv'
  BY <1>0, <1>2, YieldCalls DEF UserYield
<1>3. ASSUME NEW d \in Cid, InPhp(get_task), UserResume(d) PROVE CallsInv'
  <2>1. NoneCalls /\ ~ InCall(pc'[get_task])
    BY <1>0, <1>3 DEF NoneCalls, InPhp, InCall
  <2> QED BY <1>3, <2>1, ResumeCalls DEF UserResume
<1>4. ASSUME NEW d \in Cid, InPhp(get_task), BodyReturns(d) PROVE CallsInv'
  <2>1. /\ d = get_task /\ ~ InCall(pc[d]) /\ phase' = [phase EXCEPT ![d] = "defers"]
        /\ UNCHANGED <<user_yield_coros, current_task, cpu>>
    BY <1>4 DEF BodyReturns, Executing, InPhp, InCall, ctxs
  <2>2. \A c \in Cid : InCall(pc[c]) => phase'[c] = phase[c]
    BY <1>0, <2>1 DEF TypeOK
  <2> QED BY <1>0, <2>1, <2>2 DEF CallsInv, Executing, get_task
<1>5. ASSUME NEW d \in Cid, MainFuncEnds(d) PROVE CallsInv'
  <2>1. /\ d = get_task /\ phase[d] = "defers" /\ phase' = [phase EXCEPT ![d] = "ended"]
        /\ UNCHANGED <<user_yield_coros, current_task>>
    BY <1>5 DEF MainFuncEnds, End, Executing
  <2>2. ASSUME NEW c \in Cid, InCall(pc[c])
        PROVE  phase'[c] \in {"body", "defer"} /\ c \in user_yield_coros'
    <3>1. c # d /\ phase[c] \in {"body", "defer"} /\ c \in user_yield_coros
      BY <2>1, <2>2 DEF CallsInv, Executing
    <3> QED BY <1>0, <2>1, <3>1 DEF TypeOK
  <2> QED BY <1>0, <2>2 DEF CallsInv
<1>6. ASSUME NEW d \in Cid, close_coro(d) PROVE CallsInv'
  <2>1. /\ phase[d] = "ended" /\ phase' = [phase EXCEPT ![d] = "gone"]
        /\ user_yield_coros' = user_yield_coros \ {d} /\ get_task = d
    BY <1>0, <1>6, Tasks DEF close_coro, SchedulerInv, EndedIsCurrent, get_task
  <2>2. ASSUME NEW c \in Cid, InCall(pc[c])
        PROVE  phase'[c] \in {"body", "defer"} /\ c \in user_yield_coros'
    <3>1. c # d /\ phase[c] \in {"body", "defer"} /\ c \in user_yield_coros
      BY <2>1, <2>2 DEF CallsInv, Executing
    <3> QED BY <1>0, <2>1, <3>1 DEF TypeOK
  <2> QED BY <1>0, <2>2 DEF CallsInv
<1> QED BY <1>1, <1>2, <1>3, <1>4, <1>5, <1>6 DEF Scheduler

LEMMA CallsStep ==
  ASSUME IInv, ItemsTypeOK, RecordsTypeOK, CallsInv, [ChNext]_allvars
  PROVE  CallsInv'
<1>0. TypeOK /\ Cid \subseteq Task /\ pc = [t \in Task |-> pc[t]]
  BY Tasks DEF IInv, ItemsTypeOK
<1>1. CASE Scheduler
  BY <1>1, SchedulerCalls
<1>2. ASSUME NEW c \in Cid, PushWaits(c) \/ PopWaits(c) PROVE CallsInv'
  <2>1. Yield(c, "yield") /\ (\A t \in Task \ {c} : pc'[t] = pc[t])
    BY <1>0, <1>2 DEF PushWaits, PopWaits, Block
  <2> QED BY <2>1, YieldCalls
<1>3. ASSUME NEW c \in Cid, PushGoesOn(c) \/ PopGoesOn(c) PROVE CallsInv'
  <2>1. c = get_task /\ pc' = [pc EXCEPT ![c] = "php"] /\ (Entered \/ UNCHANGED vars)
    BY <1>0, <1>3, PutMoves, TakeMoves DEF PushGoesOn, PopGoesOn, Woken, Executing
  <2>2. NoneCalls /\ ~ InCall(pc'[get_task])
    BY <1>0, <2>1 DEF NoneCalls, InCall
  <2> QED BY <2>1, <2>2, WakesCalls
<1>4. ASSUME NEW t \in Task, PushNow(t) \/ PopNow(t) PROVE CallsInv'
  <2>1. t = get_task /\ pc[t] = "php" /\ pc' = pc /\ (Entered \/ UNCHANGED vars)
    BY <1>0, <1>4, PutMoves, TakeMoves DEF PushNow, PopNow, InPhp, RunsPhp, Executing
  <2>2. NoneCalls /\ ~ InCall(pc'[get_task])
    BY <2>1 DEF NoneCalls, InCall
  <2> QED BY <2>1, <2>2, WakesCalls
<1>5. ASSUME NEW t \in Task, Close(t) PROVE CallsInv'
  <2>1. UNCHANGED vars /\ pc' = [pc EXCEPT ![t] = "free"]
    BY <1>5 DEF Close
  <2>2. NoneCalls
    BY <1>0, <2>1 DEF NoneCalls, InCall
  <2> QED BY <2>1, <2>2, StayCalls
<1>6. ASSUME NEW t \in Task, CloseStep(t) PROVE CallsInv'
  <2>1. /\ t = get_task /\ pc[t] = "free" /\ pc' \in {pc, [pc EXCEPT ![t] = "php"]}
        /\ Entered \/ UNCHANGED vars
    BY <1>0, <1>6, ResumeEnters DEF CloseStep, Woken, Executing
  <2>2. NoneCalls /\ ~ InCall(pc'[get_task])
    BY <1>0, <2>1 DEF NoneCalls, InCall
  <2> QED BY <2>1, <2>2, WakesCalls
<1>7. ASSUME NEW w \in WctId, sleep_timeout(w) PROVE CallsInv'
  <2>1. Main = get_task /\ pc[Main] = "php" /\ pc' = pc /\ (Entered \/ UNCHANGED vars)
    BY <1>0, <1>7, ResumeEnters DEF sleep_timeout, InPhp, RunsPhp, Executing
  <2>2. NoneCalls /\ ~ InCall(pc'[get_task])
    BY <2>1 DEF NoneCalls, InCall
  <2> QED BY <2>1, <2>2, WakesCalls
<1>8. CASE UNCHANGED allvars
  BY <1>8, StayCalls DEF allvars, chvars, NoneCalls
<1> QED BY <1>1, <1>2, <1>3, <1>4, <1>5, <1>6, <1>7, <1>8 DEF ChNext

LEMMA ArmedStep ==
  ASSUME IInv, ItemsTypeOK, RecordsTypeOK, CallsInv, ArmedInCall, [ChNext]_allvars
  PROVE  ArmedInCall'
<1> USE DEF made, queues, records
<1>0. /\ TypeOK /\ Cid \subseteq Task /\ pc = [t \in Task |-> pc[t]]
      /\ wct = [w \in WctId |-> wct[w]] /\ my_wct = [c \in Cid |-> my_wct[c]]
      /\ \A w \in WctId : wct[w].type => wct[w].co \in Cid
      /\ Freed.type = FALSE
  BY Tasks, ArmedIsWct DEF IInv, ItemsTypeOK, RecordsTypeOK, Freed
<1>1. ASSUME UNCHANGED <<timeouts, wct, my_wct>>,
             \A c \in Cid : InCall(pc[c]) => InCall(pc'[c])
      PROVE  ArmedInCall'
  BY <1>0, <1>1 DEF ArmedInCall
<1>2. CASE Scheduler \/ UNCHANGED allvars
  <2>1. UNCHANGED <<timeouts, wct, my_wct, pc>>
    BY <1>2 DEF Scheduler, chvars, allvars
  <2> QED BY <1>1, <2>1
<1>3. ASSUME NEW c \in Cid, PushWaits(c) \/ PopWaits(c) PROVE ArmedInCall'
  <2>1. /\ pc[c] = "php" /\ timeouts' = timeouts /\ InCall(pc'[c])
        /\ \A d \in Cid \ {c} : pc'[d] = pc[d]
    BY <1>0, <1>3 DEF PushWaits, PopWaits, InPhp, InCall
  <2>2. \A w \in WctId : wct[w].type => wct[w].co # c
    BY <2>1 DEF ArmedInCall, InCall
  <2>3. CASE UNCHANGED records
    BY <1>0, <1>1, <2>1, <2>2, <2>3 DEF ArmedInCall
  <2>4. CASE ~ UNCHANGED records
    <3>1. PICK x \in FreeWct : /\ timeouts
                               /\ wct' = [wct EXCEPT ![x] = [co |-> c, type |-> TRUE]]
                               /\ my_wct' = [my_wct EXCEPT ![c] = x]
      BY <1>3, <2>4 DEF PushWaits, PopWaits, Block
    <3>2. x \in WctId /\ wct'[x].co = c /\ my_wct'[c] = x
      BY <1>0, <3>1 DEF FreeWct
    <3>3. ASSUME NEW w \in WctId, wct'[w].type
          PROVE  my_wct'[wct'[w].co] = w /\ InCall(pc'[wct'[w].co])
      <4>1. CASE w = x
        BY <2>1, <3>2, <4>1
      <4>2. CASE w # x
        <5>1. wct'[w] = wct[w] /\ wct[w].co # c /\ wct[w].co \in Cid
          BY <1>0, <2>2, <3>1, <3>3, <4>2
        <5>2. my_wct'[wct[w].co] = my_wct[wct[w].co]
          BY <1>0, <3>1, <5>1
        <5> QED BY <2>1, <3>3, <5>1, <5>2 DEF ArmedInCall
      <4> QED BY <4>1, <4>2
    <3> QED BY <2>1, <3>1, <3>3 DEF ArmedInCall
  <2> QED BY <2>3, <2>4
<1>4. ASSUME NEW c \in Cid, PushGoesOn(c) \/ PopGoesOn(c) PROVE ArmedInCall'
  <2>1. /\ disarm(c) /\ pc' = [pc EXCEPT ![c] = "php"] /\ timeouts' = timeouts
    BY <1>4 DEF PushGoesOn, PopGoesOn
  <2>2. /\ \A d \in Cid \ {c} : pc'[d] = pc[d] /\ my_wct'[d] = my_wct[d]
    BY <1>0, <2>1 DEF disarm
  <2>3. ASSUME NEW w \in WctId
        PROVE  \/ wct'[w] = wct[w] /\ (wct[w].type => wct[w].co # c)
               \/ wct'[w].type = FALSE /\ wct[w] # Freed
    <3>1. CASE my_wct[c] # None /\ wct[my_wct[c]] # Freed
      <4>1. wct' = [wct EXCEPT ![my_wct[c]].type = FALSE]
        BY <2>1, <3>1 DEF disarm
      <4>2. CASE w = my_wct[c]
        <5>1. wct[w] \in [co : Cid, type : BOOLEAN]
          BY <3>1, <4>2 DEF RecordsTypeOK, Wct
        <5>2. wct'[w] = [wct[w] EXCEPT !.type = FALSE]
          BY <1>0, <4>1, <4>2
        <5>3. wct'[w].type = FALSE
          BY <5>1, <5>2
        <5> QED BY <3>1, <4>2, <5>3
      <4>3. CASE w # my_wct[c]
        <5>1. wct'[w] = wct[w]
          BY <1>0, <4>1, <4>3
        <5> QED BY <4>3, <5>1 DEF ArmedInCall
      <4> QED BY <4>2, <4>3
    <3>2. CASE ~ (my_wct[c] # None /\ wct[my_wct[c]] # Freed)
      <4>1. wct' = wct
        BY <2>1, <3>2 DEF disarm
      <4>2. ASSUME wct[w].type PROVE wct[w].co # c
        <5>1. w # None /\ wct[w] # Freed
          BY <4>2, ArmedIsWct DEF WctId, None
        <5> QED BY <3>2, <4>2, <5>1 DEF ArmedInCall
      <4> QED BY <4>1, <4>2
    <3> QED BY <3>1, <3>2
  <2>4. ASSUME NEW w \in WctId, wct'[w].type
        PROVE  my_wct'[wct'[w].co] = w /\ InCall(pc'[wct'[w].co])
    <3>1. wct'[w] = wct[w] /\ wct[w].type /\ wct[w].co \in Cid \ {c}
      BY <1>0, <2>3, <2>4
    <3>2. my_wct[wct[w].co] = w /\ InCall(pc[wct[w].co])
      BY <3>1 DEF ArmedInCall
    <3> QED BY <2>2, <3>1, <3>2
  <2>5. ~ timeouts => \A w \in WctId : wct'[w] = Freed
    BY <2>3 DEF ArmedInCall
  <2> QED BY <2>1, <2>4, <2>5 DEF ArmedInCall
<1>5. ASSUME NEW t \in Task, PushNow(t) \/ PopNow(t) PROVE ArmedInCall'
  BY <1>1, <1>5 DEF PushNow, PopNow
<1>6. ASSUME NEW t \in Task, Close(t) PROVE ArmedInCall'
  <2>1. \A u \in Task : ~ InCall(pc[u])
    BY <1>6 DEF Close, InCall
  <2> QED BY <1>0, <1>1, <1>6, <2>1 DEF Close
<1>7. ASSUME NEW t \in Task, CloseStep(t) PROVE ArmedInCall'
  <2>1. /\ pc[t] = "free" /\ pc' \in {pc, [pc EXCEPT ![t] = "php"]}
        /\ UNCHANGED <<timeouts, wct, my_wct>>
    BY <1>7 DEF CloseStep, Woken
  <2>2. \A c \in Cid : InCall(pc[c]) => pc'[c] = pc[c]
    BY <1>0, <2>1 DEF InCall
  <2> QED BY <1>1, <2>1, <2>2
<1>8. ASSUME NEW x \in WctId, sleep_timeout(x) PROVE ArmedInCall'
  <2>1. wct' = [wct EXCEPT ![x] = Freed] /\ UNCHANGED <<timeouts, my_wct, pc>>
    BY <1>8 DEF sleep_timeout
  <2>2. \A w \in WctId : wct'[w] = Freed \/ wct'[w] = wct[w]
    BY <1>0, <2>1
  <2> QED BY <1>0, <2>1, <2>2 DEF ArmedInCall
<1> QED BY <1>2, <1>3, <1>4, <1>5, <1>6, <1>7, <1>8 DEF ChNext

\* What the channel rests on, whoever passes timeouts.
BaseInv == IInv /\ ChIInv /\ RecordsTypeOK /\ CallsInv /\ ArmedInCall

LEMMA BaseInit == ChInit => BaseInv
<1> SUFFICES ASSUME ChInit PROVE BaseInv
  OBVIOUS
<1>1. IInv /\ ChIInv
  BY InitIInv, InitChIInv DEF ChInit
<1>2. RecordsTypeOK
  BY ChannelAssumption DEF ChInit, RecordsTypeOK, Wct
<1>3. CallsInv
  BY Tasks DEF ChInit, CallsInv, InCall
<1>4. ArmedInCall
  BY DEF ChInit, ArmedInCall, Freed
<1> QED BY <1>1, <1>2, <1>3, <1>4 DEF BaseInv

LEMMA BaseStep == BaseInv /\ [ChNext]_allvars => BaseInv'
<1> SUFFICES ASSUME BaseInv, [ChNext]_allvars PROVE BaseInv'
  OBVIOUS
<1>1. /\ IInv /\ TypeOK /\ ChIInv /\ ItemsTypeOK /\ RecordsTypeOK /\ CallsInv /\ ArmedInCall
  BY DEF BaseInv, IInv, ChIInv
<1>2. IInv'
  BY <1>1, ChannelMoves, MovesKeep
<1>3. ChIInv' /\ RecordsTypeOK' /\ CallsInv' /\ ArmedInCall'
  BY <1>1, StepChIInv, RecordsStep, CallsStep, ArmedStep
<1> QED BY <1>2, <1>3 DEF BaseInv

THEOREM SpecBaseInv == ChSpec => []BaseInv
BY BaseInit, BaseStep, PTL DEF ChSpec

\* sleep_timeout in src/src/coroutine/channel.c: however timers, wakeups and closes race, a
\* timer that will resume a coroutine finds it in the call that armed it.
THEOREM TimersMeetTheirCalls == ChSpec => []TimerWakesItsCall
<1>1. BaseInv => TimerWakesItsCall
  BY ArmedWakes DEF BaseInv
<1> QED BY <1>1, SpecBaseInv, PTL

-----------------------------------------------------------------------------
(***************************************************************************)
(* The queues.  Those who wait in W stand in line q, each once, and their  *)
(* numbers are b + 1, b + 2 and so on.                                     *)
(***************************************************************************)
InLine(q, W, a, b) ==
  /\ q \in Seq(Cid)
  /\ \A i \in 1 .. Len(q) : q[i] \in W /\ a[q[i]] = b + i
  /\ \A c \in W : \E i \in 1 .. Len(q) : q[i] = c

LEMMA LineEmpty ==
  ASSUME NEW q, NEW W, NEW a, NEW b, InLine(q, W, a, b)
  PROVE  /\ q = <<>> <=> W = {}
         /\ q = <<>> <=> Len(q) = 0
         /\ Len(q) \in Nat
<1>1. q \in Seq(Cid)
  BY DEF InLine
<1>2. (q = <<>> <=> Len(q) = 0) /\ Len(q) \in Nat
  BY <1>1, EmptySeq
<1>3. ASSUME Len(q) = 0 PROVE W = {}
  BY <1>3 DEF InLine
<1>4. ASSUME Len(q) # 0 PROVE W # {}
  <2>1. 1 \in 1 .. Len(q)
    BY <1>2, <1>4
  <2> QED BY <2>1 DEF InLine
<1> QED BY <1>2, <1>3, <1>4

LEMMA LineAppend ==
  ASSUME NEW q, NEW W, NEW a, NEW b \in Nat, InLine(q, W, a, b),
         NEW c \in Cid, c \notin W,
         NEW a2, a2[c] = b + Len(q) + 1, \A d \in W : a2[d] = a[d]
  PROVE  InLine(Append(q, c), W \cup {c}, a2, b) /\ Len(Append(q, c)) = Len(q) + 1
<1> DEFINE p == Append(q, c)
           n == Len(q)
<1>1. /\ q \in Seq(Cid) /\ n \in Nat
      /\ \A i \in 1 .. n : q[i] \in W /\ a[q[i]] = b + i
      /\ \A d \in W : \E i \in 1 .. n : q[i] = d
  BY DEF InLine
<1>2. p \in Seq(Cid) /\ Len(p) = n + 1 /\ p[n + 1] = c /\ \A i \in 1 .. n : p[i] = q[i]
  BY <1>1, AppendProperties
<1> HIDE DEF p, n
<1>3. ASSUME NEW i \in 1 .. Len(p) PROVE p[i] \in W \cup {c} /\ a2[p[i]] = b + i
  <2>1. i \in 1 .. n \/ i = n + 1
    BY <1>1, <1>2
  <2>2. CASE i \in 1 .. n
    BY <1>1, <1>2, <2>2
  <2>3. CASE i = n + 1
    BY <1>1, <1>2, <2>3 DEF n
  <2> QED BY <2>1, <2>2, <2>3
<1>4. ASSUME NEW d \in W \cup {c} PROVE \E i \in 1 .. Len(p) : p[i] = d
  <2>1. n + 1 \in 1 .. Len(p) /\ 1 .. n \subseteq 1 .. Len(p)
    BY <1>1, <1>2
  <2> QED BY <1>1, <1>2, <2>1
<1>5. InLine(p, W \cup {c}, a2, b)
  BY <1>2, <1>3, <1>4 DEF InLine
<1> QED BY <1>2, <1>5 DEF p, n

LEMMA LineTail ==
  ASSUME NEW q, NEW W, NEW a, NEW b \in Nat, InLine(q, W, a, b), q # <<>>
  PROVE  /\ Head(q) \in W /\ Head(q) \in Cid /\ a[Head(q)] = b + 1
         /\ InLine(Tail(q), W \ {Head(q)}, a, b + 1)
         /\ Len(Tail(q)) = Len(q) - 1
<1> DEFINE p == Tail(q)
           n == Len(q)
           h == Head(q)
<1>1. /\ q \in Seq(Cid) /\ n \in Nat /\ n # 0
      /\ \A i \in 1 .. n : q[i] \in W /\ a[q[i]] = b + i
      /\ \A d \in W : \E i \in 1 .. n : q[i] = d
  BY EmptySeq DEF InLine
<1>2. /\ p \in Seq(Cid) /\ Len(p) = n - 1 /\ h = q[1] /\ h \in Cid
      /\ \A i \in 1 .. n - 1 : p[i] = q[i + 1]
  <2>1. p \in Seq(Cid) /\ Len(p) = Len(q) - 1 /\ h \in Cid
        /\ \A i \in 1 .. Len(p) : p[i] = q[i + 1]
    BY <1>1, HeadTailProperties
  <2>2. h = q[1]
    BY <1>1
  <2> QED BY <2>1, <2>2
<1> HIDE DEF p, n, h
<1>3. h \in W /\ a[h] = b + 1
  BY <1>1, <1>2
<1>4. ASSUME NEW i \in 1 .. Len(p) PROVE p[i] \in W \ {h} /\ a[p[i]] = (b + 1) + i
  <2>1. i + 1 \in 1 .. n /\ p[i] = q[i + 1]
    BY <1>1, <1>2
  <2>2. a[p[i]] = b + (i + 1) /\ p[i] \in W
    BY <1>1, <2>1
  <2>3. p[i] # h
    BY <1>3, <2>2
  <2> QED BY <2>2, <2>3
<1>5. ASSUME NEW d \in W \ {h} PROVE \E i \in 1 .. Len(p) : p[i] = d
  <2>1. PICK i \in 1 .. n : q[i] = d
    BY <1>1
  <2>2. i # 1
    BY <1>2, <2>1
  <2>3. i - 1 \in 1 .. Len(p) /\ i - 1 \in 1 .. n - 1 /\ (i - 1) + 1 = i
    BY <1>1, <1>2, <2>2
  <2> QED BY <1>2, <2>1, <2>3
<1>6. InLine(p, W \ {h}, a, b + 1)
  BY <1>2, <1>4, <1>5 DEF InLine
<1> QED BY <1>2, <1>3, <1>6 DEF p, n, h

LEMMA LineSame ==
  ASSUME NEW q, NEW W, NEW a, NEW b, InLine(q, W, a, b), NEW a2, \A d \in W : a2[d] = a[d]
  PROVE  InLine(q, W, a2, b)
BY DEF InLine

(***************************************************************************)
(* Without timeouts.  The items are accepted in the order of the push      *)
(* calls and the pops return in that of the pop calls; a coroutine that    *)
(* has been woken, and only that one, has left its line and is not served  *)
(* yet.                                                                    *)
(***************************************************************************)
Patient == ~ timeouts /\ chan = "open" /\ ~ aborted

At == pc[get_task]
PushWoken == IF At = "push" THEN 1 ELSE 0
PopWoken  == IF At = "pop" THEN 1 ELSE 0

\* P pushes and Q pops wait, at the place At the running task is in.
Room(at, n, P, Q) ==
  /\ n <= capacity
  /\ ~ InCall(at) => (P = {} \/ n = capacity) /\ (Q = {} \/ n = 0)
  /\ at = "pop"   => n >= 1 /\ (P = {} \/ n = capacity) /\ (Q = {} \/ n = 1)
  /\ at = "push"  => n < capacity /\ (P = {} \/ n = capacity - 1) /\ (Q = {} \/ n = 0)

Pushes ==
  /\ InLine(producer_queue, Waiting("push"), arg, Len(accepted) + PushWoken)
  /\ sent = Len(accepted) + PushWoken + Len(producer_queue)
  /\ At = "push" => arg[get_task] = Len(accepted) + 1

Pops ==
  /\ InLine(consumer_queue, Waiting("pop"), arg, Len(received) + PopWoken)
  /\ asked = Len(received) + PopWoken + Len(consumer_queue)
  /\ At = "pop" => arg[get_task] = Len(received) + 1

InTurn == \A i \in 1 .. Len(accepted) : accepted[i] = i

LineInv ==
  Patient =>
    /\ Pushes
    /\ Pops
    /\ InTurn
    /\ Room(At, Len(data_queue), Waiting("push"), Waiting("pop"))

\* Nobody wakes up to find that there is nothing for it.
LEMMA LineWakes == ASSUME BaseInv, LineInv PROVE NoLostWakeup
<1> SUFFICES ASSUME Patient
             PROVE  /\ Waiting("pop") = {} \/ data_queue = <<>> \/ Woken(get_task, "pop")
                    /\ \/ Waiting("push") = {}
                       \/ Len(data_queue) = capacity
                       \/ Woken(get_task, "push")
  BY DEF NoLostWakeup, Patient
<1>1. /\ Room(At, Len(data_queue), Waiting("push"), Waiting("pop"))
      /\ Len(data_queue) \in Nat /\ (data_queue = <<>> <=> Len(data_queue) = 0)
  BY EmptySeq DEF LineInv, BaseInv, ChIInv, ItemsTypeOK
<1>2. ASSUME InCall(At) PROVE Executing(get_task)
  <2>1. get_task \in Active /\ TypeOK /\ get_task \in Task
    BY GetTask DEF BaseInv, IInv, SchedulerInv, ChainInv
  <2>2. get_task # Main
    BY <1>2 DEF BaseInv, CallsInv, At
  <2>3. get_task \in Cid /\ get_task \notin user_yield_coros
    BY <2>1, <2>2, Tasks DEF Active
  <2> QED BY <1>2, <2>3 DEF BaseInv, CallsInv, At
<1>3. CASE At = "pop"
  <2>1. Woken(get_task, "pop")
    BY <1>2, <1>3 DEF Woken, At, Patient, InCall
  <2> QED BY <1>1, <1>3, <2>1 DEF Room
<1>4. CASE At = "push"
  <2>1. Woken(get_task, "push")
    BY <1>2, <1>4 DEF Woken, At, Patient, InCall
  <2> QED BY <1>1, <1>4, <2>1 DEF Room
<1>5. CASE ~ InCall(At)
  BY <1>1, <1>5 DEF Room
<1> QED BY <1>3, <1>4, <1>5 DEF InCall

\* The waiting coroutine at the head of a line is the one that is resumed.
LEMMA HeadResumes ==
  ASSUME BaseInv, NEW d \in Cid, d \in user_yield_coros, resume(d)
  PROVE  /\ Resume(d) /\ UNCHANGED aborted
         /\ get_task' = d /\ user_yield_coros' = user_yield_coros \ {d}
<1>1. d \in coroutines /\ d # get_task
  <2>1. get_task \in Active /\ user_yield_coros \subseteq coroutines
    BY DEF BaseInv, IInv, SchedulerInv, ChainInv, LiveCids
  <2>2. d # Main
    BY Tasks
  <2> QED BY <2>1, <2>2 DEF Active
<1>2. Resume(d) /\ UNCHANGED aborted
  BY <1>1 DEF resume, resume_live
<1>3. get_task' = d /\ user_yield_coros' = user_yield_coros \ {d}
  BY <1>2, Tasks DEF Resume, get_task
<1> QED BY <1>2, <1>3

\* The task that goes on when one yields or is closed is not in a call.
LEMMA OriginNotInCall ==
  ASSUME BaseInv, NEW c \in Cid, get_task = c
  PROVE  origin[c] \in Task /\ origin[c] # c /\ ~ InCall(pc[origin[c]])
<1>1. /\ origin[c] \in Active /\ origin[c] \in Task /\ origin[c] # c
  BY TopOfChain DEF BaseInv, IInv
<1>2. CASE origin[c] = Main
  BY <1>1, <1>2 DEF BaseInv, CallsInv
<1>3. CASE origin[c] # Main
  <2>1. origin[c] \in Cid /\ origin[c] \notin user_yield_coros /\ ~ Executing(origin[c])
    BY <1>1, <1>3, Tasks DEF Active, Executing
  <2> QED BY <1>1, <2>1 DEF BaseInv, CallsInv
<1> QED BY <1>2, <1>3

\* Who waits after a step of the running task that wakes nobody, or d.
LEMMA WaitersAfter ==
  ASSUME BaseInv, NEW d, user_yield_coros' = user_yield_coros \ {d},
         \A t \in Task : t # get_task => pc'[t] = pc[t]
  PROVE  \A f : Waiting(f)' = Waiting(f) \ {d}
<1>1. user_yield_coros \subseteq Cid /\ get_task \in Active
  BY DEF BaseInv, IInv, TypeOK, SchedulerInv, ChainInv
<1>2. \A c \in user_yield_coros : c # get_task /\ pc'[c] = pc[c]
  BY <1>1, Tasks DEF Active
<1> QED BY <1>2 DEF Waiting

LEMMA LensOK ==
  ASSUME BaseInv
  PROVE  /\ Len(accepted) \in Nat /\ Len(received) \in Nat /\ Len(data_queue) \in Nat
         /\ data_queue = <<>> <=> Len(data_queue) = 0
         /\ capacity \in Nat /\ capacity >= 1 /\ sent \in Nat /\ asked \in Nat
         /\ accepted \in Seq(Nat) /\ received \in Seq(Nat \X Nat) /\ data_queue \in Seq(Nat)
<1>1. /\ accepted \in Seq(Nat) /\ received \in Seq(Nat \X Nat) /\ data_queue \in Seq(Nat)
      /\ capacity \in Nat \ {0} /\ sent \in Nat /\ asked \in Nat
  BY DEF BaseInv, ChIInv, ItemsTypeOK, RecordsTypeOK
<1> QED BY <1>1, EmptySeq

\* The head of a line is woken, and stands in it no more.
LEMMA NotifyWakes ==
  ASSUME BaseInv, NEW q, NEW f \in {"push", "pop"}, NEW b \in Nat,
         InLine(q, Waiting(f), arg, b), notify(q),
         \A t \in Task : t # get_task => pc'[t] = pc[t]
  PROVE  \/ /\ q = <<>> /\ Waiting(f) = {} /\ get_task' = get_task
            /\ \A g : Waiting(g)' = Waiting(g)
         \/ /\ q # <<>> /\ Waiting(f) # {}
            /\ pc'[get_task'] = f /\ arg[get_task'] = b + 1
            /\ InLine(Tail(q), Waiting(f)', arg, b + 1)
            /\ Len(Tail(q)) = Len(q) - 1
            /\ \A g : g # f => Waiting(g)' = Waiting(g)
<1>1. CASE q = <<>>
  <2>1. UNCHANGED vars
    BY <1>1 DEF notify
  <2>2. get_task' = get_task /\ user_yield_coros' = user_yield_coros
    BY <2>1 DEF vars, get_task
  <2>3. \A g : Waiting(g)' = Waiting(g)
    <3>1. user_yield_coros' = user_yield_coros \ {NoTask}
      BY <2>2, Tasks DEF BaseInv, IInv, TypeOK
    <3>2. \A g : Waiting(g)' = Waiting(g) \ {NoTask}
      BY <3>1, WaitersAfter
    <3>3. \A g : NoTask \notin Waiting(g)
      BY Tasks DEF Waiting, BaseInv, IInv, TypeOK
    <3> QED BY <3>2, <3>3
  <2> QED BY <1>1, <2>2, <2>3, LineEmpty
<1>2. CASE q # <<>>
  <2> DEFINE d == Head(q)
  <2>1. /\ d \in Waiting(f) /\ d \in Cid /\ arg[d] = b + 1
        /\ InLine(Tail(q), Waiting(f) \ {d}, arg, b + 1)
        /\ Len(Tail(q)) = Len(q) - 1
    BY <1>2, LineTail
  <2>2. resume(d)
    BY <1>2 DEF notify
  <2> HIDE DEF d
  <2>3. d \in user_yield_coros /\ pc[d] = f
    BY <2>1 DEF Waiting
  <2>4. get_task' = d /\ user_yield_coros' = user_yield_coros \ {d}
    BY <2>1, <2>2, <2>3, HeadResumes
  <2>5. \A g : Waiting(g)' = Waiting(g) \ {d}
    BY <2>4, WaitersAfter
  <2>6. d # get_task
    BY <2>3, Tasks DEF BaseInv, IInv, TypeOK, SchedulerInv, ChainInv, Active
  <2>7. pc'[get_task'] = f
    BY <2>1, <2>3, <2>4, <2>6, Tasks
  <2>8. \A g : g # f => d \notin Waiting(g)
    BY <2>3 DEF Waiting
  <2> QED BY <1>2, <2>1, <2>4, <2>5, <2>7, <2>8
<1> QED BY <1>1, <1>2

\* An item is put in by the one whose turn it is.
LEMMA PutLines ==
  ASSUME BaseInv, InTurn,
         InLine(producer_queue, Waiting("push"), arg, Len(accepted) + 1),
         InLine(consumer_queue, Waiting("pop"), arg, Len(received)),
         sent' = Len(accepted) + 1 + Len(producer_queue),
         asked = Len(received) + Len(consumer_queue),
         Len(data_queue) < capacity,
         Waiting("push") = {} \/ Len(data_queue) = capacity - 1,
         Waiting("pop") = {} \/ Len(data_queue) = 0,
         put(Len(accepted) + 1),
         UNCHANGED <<capacity, arg, asked>>,
         \A t \in Task : t # get_task => pc'[t] = pc[t],
         ~ InCall(pc'[get_task])
  PROVE  LineInv'
<1> DEFINE n == Len(data_queue)
           A == Len(accepted)
           R == Len(received)
<1>1. /\ data_queue' = Append(data_queue, A + 1) /\ accepted' = Append(accepted, A + 1)
      /\ notify(consumer_queue) /\ consumer_queue' = rest(consumer_queue)
      /\ producer_queue' = producer_queue /\ received' = received
  BY DEF put
<1>2. /\ A \in Nat /\ R \in Nat /\ n \in Nat /\ capacity \in Nat
      /\ Len(producer_queue) \in Nat /\ Len(consumer_queue) \in Nat
      /\ (consumer_queue = <<>> <=> Len(consumer_queue) = 0)
  BY LensOK, LineEmpty
<1>3. Len(accepted') = A + 1 /\ Len(data_queue') = n + 1 /\ Len(received') = R /\ InTurn'
  <2>1. /\ Len(accepted') = A + 1 /\ accepted'[A + 1] = A + 1
        /\ \A i \in 1 .. A : accepted'[i] = accepted[i]
        /\ Len(data_queue') = n + 1
    BY <1>1, <1>2, LensOK, AppendProperties
  <2>2. \A i \in 1 .. A + 1 : i \in 1 .. A \/ i = A + 1
    BY <1>2
  <2> HIDE DEF A, n
  <2>3. \A i \in 1 .. A + 1 : accepted'[i] = i
    BY <2>1, <2>2 DEF InTurn, A
  <2> QED BY <1>1, <2>1, <2>3 DEF InTurn, R
<1>4. \/ /\ consumer_queue = <<>> /\ Waiting("pop") = {} /\ get_task' = get_task
         /\ \A g : Waiting(g)' = Waiting(g)
      \/ /\ consumer_queue # <<>> /\ Waiting("pop") # {}
         /\ pc'[get_task'] = "pop" /\ arg[get_task'] = R + 1
         /\ InLine(Tail(consumer_queue), Waiting("pop")', arg, R + 1)
         /\ Len(Tail(consumer_queue)) = Len(consumer_queue) - 1
         /\ \A g : g # "pop" => Waiting(g)' = Waiting(g)
  BY <1>1, <1>2, NotifyWakes
<1> HIDE DEF n, A, R
<1>5. /\ InLine(producer_queue, Waiting("push"), arg, A + 1)
      /\ InLine(consumer_queue, Waiting("pop"), arg, R)
      /\ sent' = A + 1 + Len(producer_queue) /\ asked = R + Len(consumer_queue)
      /\ n < capacity
      /\ Waiting("push") = {} \/ n = capacity - 1
      /\ Waiting("pop") = {} \/ n = 0
  BY DEF n, A, R
<1>6. CASE consumer_queue = <<>>
  <2>1. /\ Waiting("pop") = {} /\ At' = pc'[get_task] /\ \A g : Waiting(g)' = Waiting(g)
        /\ consumer_queue' = consumer_queue
    BY <1>1, <1>4, <1>6 DEF At, rest
  <2>2. ~ InCall(At') /\ PushWoken' = 0 /\ PopWoken' = 0
    BY <2>1 DEF PushWoken, PopWoken, InCall
  <2>3. Pushes'
    <3>1. Len(accepted') + PushWoken' = A + 1
      BY <1>2, <1>3, <2>2
    <3>2. InLine(producer_queue', Waiting("push")', arg', Len(accepted') + PushWoken')
      BY <1>1, <1>5, <2>1, <3>1
    <3>3. sent' = Len(accepted') + PushWoken' + Len(producer_queue')
      BY <1>1, <1>5, <3>1
    <3> QED BY <2>2, <3>2, <3>3 DEF Pushes, InCall
  <2>4. Pops'
    <3>1. Len(received') + PopWoken' = R
      BY <1>2, <1>3, <2>2
    <3>2. InLine(consumer_queue', Waiting("pop")', arg', Len(received') + PopWoken')
      BY <1>1, <1>5, <2>1, <3>1
    <3>3. asked' = Len(received') + PopWoken' + Len(consumer_queue')
      BY <1>5, <2>1, <3>1
    <3> QED BY <2>2, <3>2, <3>3 DEF Pops, InCall
  <2>5. Room(At, Len(data_queue), Waiting("push"), Waiting("pop"))'
    <3>1. n + 1 <= capacity /\ (Waiting("push") = {} \/ n + 1 = capacity)
      BY <1>2, <1>5
    <3> QED BY <1>3, <2>1, <2>2, <3>1 DEF Room, InCall
  <2> QED BY <1>3, <2>3, <2>4, <2>5 DEF LineInv
<1>7. CASE consumer_queue # <<>>
  <2>1. /\ Waiting("pop") # {} /\ At' = "pop" /\ arg'[get_task'] = R + 1
        /\ InLine(Tail(consumer_queue), Waiting("pop")', arg, R + 1)
        /\ Len(Tail(consumer_queue)) = Len(consumer_queue) - 1
        /\ Waiting("push")' = Waiting("push")
        /\ consumer_queue' = Tail(consumer_queue)
    BY <1>1, <1>4, <1>7 DEF At, rest
  <2>2. PushWoken' = 0 /\ PopWoken' = 1 /\ n = 0
    BY <1>5, <2>1 DEF PushWoken, PopWoken
  <2>3. Pushes'
    <3>1. Len(accepted') + PushWoken' = A + 1
      BY <1>2, <1>3, <2>2
    <3>2. InLine(producer_queue', Waiting("push")', arg', Len(accepted') + PushWoken')
      BY <1>1, <1>5, <2>1, <3>1
    <3>3. sent' = Len(accepted') + PushWoken' + Len(producer_queue')
      BY <1>1, <1>5, <3>1
    <3> QED BY <2>1, <3>2, <3>3 DEF Pushes
  <2>4. Pops'
    <3>1. Len(received') + PopWoken' = R + 1
      BY <1>2, <1>3, <2>2
    <3>2. InLine(consumer_queue', Waiting("pop")', arg', Len(received') + PopWoken')
      BY <2>1, <3>1
    <3>3. asked' = Len(received') + PopWoken' + Len(consumer_queue')
      <4>1. Len(consumer_queue') = Len(consumer_queue) - 1
        BY <2>1
      <4>2. asked' = R + Len(consumer_queue)
        BY <1>5
      <4> QED BY <1>2, <3>1, <4>1, <4>2
    <3>4. arg'[get_task'] = Len(received') + 1
      BY <1>3, <2>1
    <3> QED BY <3>2, <3>3, <3>4 DEF Pops
  <2>5. Room(At, Len(data_queue), Waiting("push"), Waiting("pop"))'
    <3>1. /\ n + 1 <= capacity /\ n + 1 = 1
          /\ Waiting("push") = {} \/ n + 1 = capacity
      BY <1>2, <1>5, <2>2
    <3> QED BY <1>3, <2>1, <3>1 DEF Room, InCall
  <2> QED BY <1>3, <2>3, <2>4, <2>5 DEF LineInv
<1> QED BY <1>6, <1>7

\* An item is taken by the one whose turn it is.
LEMMA TakeLines ==
  ASSUME BaseInv, InTurn, data_queue # <<>>,
         InLine(producer_queue, Waiting("push"), arg, Len(accepted)),
         InLine(consumer_queue, Waiting("pop"), arg, Len(received) + 1),
         sent = Len(accepted) + Len(producer_queue),
         asked' = Len(received) + 1 + Len(consumer_queue),
         Len(data_queue) <= capacity,
         Waiting("push") = {} \/ Len(data_queue) = capacity,
         Waiting("pop") = {} \/ Len(data_queue) = 1,
         take(Len(received) + 1),
         UNCHANGED <<capacity, arg, sent>>,
         \A t \in Task : t # get_task => pc'[t] = pc[t],
         ~ InCall(pc'[get_task])
  PROVE  LineInv'
<1> DEFINE n == Len(data_queue)
           A == Len(accepted)
           R == Len(received)
<1>1. /\ data_queue' = Tail(data_queue)
      /\ received' = Append(received, <<R + 1, Head(data_queue)>>)
      /\ notify(producer_queue) /\ producer_queue' = rest(producer_queue)
      /\ consumer_queue' = consumer_queue /\ accepted' = accepted
  BY DEF take
<1>2. /\ A \in Nat /\ R \in Nat /\ n \in Nat /\ capacity \in Nat /\ n # 0
      /\ Len(producer_queue) \in Nat /\ Len(consumer_queue) \in Nat
      /\ (producer_queue = <<>> <=> Len(producer_queue) = 0)
  BY LensOK, LineEmpty
<1>3. Len(accepted') = A /\ Len(data_queue') = n - 1 /\ Len(received') = R + 1 /\ InTurn'
  <2>1. Len(data_queue') = n - 1
    BY <1>1, LensOK, HeadTailProperties
  <2>2. Len(received') = R + 1
    <3> DEFINE x == <<R + 1, Head(data_queue)>>
    <3>1. x \in Nat \X Nat /\ received \in Seq(Nat \X Nat)
      <4>1. data_queue \in Seq(Nat) /\ R + 1 \in Nat /\ received \in Seq(Nat \X Nat)
        BY <1>2, LensOK
      <4>2. Head(data_queue) \in Nat
        BY <4>1, HeadTailProperties
      <4> QED BY <4>1, <4>2
    <3>2. received' = Append(received, x)
      BY <1>1
    <3> HIDE DEF x
    <3> QED BY <3>1, <3>2, AppendProperties
  <2> QED BY <1>1, <2>1, <2>2 DEF InTurn
<1>4. \/ /\ producer_queue = <<>> /\ Waiting("push") = {} /\ get_task' = get_task
         /\ \A g : Waiting(g)' = Waiting(g)
      \/ /\ producer_queue # <<>> /\ Waiting("push") # {}
         /\ pc'[get_task'] = "push" /\ arg[get_task'] = A + 1
         /\ InLine(Tail(producer_queue), Waiting("push")', arg, A + 1)
         /\ Len(Tail(producer_queue)) = Len(producer_queue) - 1
         /\ \A g : g # "push" => Waiting(g)' = Waiting(g)
  BY <1>1, <1>2, NotifyWakes
<1> HIDE DEF n, A, R
<1>5. /\ InLine(producer_queue, Waiting("push"), arg, A)
      /\ InLine(consumer_queue, Waiting("pop"), arg, R + 1)
      /\ sent = A + Len(producer_queue) /\ asked' = R + 1 + Len(consumer_queue)
      /\ n <= capacity
      /\ Waiting("push") = {} \/ n = capacity
      /\ Waiting("pop") = {} \/ n = 1
  BY DEF n, A, R
<1>6. CASE producer_queue = <<>>
  <2>1. /\ Waiting("push") = {} /\ At' = pc'[get_task] /\ \A g : Waiting(g)' = Waiting(g)
        /\ producer_queue' = producer_queue
    BY <1>1, <1>4, <1>6 DEF At, rest
  <2>2. ~ InCall(At') /\ PushWoken' = 0 /\ PopWoken' = 0
    BY <2>1 DEF PushWoken, PopWoken, InCall
  <2>3. Pushes'
    <3>1. Len(accepted') + PushWoken' = A
      BY <1>2, <1>3, <2>2
    <3>2. InLine(producer_queue', Waiting("push")', arg', Len(accepted') + PushWoken')
      BY <1>5, <2>1, <3>1
    <3>3. sent' = Len(accepted') + PushWoken' + Len(producer_queue')
      BY <1>5, <2>1, <3>1
    <3> QED BY <2>2, <3>2, <3>3 DEF Pushes, InCall
  <2>4. Pops'
    <3>1. Len(received') + PopWoken' = R + 1
      BY <1>2, <1>3, <2>2
    <3>2. InLine(consumer_queue', Waiting("pop")', arg', Len(received') + PopWoken')
      BY <1>1, <1>5, <2>1, <3>1
    <3>3. asked' = Len(received') + PopWoken' + Len(consumer_queue')
      BY <1>1, <1>5, <3>1
    <3> QED BY <2>2, <3>2, <3>3 DEF Pops, InCall
  <2>5. Room(At, Len(data_queue), Waiting("push"), Waiting("pop"))'
    <3>1. n - 1 <= capacity /\ (Waiting("pop") = {} \/ n - 1 = 0)
      BY <1>2, <1>5
    <3> QED BY <1>3, <2>1, <2>2, <3>1 DEF Room, InCall
  <2> QED BY <1>3, <2>3, <2>4, <2>5 DEF LineInv
<1>7. CASE producer_queue # <<>>
  <2>1. /\ Waiting("push") # {} /\ At' = "push" /\ arg'[get_task'] = A + 1
        /\ InLine(Tail(producer_queue), Waiting("push")', arg, A + 1)
        /\ Len(Tail(producer_queue)) = Len(producer_queue) - 1
        /\ Waiting("pop")' = Waiting("pop")
        /\ producer_queue' = Tail(producer_queue)
    BY <1>1, <1>4, <1>7 DEF At, rest
  <2>2. PushWoken' = 1 /\ PopWoken' = 0 /\ n = capacity
    BY <1>5, <2>1 DEF PushWoken, PopWoken
  <2>3. Pushes'
    <3>1. Len(accepted') + PushWoken' = A + 1
      BY <1>2, <1>3, <2>2
    <3>2. InLine(producer_queue', Waiting("push")', arg', Len(accepted') + PushWoken')
      BY <2>1, <3>1
    <3>3. sent' = Len(accepted') + PushWoken' + Len(producer_queue')
      <4>1. Len(producer_queue') = Len(producer_queue) - 1
        BY <2>1
      <4>2. sent' = A + Len(producer_queue)
        BY <1>5
      <4> QED BY <1>2, <3>1, <4>1, <4>2
    <3>4. arg'[get_task'] = Len(accepted') + 1
      BY <1>3, <2>1
    <3> QED BY <3>2, <3>3, <3>4 DEF Pushes
  <2>4. Pops'
    <3>1. Len(received') + PopWoken' = R + 1
      BY <1>2, <1>3, <2>2
    <3>2. InLine(consumer_queue', Waiting("pop")', arg', Len(received') + PopWoken')
      BY <1>1, <1>5, <2>1, <3>1
    <3>3. asked' = Len(received') + PopWoken' + Len(consumer_queue')
      BY <1>1, <1>5, <3>1
    <3> QED BY <2>1, <3>2, <3>3 DEF Pops
  <2>5. Room(At, Len(data_queue), Waiting("push"), Waiting("pop"))'
    <3>1. /\ n - 1 < capacity /\ n - 1 <= capacity
          /\ n - 1 = capacity - 1
          /\ Waiting("pop") = {} \/ n - 1 = 0
      BY <1>2, <1>5, <2>2
    <3> QED BY <1>3, <2>1, <3>1 DEF Room, InCall
  <2> QED BY <1>3, <2>3, <2>4, <2>5 DEF LineInv
<1> QED BY <1>6, <1>7

\* A step of the scheduler that neither wakes a coroutine in a call nor stops one.
LEMMA QuietLines ==
  ASSUME BaseInv, LineInv, Patient,
         UNCHANGED <<capacity, queues, pc, arg, sent, asked, accepted, received>>,
         NEW x \in Task, ~ InCall(pc[x]),
         user_yield_coros' \in {user_yield_coros \cup {x}, user_yield_coros \ {x}},
         ~ InCall(At), ~ InCall(pc[get_task'])
  PROVE  LineInv'
<1>1. /\ Waiting("push")' = Waiting("push") /\ Waiting("pop")' = Waiting("pop")
  BY DEF Waiting, InCall
<1>2. ~ InCall(At')
  BY DEF At
<1>3. PushWoken = 0 /\ PopWoken = 0 /\ PushWoken' = 0 /\ PopWoken' = 0
  BY <1>2 DEF PushWoken, PopWoken, InCall
<1>4. Pushes' /\ Pops' /\ InTurn'
  BY <1>1, <1>2, <1>3 DEF LineInv, Pushes, Pops, InTurn, InCall, queues
<1>5. Room(At, Len(data_queue), Waiting("push"), Waiting("pop"))'
  BY <1>1, <1>2 DEF LineInv, Room, InCall, queues
<1> QED BY <1>4, <1>5 DEF LineInv

\* What it is to be patient does not come back.
LEMMA PatientBefore ==
  ASSUME [ChNext]_allvars, Patient' PROVE Patient
<1> USE DEF Patient, made, InPhp, Woken
<1>1. CASE Scheduler
  BY <1>1 DEF Scheduler, chvars
<1>2. ASSUME NEW c \in Cid, PushWaits(c) \/ PopWaits(c) PROVE Patient
  BY <1>2 DEF PushWaits, PopWaits
<1>3. ASSUME NEW c \in Cid, PushGoesOn(c) \/ PopGoesOn(c) PROVE Patient
  BY <1>3 DEF PushGoesOn, PopGoesOn
<1>4. ASSUME NEW t \in Task, PushNow(t) \/ PopNow(t) PROVE Patient
  BY <1>4 DEF PushNow, PopNow
<1>5. ASSUME NEW t \in Task, Close(t) \/ CloseStep(t) PROVE Patient
  BY <1>5 DEF Close, CloseStep
<1>6. ASSUME NEW w \in WctId, sleep_timeout(w) PROVE Patient
  BY <1>6 DEF sleep_timeout
<1>7. CASE UNCHANGED allvars
  BY <1>7 DEF allvars, chvars
<1> QED BY <1>1, <1>2, <1>3, <1>4, <1>5, <1>6, <1>7 DEF ChNext

LEMMA LineInit == ASSUME ChInit PROVE LineInv
<1>1. /\ producer_queue = <<>> /\ consumer_queue = <<>> /\ data_queue = <<>>
      /\ accepted = <<>> /\ received = <<>> /\ sent = 0 /\ asked = 0
      /\ user_yield_coros = {} /\ current_task = NoTask /\ pc = [t \in Task |-> "php"]
  BY DEF ChInit, Init
<1>2. Waiting("push") = {} /\ Waiting("pop") = {}
  BY <1>1 DEF Waiting
<1>3. At = "php" /\ PushWoken = 0 /\ PopWoken = 0
  BY <1>1, Tasks DEF At, get_task, PushWoken, PopWoken
<1>4. /\ Len(producer_queue) = 0 /\ Len(consumer_queue) = 0 /\ Len(data_queue) = 0
      /\ Len(accepted) = 0 /\ Len(received) = 0
      /\ producer_queue \in Seq(Cid) /\ consumer_queue \in Seq(Cid)
  BY <1>1
<1>5. Pushes /\ Pops /\ InTurn
  BY <1>1, <1>2, <1>3, <1>4 DEF Pushes, Pops, InTurn, InLine
<1>6. capacity \in Nat
  BY ChannelAssumption DEF ChInit
<1>7. Room(At, Len(data_queue), Waiting("push"), Waiting("pop"))
  BY <1>2, <1>3, <1>4, <1>6 DEF Room, InCall
<1> QED BY <1>5, <1>7 DEF LineInv

LEMMA SchedulerLines ==
  ASSUME BaseInv, LineInv, Patient, Scheduler
  PROVE  LineInv'
<1> USE DEF made, calls
<1>0. /\ UNCHANGED <<capacity, queues, pc, arg, sent, asked, accepted, received>>
      /\ TypeOK /\ SchedulerInv /\ CallsInv /\ Main \in Task /\ Cid \subseteq Task
      /\ user_yield_coros \subseteq Cid /\ ~ InCall(pc[Main])
      /\ user_yield_coros \ {Main} = user_yield_coros
      /\ get_task \in Task
  BY Tasks, GetTask DEF Scheduler, chvars, BaseInv, IInv, TypeOK, CallsInv
<1>1. CASE InPhp(get_task) /\ Create
  <2> DEFINE n == last_cid + 1
  <2>1. n \in Cid /\ current_task' = n /\ user_yield_coros' = user_yield_coros
    BY <1>1 DEF Create
  <2>2. phase[n] \notin {"body", "defer"}
    <3>1. n \notin coroutines
      BY <1>0 DEF SchedulerInv, LiveCids, TypeOK
    <3> QED BY <1>0, <2>1, <3>1 DEF SchedulerInv, LiveCids
  <2> HIDE DEF n
  <2>3. ~ InCall(pc[n]) /\ get_task' = n
    BY <1>0, <2>1, <2>2, Tasks DEF CallsInv, get_task
  <2>4. ~ InCall(At)
    BY <1>1 DEF InPhp, InCall, At
  <2> QED BY <1>0, <2>1, <2>3, <2>4, QuietLines
<1>2. ASSUME NEW c \in Cid, InPhp(get_task), UserYield(c) PROVE LineInv'
  <2>1. /\ get_task = c /\ user_yield_coros' = user_yield_coros \cup {c}
        /\ current_task' = origin[c] /\ ~ InCall(pc[c])
    BY <1>2 DEF UserYield, Yield, RunsPhp, Executing, InPhp, InCall
  <2>2. origin[c] \in Task /\ ~ InCall(pc[origin[c]])
    BY <2>1, OriginNotInCall
  <2>3. get_task' = origin[c]
    BY <2>1, <2>2, Tasks DEF get_task
  <2>4. ~ InCall(At)
    BY <2>1 DEF At
  <2> QED BY <1>0, <2>1, <2>2, <2>3, <2>4, QuietLines
<1>3. ASSUME NEW d \in Cid, InPhp(get_task), pc[d] = "php", UserResume(d) PROVE LineInv'
  <2>1. /\ user_yield_coros' = user_yield_coros \ {d} /\ current_task' = d
        /\ ~ InCall(pc[d]) /\ ~ InCall(At)
    BY <1>3 DEF UserResume, Resume, InPhp, InCall, At
  <2>2. get_task' = d
    BY <2>1, Tasks DEF get_task
  <2> QED BY <1>0, <2>1, <2>2, QuietLines
<1>4. ASSUME NEW d \in Cid, InPhp(get_task), BodyReturns(d) PROVE LineInv'
  <2>1. UNCHANGED <<user_yield_coros, current_task>> /\ ~ InCall(At)
    BY <1>4 DEF BodyReturns, InPhp, InCall, At
  <2>2. get_task' = get_task
    BY <2>1 DEF get_task
  <2> QED BY <1>0, <2>1, <2>2, QuietLines DEF At
<1>5. ASSUME NEW d \in Cid, MainFuncEnds(d) PROVE LineInv'
  <2>1. d = get_task /\ phase[d] = "defers" /\ UNCHANGED <<user_yield_coros, current_task>>
    BY <1>5 DEF MainFuncEnds, End, Executing
  <2>2. ~ InCall(At) /\ get_task' = get_task
    BY <1>0, <2>1 DEF CallsInv, At, get_task
  <2> QED BY <1>0, <2>1, <2>2, QuietLines DEF At
<1>6. ASSUME NEW c \in Cid, close_coro(c) PROVE LineInv'
  <2>1. /\ phase[c] = "ended" /\ user_yield_coros' = user_yield_coros \ {c}
        /\ get_task = c /\ current_task' = origin[c]
    BY <1>0, <1>6, Tasks DEF close_coro, SchedulerInv, EndedIsCurrent, get_task
  <2>2. origin[c] \in Task /\ ~ InCall(pc[origin[c]])
    BY <2>1, OriginNotInCall
  <2>3. ~ InCall(pc[c]) /\ ~ InCall(At) /\ get_task' = origin[c]
    BY <1>0, <2>1, <2>2, Tasks DEF CallsInv, At, get_task
  <2> QED BY <1>0, <2>1, <2>2, <2>3, QuietLines
<1> QED BY <1>1, <1>2, <1>3, <1>4, <1>5, <1>6 DEF Scheduler

\* A push or a pop that has to wait goes to the end of its line.
LEMMA WaitLines ==
  ASSUME BaseInv, LineInv, Patient, NEW c \in Cid, PushWaits(c) \/ PopWaits(c)
  PROVE  LineInv'
<1> USE DEF made
<1>1. /\ get_task = c /\ pc[c] = "php" /\ ~ InCall(At)
      /\ user_yield_coros' = user_yield_coros \cup {c} /\ current_task' = origin[c]
      /\ UNCHANGED <<capacity, data_queue, accepted, received>>
  BY DEF PushWaits, PopWaits, Block, Yield, RunsPhp, Executing, InPhp, InCall, At
<1>2. /\ TypeOK /\ ItemsTypeOK /\ Cid \subseteq Task
      /\ pc = [t \in Task |-> pc[t]] /\ arg = [t \in Task |-> arg[t]]
      /\ user_yield_coros \subseteq Cid /\ c \notin user_yield_coros
  BY <1>1, Tasks DEF BaseInv, IInv, TypeOK, ChIInv, ItemsTypeOK, SchedulerInv, ChainInv, Active
<1>3. origin[c] \in Task /\ origin[c] # c /\ ~ InCall(pc[origin[c]])
  BY <1>1, OriginNotInCall
<1>4. get_task' = origin[c] /\ At' = pc'[origin[c]]
  BY <1>1, <1>3, Tasks DEF get_task, At
<1>5. /\ \A t \in Task \ {c} : pc'[t] = pc[t] /\ arg'[t] = arg[t]
      /\ c \in Task
  BY <1>2 DEF PushWaits, PopWaits
<1>6. ~ InCall(At')
  BY <1>3, <1>4, <1>5
<1>7. PushWoken = 0 /\ PopWoken = 0 /\ PushWoken' = 0 /\ PopWoken' = 0
  BY <1>1, <1>6 DEF PushWoken, PopWoken, InCall
<1>8. /\ Len(accepted) + PushWoken = Len(accepted) /\ Len(received) + PopWoken = Len(received)
      /\ Len(accepted)' + PushWoken' = Len(accepted)
      /\ Len(received)' + PopWoken' = Len(received)
      /\ Len(accepted) \in Nat /\ Len(received) \in Nat
  BY <1>1, <1>7, LensOK
<1>9. /\ InLine(producer_queue, Waiting("push"), arg, Len(accepted))
      /\ InLine(consumer_queue, Waiting("pop"), arg, Len(received))
      /\ sent = Len(accepted) + Len(producer_queue)
      /\ asked = Len(received) + Len(consumer_queue)
      /\ InTurn /\ Len(data_queue) <= capacity
      /\ Waiting("push") = {} \/ Len(data_queue) = capacity
      /\ Waiting("pop") = {} \/ Len(data_queue) = 0
  BY <1>1, <1>8 DEF LineInv, Pushes, Pops, Room
<1>10. InTurn'
  BY <1>1, <1>9 DEF InTurn
<1>11. Len(producer_queue) \in Nat /\ Len(consumer_queue) \in Nat
  BY <1>9, LineEmpty
<1>12. c \notin Waiting("push") /\ c \notin Waiting("pop")
  BY <1>2 DEF Waiting
<1>13. CASE PushWaits(c)
  <2>1. /\ producer_queue' = Append(producer_queue, c) /\ consumer_queue' = consumer_queue
        /\ pc'[c] = "push" /\ sent' = sent + 1 /\ arg'[c] = sent + 1 /\ asked' = asked
        /\ Len(data_queue) = capacity
    BY <1>2, <1>5, <1>13 DEF PushWaits, enqueue
  <2>2. Waiting("push")' = Waiting("push") \cup {c} /\ Waiting("pop")' = Waiting("pop")
    BY <1>1, <1>2, <1>5, <2>1 DEF Waiting
  <2>3. /\ InLine(producer_queue', Waiting("push")', arg', Len(accepted))
        /\ Len(producer_queue') = Len(producer_queue) + 1
    <3>1. \A d \in Waiting("push") : arg'[d] = arg[d]
      BY <1>2, <1>5, <1>12 DEF Waiting
    <3>2. arg'[c] = Len(accepted) + Len(producer_queue) + 1
      BY <1>9, <2>1
    <3> QED BY <1>8, <1>9, <1>12, <2>1, <2>2, <3>1, <3>2, LineAppend
  <2>4. InLine(consumer_queue', Waiting("pop")', arg', Len(received))
    <3>1. \A d \in Waiting("pop") : arg'[d] = arg[d]
      BY <1>2, <1>5, <1>12 DEF Waiting
    <3> QED BY <1>9, <2>1, <2>2, <3>1, LineSame
  <2>5. sent' = Len(accepted) + Len(producer_queue')
    <3>1. Len(producer_queue') = Len(producer_queue) + 1
      BY <2>3
    <3>2. sent' = sent + 1 /\ sent = Len(accepted) + Len(producer_queue)
      BY <1>9, <2>1
    <3> QED BY <1>8, <1>11, <3>1, <3>2
  <2>6. Pushes'
    BY <1>6, <1>8, <2>3, <2>5 DEF Pushes, InCall
  <2>7. Pops'
    BY <1>6, <1>8, <1>9, <2>1, <2>4 DEF Pops, InCall
  <2>8. Room(At, Len(data_queue), Waiting("push"), Waiting("pop"))'
    BY <1>1, <1>6, <1>9, <2>1, <2>2 DEF Room, InCall
  <2> QED BY <1>10, <2>6, <2>7, <2>8 DEF LineInv
<1>14. CASE PopWaits(c)
  <2>1. /\ consumer_queue' = Append(consumer_queue, c) /\ producer_queue' = producer_queue
        /\ pc'[c] = "pop" /\ asked' = asked + 1 /\ arg'[c] = asked + 1 /\ sent' = sent
        /\ Len(data_queue) = 0
    BY <1>2, <1>5, <1>14, LensOK DEF PopWaits, enqueue
  <2>2. Waiting("pop")' = Waiting("pop") \cup {c} /\ Waiting("push")' = Waiting("push")
    BY <1>1, <1>2, <1>5, <2>1 DEF Waiting
  <2>3. /\ InLine(consumer_queue', Waiting("pop")', arg', Len(received))
        /\ Len(consumer_queue') = Len(consumer_queue) + 1
    <3>1. \A d \in Waiting("pop") : arg'[d] = arg[d]
      BY <1>2, <1>5, <1>12 DEF Waiting
    <3>2. arg'[c] = Len(received) + Len(consumer_queue) + 1
      BY <1>9, <2>1
    <3> QED BY <1>8, <1>9, <1>12, <2>1, <2>2, <3>1, <3>2, LineAppend
  <2>4. InLine(producer_queue', Waiting("push")', arg', Len(accepted))
    <3>1. \A d \in Waiting("push") : arg'[d] = arg[d]
      BY <1>2, <1>5, <1>12 DEF Waiting
    <3> QED BY <1>9, <2>1, <2>2, <3>1, LineSame
  <2>5. asked' = Len(received) + Len(consumer_queue')
    <3>1. Len(consumer_queue') = Len(consumer_queue) + 1
      BY <2>3
    <3>2. asked' = asked + 1 /\ asked = Len(received) + Len(consumer_queue)
      BY <1>9, <2>1
    <3> QED BY <1>8, <1>11, <3>1, <3>2
  <2>6. Pops'
    BY <1>6, <1>8, <2>3, <2>5 DEF Pops, InCall
  <2>7. Pushes'
    BY <1>6, <1>8, <1>9, <2>1, <2>4 DEF Pushes, InCall
  <2>8. Room(At, Len(data_queue), Waiting("push"), Waiting("pop"))'
    <3>1. Len(data_queue') = 0 /\ 0 <= capacity'
      BY <1>1, <2>1, LensOK
    <3>2. Waiting("push")' = {} \/ Len(data_queue') = capacity'
      BY <1>1, <1>9, <2>2
    <3> QED BY <1>6, <3>1, <3>2 DEF Room, InCall
  <2> QED BY <1>10, <2>6, <2>7, <2>8 DEF LineInv
<1> QED BY <1>13, <1>14

\* A push that has been woken finds the room, and it is its turn.
LEMMA PushOnLines ==
  ASSUME BaseInv, LineInv, Patient, NEW c \in Cid, PushGoesOn(c)
  PROVE  /\ At = "push" /\ put(arg[c]) /\ arg[c] = Len(accepted) + 1
         /\ LineInv'
<1>1. /\ get_task = c /\ pc[c] = "push" /\ At = "push" /\ pc' = [pc EXCEPT ![c] = "php"]
      /\ UNCHANGED <<capacity, arg, sent, asked>>
  BY DEF PushGoesOn, Woken, Executing, At, made, calls
<1>2. /\ PushWoken = 1 /\ PopWoken = 0
      /\ Len(accepted) + PushWoken = Len(accepted) + 1
      /\ Len(received) + PopWoken = Len(received)
  BY <1>1, LensOK DEF PushWoken, PopWoken
<1>3. /\ InLine(producer_queue, Waiting("push"), arg, Len(accepted) + 1)
      /\ InLine(consumer_queue, Waiting("pop"), arg, Len(received))
      /\ sent = Len(accepted) + 1 + Len(producer_queue)
      /\ asked = Len(received) + Len(consumer_queue)
      /\ arg[c] = Len(accepted) + 1 /\ InTurn
      /\ Len(data_queue) < capacity
      /\ Waiting("push") = {} \/ Len(data_queue) = capacity - 1
      /\ Waiting("pop") = {} \/ Len(data_queue) = 0
  BY <1>1, <1>2 DEF LineInv, Pushes, Pops, Room
<1>4. Len(data_queue) # capacity
  BY <1>3, LensOK
<1>5. put(arg[c])
  BY <1>4 DEF PushGoesOn
<1>6. (\A t \in Task : t # get_task => pc'[t] = pc[t]) /\ ~ InCall(pc'[get_task])
  BY <1>1, Tasks DEF BaseInv, ChIInv, ItemsTypeOK, InCall
<1>7. LineInv'
  BY <1>1, <1>3, <1>5, <1>6, PutLines
<1> QED BY <1>1, <1>3, <1>5, <1>7

\* So does a pop that has been woken.
LEMMA PopOnLines ==
  ASSUME BaseInv, LineInv, Patient, NEW c \in Cid, PopGoesOn(c)
  PROVE  /\ At = "pop" /\ data_queue # <<>> /\ take(arg[c]) /\ arg[c] = Len(received) + 1
         /\ LineInv'
<1>1. /\ get_task = c /\ pc[c] = "pop" /\ At = "pop" /\ pc' = [pc EXCEPT ![c] = "php"]
      /\ UNCHANGED <<capacity, arg, sent, asked>>
  BY DEF PopGoesOn, Woken, Executing, At, made, calls
<1>2. /\ PushWoken = 0 /\ PopWoken = 1
      /\ Len(accepted) + PushWoken = Len(accepted)
      /\ Len(received) + PopWoken = Len(received) + 1
  BY <1>1, LensOK DEF PushWoken, PopWoken
<1>3. /\ InLine(producer_queue, Waiting("push"), arg, Len(accepted))
      /\ InLine(consumer_queue, Waiting("pop"), arg, Len(received) + 1)
      /\ sent = Len(accepted) + Len(producer_queue)
      /\ asked = Len(received) + 1 + Len(consumer_queue)
      /\ arg[c] = Len(received) + 1 /\ InTurn
      /\ Len(data_queue) >= 1 /\ Len(data_queue) <= capacity
      /\ Waiting("push") = {} \/ Len(data_queue) = capacity
      /\ Waiting("pop") = {} \/ Len(data_queue) = 1
  BY <1>1, <1>2 DEF LineInv, Pushes, Pops, Room
<1>4. data_queue # <<>>
  BY <1>3, LensOK
<1>5. take(arg[c])
  BY <1>4 DEF PopGoesOn
<1>6. (\A t \in Task : t # get_task => pc'[t] = pc[t]) /\ ~ InCall(pc'[get_task])
  BY <1>1, Tasks DEF BaseInv, ChIInv, ItemsTypeOK, InCall
<1>7. LineInv'
  BY <1>1, <1>3, <1>4, <1>5, <1>6, TakeLines
<1> QED BY <1>1, <1>3, <1>4, <1>5, <1>7

\* A push that need not wait overtakes nobody.
LEMMA PushNowLines ==
  ASSUME BaseInv, LineInv, Patient, NEW t \in Task, PushNow(t)
  PROVE  LineInv'
<1>1. /\ get_task = t /\ ~ InCall(At) /\ sent' = sent + 1 /\ put(sent + 1)
      /\ UNCHANGED <<capacity, pc, arg, asked>> /\ Len(data_queue) # capacity
  BY DEF PushNow, InPhp, RunsPhp, Executing, At, InCall, made
<1>2. /\ Len(accepted) + PushWoken = Len(accepted)
      /\ Len(received) + PopWoken = Len(received)
  BY <1>1, LensOK DEF PushWoken, PopWoken, InCall
<1>3. /\ InLine(producer_queue, Waiting("push"), arg, Len(accepted))
      /\ InLine(consumer_queue, Waiting("pop"), arg, Len(received))
      /\ sent = Len(accepted) + Len(producer_queue)
      /\ asked = Len(received) + Len(consumer_queue) /\ InTurn
      /\ Len(data_queue) <= capacity /\ Waiting("push") = {}
      /\ Waiting("pop") = {} \/ Len(data_queue) = 0
  BY <1>1, <1>2 DEF LineInv, Pushes, Pops, Room
<1>4. producer_queue = <<>> /\ Len(producer_queue) = 0
  BY <1>3, LineEmpty
<1>5. sent = Len(accepted) /\ Len(data_queue) < capacity
  BY <1>1, <1>3, <1>4, LensOK
<1>6. sent' = Len(accepted) + 1 + Len(producer_queue) /\ put(Len(accepted) + 1)
  BY <1>1, <1>4, <1>5, LensOK
<1>7. InLine(producer_queue, Waiting("push"), arg, Len(accepted) + 1)
  BY <1>3, <1>4 DEF InLine
<1>8. ~ InCall(pc'[get_task])
  BY <1>1 DEF At
<1> QED BY <1>1, <1>3, <1>5, <1>6, <1>7, <1>8, PutLines

\* Nor does such a pop: the item it takes is the one that is its.
LEMMA PopNowLines ==
  ASSUME BaseInv, LineInv, Patient, NEW t \in Task, PopNow(t)
  PROVE  LineInv' /\ asked = Len(received)
<1>1. /\ get_task = t /\ ~ InCall(At) /\ asked' = asked + 1 /\ take(asked + 1)
      /\ UNCHANGED <<capacity, pc, arg, sent>> /\ data_queue # <<>>
  BY DEF PopNow, InPhp, RunsPhp, Executing, At, InCall, made
<1>2. /\ Len(accepted) + PushWoken = Len(accepted)
      /\ Len(received) + PopWoken = Len(received)
  BY <1>1, LensOK DEF PushWoken, PopWoken, InCall
<1>3. Len(data_queue) # 0
  BY <1>1, LensOK
<1>4. /\ InLine(producer_queue, Waiting("push"), arg, Len(accepted))
      /\ InLine(consumer_queue, Waiting("pop"), arg, Len(received))
      /\ sent = Len(accepted) + Len(producer_queue)
      /\ asked = Len(received) + Len(consumer_queue) /\ InTurn
      /\ Len(data_queue) <= capacity /\ Waiting("pop") = {}
      /\ Waiting("push") = {} \/ Len(data_queue) = capacity
  BY <1>1, <1>2, <1>3 DEF LineInv, Pushes, Pops, Room
<1>5. consumer_queue = <<>> /\ Len(consumer_queue) = 0
  BY <1>4, LineEmpty
<1>6. asked = Len(received)
  BY <1>4, <1>5, LensOK
<1>7. asked' = Len(received) + 1 + Len(consumer_queue) /\ take(Len(received) + 1)
  BY <1>1, <1>5, <1>6, LensOK
<1>8. InLine(consumer_queue, Waiting("pop"), arg, Len(received) + 1)
  BY <1>4, <1>5 DEF InLine
<1>9. ~ InCall(pc'[get_task])
  BY <1>1 DEF At
<1> QED BY <1>1, <1>4, <1>6, <1>7, <1>8, <1>9, TakeLines

LEMMA LineStep ==
  ASSUME BaseInv, LineInv, [ChNext]_allvars
  PROVE  LineInv'
<1> SUFFICES ASSUME Patient' PROVE LineInv'
  BY DEF LineInv
<1>1. Patient /\ chan = "open" /\ chan' = "open"
  BY PatientBefore DEF Patient
<1>2. CASE Scheduler
  BY <1>1, <1>2, SchedulerLines
<1>3. ASSUME NEW c \in Cid, PushWaits(c) \/ PopWaits(c) PROVE LineInv'
  BY <1>1, <1>3, WaitLines
<1>4. ASSUME NEW c \in Cid, PushGoesOn(c) \/ PopGoesOn(c) PROVE LineInv'
  BY <1>1, <1>4, PushOnLines, PopOnLines
<1>5. ASSUME NEW t \in Task, PushNow(t) \/ PopNow(t) PROVE LineInv'
  BY <1>1, <1>5, PushNowLines, PopNowLines
<1>6. ASSUME NEW t \in Task, Close(t) \/ CloseStep(t) PROVE FALSE
  BY <1>1, <1>6 DEF Close, CloseStep, Woken, BaseInv, ChIInv, ClosedEmpty
<1>7. ASSUME NEW w \in WctId, sleep_timeout(w) PROVE FALSE
  BY <1>1, <1>7 DEF sleep_timeout, Patient, BaseInv, ArmedInCall
<1>8. CASE UNCHANGED allvars
  BY <1>1, <1>8 DEF allvars, chvars, vars, made, queues, calls, LineInv, Patient, Pushes, Pops,
     InTurn, Room, At, PushWoken, PopWoken, Waiting, get_task
<1> QED BY <1>2, <1>3, <1>4, <1>5, <1>6, <1>7, <1>8 DEF ChNext

THEOREM SpecLineInv == ChSpec => [](BaseInv /\ LineInv)
<1>1. ChInit => BaseInv /\ LineInv
  BY BaseInit, LineInit
<1>2. (BaseInv /\ LineInv) /\ [ChNext]_allvars => (BaseInv /\ LineInv)'
  BY BaseStep, LineStep
<1> QED BY <1>1, <1>2, PTL DEF ChSpec

(***************************************************************************)
(* The loops at the end of wmChannel_push and wmChannel_pop: without       *)
(* timeouts nobody waits for what is there, unless it has been woken to    *)
(* take it.                                                                *)
(***************************************************************************)
THEOREM NoneForgotten == ChSpec => []NoLostWakeup
<1>1. BaseInv /\ LineInv => NoLostWakeup
  BY LineWakes
<1> QED BY <1>1, SpecLineInv, PTL

-----------------------------------------------------------------------------
(***************************************************************************)
(* Without timeouts the channel implements MessageOrder.                   *)
(***************************************************************************)

\* What the channel shows to those who look at its order only.
Shown == <<IF timeouts THEN 0 ELSE sent,
           IF timeouts THEN 0 ELSE asked,
           IF timeouts THEN <<>> ELSE received>>

\* The item a pop takes in its turn is the one of the same number.
LEMMA TakeMatches ==
  ASSUME BaseInv, LineInv, Patient, data_queue # <<>>, take(Len(received) + 1)
  PROVE  received' = Append(received, <<Len(received) + 1, Len(received) + 1>>)
<1> DEFINE R == Len(received)
<1>1. /\ Len(data_queue) >= 1 /\ R \in Nat /\ Head(data_queue) = data_queue[1]
      /\ Len(accepted) \in Nat /\ Len(data_queue) \in Nat
  BY LensOK
<1>2. /\ Len(accepted) = R + Len(data_queue)
      /\ \A i \in 1 .. Len(data_queue) : data_queue[i] = accepted[R + i]
  BY DEF BaseInv, ChIInv, Flow, Patient
<1>3. InTurn
  BY DEF LineInv
<1>4. received' = Append(received, <<R + 1, Head(data_queue)>>)
  BY DEF take
<1> HIDE DEF R
<1>5. R + 1 \in 1 .. Len(accepted) /\ 1 \in 1 .. Len(data_queue)
  BY <1>1, <1>2
<1>6. Head(data_queue) = R + 1
  BY <1>1, <1>2, <1>3, <1>5 DEF InTurn
<1> QED BY <1>4, <1>6 DEF R

\* There is an item to take: its push has been called.
LEMMA TakeSent ==
  ASSUME BaseInv, LineInv, Patient, data_queue # <<>>
  PROVE  Len(received) < sent
<1>1. /\ Len(data_queue) >= 1 /\ Len(received) \in Nat /\ Len(data_queue) \in Nat
      /\ Len(accepted) \in Nat
  BY LensOK
<1>2. Len(accepted) = Len(received) + Len(data_queue)
  BY DEF BaseInv, ChIInv, Flow, Patient
<1>3. /\ sent = Len(accepted) + PushWoken + Len(producer_queue)
      /\ InLine(producer_queue, Waiting("push"), arg, Len(accepted) + PushWoken)
  BY DEF LineInv, Pushes
<1>4. Len(producer_queue) \in Nat /\ PushWoken \in Nat
  BY <1>3, LineEmpty DEF PushWoken
<1> QED BY <1>1, <1>2, <1>3, <1>4

LEMMA OrderStep ==
  ASSUME BaseInv, LineInv, [ChNext]_allvars
  PROVE  [Order!MONext]_Shown
<1> USE DEF made, calls, queues
<1>0. timeouts' = timeouts
  BY DEF ChNext, Scheduler, PushWaits, PopWaits, PushGoesOn, PopGoesOn, PushNow, PopNow,
     Close, CloseStep, sleep_timeout, chvars, allvars
<1>1. CASE timeouts
  BY <1>0, <1>1 DEF Shown
<1>2. CASE ~ timeouts
  <2> SUFFICES \/ \/ sent' = sent + 1 /\ UNCHANGED <<asked, received>>
                  \/ /\ asked' = asked + 1 /\ sent' = sent
                     /\ \/ UNCHANGED received
                        \/ /\ Len(received) = asked /\ asked < sent
                           /\ received' = Append(received,
                                            <<Len(received) + 1, Len(received) + 1>>)
                  \/ /\ Len(received) < asked /\ Len(received) < sent
                     /\ received' = Append(received,
                                      <<Len(received) + 1, Len(received) + 1>>)
                     /\ UNCHANGED <<sent, asked>>
               \/ UNCHANGED <<sent, asked, received>>
    BY <1>0, <1>2 DEF Shown, Order!MONext, Order!CallPush, Order!CallPop, Order!Receive,
       Order!Match
  <2>1. CASE Scheduler \/ UNCHANGED allvars
    BY <2>1 DEF Scheduler, chvars, allvars
  <2>2. ASSUME NEW c \in Cid, PushWaits(c) PROVE sent' = sent + 1 /\ UNCHANGED <<asked, received>>
    BY <2>2 DEF PushWaits
  <2>3. ASSUME NEW c \in Cid, PopWaits(c)
        PROVE  asked' = asked + 1 /\ UNCHANGED <<sent, received>>
    BY <2>3 DEF PopWaits
  <2>4. ASSUME NEW c \in Cid, PushGoesOn(c) PROVE UNCHANGED <<sent, asked, received>>
    BY <2>4 DEF PushGoesOn, put
  <2>5. ASSUME NEW c \in Cid, PopGoesOn(c)
        PROVE  /\ Len(received) < asked /\ Len(received) < sent
               /\ received' = Append(received, <<Len(received) + 1, Len(received) + 1>>)
               /\ UNCHANGED <<sent, asked>>
    <3>1. Patient
      <4>1. Woken(c, "pop") /\ c \in Task
        BY <2>5, Tasks DEF PopGoesOn
      <4>2. chan = "open"
        BY <4>1 DEF Woken, BaseInv, ChIInv, ClosedEmpty
      <4> QED BY <1>2, <4>1, <4>2 DEF Patient, Woken
    <3>2. At = "pop" /\ data_queue # <<>> /\ take(Len(received) + 1)
      BY <2>5, <3>1, PopOnLines
    <3>3. /\ asked = Len(received) + 1 + Len(consumer_queue)
          /\ InLine(consumer_queue, Waiting("pop"), arg, Len(received) + 1)
      BY <3>1, <3>2 DEF LineInv, Pops, PopWoken
    <3>4. Len(consumer_queue) \in Nat /\ Len(received) \in Nat
      BY <3>3, LineEmpty, LensOK
    <3>5. Len(received) < asked
      BY <3>3, <3>4
    <3>6. UNCHANGED <<sent, asked>>
      BY <2>5 DEF PopGoesOn
    <3> QED BY <3>1, <3>2, <3>5, <3>6, TakeMatches, TakeSent
  <2>6. ASSUME NEW t \in Task, PushNow(t) PROVE sent' = sent + 1 /\ UNCHANGED <<asked, received>>
    BY <2>6 DEF PushNow, put
  <2>7. ASSUME NEW t \in Task, PopNow(t)
        PROVE  /\ asked' = asked + 1 /\ sent' = sent
               /\ Len(received) = asked /\ asked < sent
               /\ received' = Append(received, <<Len(received) + 1, Len(received) + 1>>)
    <3>1. Patient
      BY <1>2, <2>7 DEF PopNow, InPhp, Patient
    <3>2. asked = Len(received)
      BY <2>7, <3>1, PopNowLines
    <3>3. asked' = asked + 1 /\ sent' = sent /\ data_queue # <<>> /\ take(Len(received) + 1)
      BY <2>7, <3>2 DEF PopNow
    <3> QED BY <3>1, <3>2, <3>3, TakeMatches, TakeSent
  <2>8. ASSUME NEW t \in Task, Close(t) \/ CloseStep(t) PROVE UNCHANGED <<sent, asked, received>>
    BY <2>8 DEF Close, CloseStep
  <2>9. ASSUME NEW w \in WctId, sleep_timeout(w) PROVE UNCHANGED <<sent, asked, received>>
    BY <2>9 DEF sleep_timeout
  <2> QED BY <2>1, <2>2, <2>3, <2>4, <2>5, <2>6, <2>7, <2>8, <2>9 DEF ChNext
<1> QED BY <1>1, <1>2

(***************************************************************************)
(* wmChannel_push and wmChannel_pop, without timeouts: whoever waits and   *)
(* whoever is woken, the n-th pop called returns the item of the n-th push *)
(* called, and the pops return in the order of their calls.                *)
(***************************************************************************)
THEOREM ServesInOrder == ChSpec => InOrder
<1>1. ChInit => Order!MOInit
  BY DEF ChInit, Order!MOInit
<1>2. BaseInv /\ LineInv /\ [ChNext]_allvars => [Order!MONext]_Shown
  BY OrderStep
<1>3. Shown = Order!movars
  BY DEF Shown, Order!movars
<1>4. BaseInv /\ LineInv /\ [ChNext]_allvars => [Order!MONext]_(Order!movars)
  BY <1>2, <1>3 DEF Shown, Order!movars
<1> QED BY <1>1, <1>4, SpecLineInv, PTL DEF ChSpec, InOrder, Order!MOSpec
===============================================================================
