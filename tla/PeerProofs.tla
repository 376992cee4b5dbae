----------------------------- MODULE PeerProofs -----------------------------
(***************************************************************************)
(* The flow control of a peer is exact for every size of message and every *)
(* limit: what the operations on its queues do to their sums, the          *)
(* inductive invariant, and the properties that follow from it.            *)
(*                                                                         *)
(* nSendSize and nProcessQueueSize are sums over queues, so the invariant  *)
(* needs to know what Total does to a concatenation.  That is proved by    *)
(* induction, stated over sets: a set of naturals that contains 0 and the  *)
(* successors of its members contains them all.                            *)
(***************************************************************************)
EXTENDS Peer, WellFoundedInduction, SequenceTheorems, TLAPS

-----------------------------------------------------------------------------
(* Totals.                                                                 *)

\* Induction: a set that contains 0 and is closed under successors contains Nat.
LEMMA NatInd ==
  ASSUME NEW S, 0 \in S, \A n \in Nat : n \in S => n + 1 \in S
  PROVE  Nat \subseteq S
<1> SUFFICES ASSUME Nat \ S # {} PROVE FALSE
  OBVIOUS
<1>1. PICK x \in Nat \ S : \A y \in Nat \ S : ~ (<<y, x>> \in OpToRel(<, Nat))
  BY WFMin, NatLessThanWellFounded, Zenon
<1>2. x - 1 \in Nat /\ x - 1 < x /\ (x - 1) + 1 = x
  OBVIOUS
<1>3. <<x - 1, x>> \in OpToRel(<, Nat)
  BY <1>2, Zenon DEF OpToRel
<1>4. QED  BY <1>1, <1>2, <1>3, Zenon

\* f is the function that the definition of Total recurs over.
Sums(w, f) == f = [i \in 0 .. Len(w) |-> IF i = 0 THEN 0 ELSE f[i - 1] + w[i]]

\* The recursion of Total has a solution, and its values are naturals.
LEMMA SumsExist ==
  ASSUME NEW w \in Seq(Nat)
  PROVE  \E f : Sums(w, f) /\ f \in [0 .. Len(w) -> Nat]
<1> DEFINE P(n, f) == /\ f \in [0 .. n -> Nat]
                      /\ f = [i \in 0 .. n |-> IF i = 0 THEN 0 ELSE f[i - 1] + w[i]]
           S == {n \in Nat : n <= Len(w) => \E f : P(n, f)}
<1>1. 0 \in S
  <2>1. P(0, [i \in 0 .. 0 |-> 0])
    OBVIOUS
  <2>2. QED  BY <2>1
<1>2. ASSUME NEW n \in Nat, n \in S PROVE n + 1 \in S
  <2> HIDE DEF P
  <2> SUFFICES ASSUME n + 1 <= Len(w) PROVE \E f : P(n + 1, f)
    OBVIOUS
  <2> USE DEF P
  <2>1. PICK f : P(n, f)
    BY <1>2
  <2> DEFINE g == [i \in 0 .. n + 1 |-> IF i = n + 1 THEN f[n] + w[n + 1] ELSE f[i]]
  <2>2. w[n + 1] \in Nat /\ f[n] \in Nat
    BY <2>1
  <2>3. g \in [0 .. n + 1 -> Nat]
    BY <2>1, <2>2
  <2>4. \A i \in 0 .. n + 1 : g[i] = IF i = 0 THEN 0 ELSE g[i - 1] + w[i]
    <3> TAKE i \in 0 .. n + 1
    <3>1. CASE i = n + 1
      BY <2>1, <2>2, <3>1
    <3>2. CASE i # n + 1
      <4>1. /\ i \in 0 .. n /\ g[i] = f[i]
            /\ i # 0 => i - 1 \in 0 .. n /\ g[i - 1] = f[i - 1]
        BY <3>2
      <4>2. f[i] = IF i = 0 THEN 0 ELSE f[i - 1] + w[i]
        BY <2>1, <4>1, Zenon
      <4>3. QED  BY <4>1, <4>2, Zenon
    <3>3. QED  BY <3>1, <3>2, Zenon
  <2>5. P(n + 1, g)
    BY <2>3, <2>4
  <2>6. QED  BY <2>5
<1>3. Len(w) \in S
  <2> HIDE DEF S
  <2>1. Nat \subseteq S
    BY <1>1, <1>2, NatInd
  <2>2. QED  BY <2>1
<1>4. QED  BY <1>3 DEF Sums

\* f adds up w step by step.
Adds(f, w, n) == \A i \in 1 .. n : f[i] = f[i - 1] + w[i]

\* Two functions that add up the same weights from the same start agree.
LEMMA SumsUnique ==
  ASSUME NEW n \in Nat, NEW w, NEW f, NEW g, f[0] = g[0], Adds(f, w, n), Adds(g, w, n)
  PROVE  \A i \in 0 .. n : f[i] = g[i]
<1> USE DEF Adds
<1> DEFINE S == {i \in Nat : i <= n => f[i] = g[i]}
<1>1. 0 \in S
  OBVIOUS
<1>2. ASSUME NEW i \in Nat, i \in S, i + 1 <= n PROVE f[i + 1] = g[i + 1]
  <2>1. i + 1 \in 1 .. n /\ (i + 1) - 1 = i /\ f[i] = g[i]
    BY <1>2
  <2>2. QED  BY <2>1
<1>3. \A i \in Nat : i \in S => i + 1 \in S
  BY <1>2
<1>4. Nat \subseteq S
  <2> HIDE DEF S
  <2> QED  BY <1>1, <1>3, NatInd, Zenon
<1>5. QED  BY <1>4

\* Total(w) is the last of the partial sums of w.
LEMMA TotalSums ==
  ASSUME NEW w \in Seq(Nat)
  PROVE  \E f \in [0 .. Len(w) -> Nat] :
           /\ f[0] = 0 /\ Adds(f, w, Len(w))
           /\ Total(w) = f[Len(w)]
<1> DEFINE f == CHOOSE g : Sums(w, g)
<1>1. Total(w) = f[Len(w)]
  BY DEF Total, Sums
<1>2. Sums(w, f)
  BY SumsExist
<1> HIDE DEF f
<1>3. PICK h : Sums(w, h) /\ h \in [0 .. Len(w) -> Nat]
  BY SumsExist
<1>4. ASSUME NEW g, Sums(w, g) PROVE g[0] = 0 /\ Adds(g, w, Len(w))
  <2>1. \A i \in 0 .. Len(w) : g[i] = IF i = 0 THEN 0 ELSE g[i - 1] + w[i]
    BY <1>4 DEF Sums
  <2>2. QED  BY <2>1 DEF Adds
<1>5. \A i \in 0 .. Len(w) : f[i] = h[i]
  BY <1>2, <1>3, <1>4, SumsUnique
<1>6. f \in [0 .. Len(w) -> Nat]
  BY <1>2, <1>3, <1>5, Zenon DEF Sums
<1>7. QED  BY <1>1, <1>2, <1>4, <1>6, Zenon

\* A total of naturals is a natural.
LEMMA TotalNat == ASSUME NEW w \in Seq(Nat) PROVE Total(w) \in Nat
BY TotalSums

\* The totals of no and of one weight.
LEMMA TotalShort == Total(<<>>) = 0 /\ \A n \in Nat : Total(<<n>>) = n
<1>1. Total(<<>>) = 0
  <2>1. <<>> \in Seq(Nat) /\ Len(<<>>) = 0
    OBVIOUS
  <2>2. QED  BY <2>1, TotalSums
<1>2. ASSUME NEW n \in Nat PROVE Total(<<n>>) = n
  <2>1. <<n>> \in Seq(Nat) /\ Len(<<n>>) = 1 /\ <<n>>[1] = n
    OBVIOUS
  <2>2. PICK f \in [0 .. 1 -> Nat] : /\ f[0] = 0 /\ Adds(f, <<n>>, 1)
                                     /\ Total(<<n>>) = f[1]
    BY <2>1, TotalSums
  <2>3. QED  BY <2>1, <2>2 DEF Adds
<1>3. QED  BY <1>1, <1>2

\* The total of a concatenation is the sum of the totals.
LEMMA TotalConcat ==
  ASSUME NEW u \in Seq(Nat), NEW v \in Seq(Nat)
  PROVE  Total(u \o v) = Total(u) + Total(v)
<1> DEFINE w == u \o v
<1>1. /\ w \in Seq(Nat) /\ Len(w) = Len(u) + Len(v) /\ Len(u) \in Nat /\ Len(v) \in Nat
      /\ \A i \in 1 .. Len(u) : w[i] = u[i]
      /\ \A i \in 1 .. Len(v) : w[Len(u) + i] = v[i]
  OBVIOUS
<1> HIDE DEF w
<1>2. PICK fu \in [0 .. Len(u) -> Nat] :
        /\ fu[0] = 0 /\ Adds(fu, u, Len(u))
        /\ Total(u) = fu[Len(u)]
  BY TotalSums
<1>3. PICK fv \in [0 .. Len(v) -> Nat] :
        /\ fv[0] = 0 /\ Adds(fv, v, Len(v))
        /\ Total(v) = fv[Len(v)]
  BY TotalSums
<1>4. PICK f \in [0 .. Len(w) -> Nat] :
        /\ f[0] = 0 /\ Adds(f, w, Len(w))
        /\ Total(w) = f[Len(w)]
  BY <1>1, TotalSums
<1>5. f[Len(u)] = Total(u)
  <2>1. Adds(f, u, Len(u))
    <3> USE DEF Adds
    <3> TAKE i \in 1 .. Len(u)
    <3>1. i \in 1 .. Len(w) /\ w[i] = u[i]
      BY <1>1
    <3>2. QED  BY <1>4, <3>1, Zenon
  <2>2. Len(u) \in Nat /\ f[0] = fu[0] /\ Adds(fu, u, Len(u))
    BY <1>1, <1>2, <1>4, Zenon
  <2>3. \A i \in 0 .. Len(u) : f[i] = fu[i]
    <3> DEFINE a == f  b == fu  n == Len(u)
    <3>1. n \in Nat /\ a[0] = b[0] /\ Adds(a, u, n) /\ Adds(b, u, n)
      BY <2>1, <2>2
    <3> HIDE DEF a, b, n
    <3>2. \A i \in 0 .. n : a[i] = b[i]
      BY <3>1, SumsUnique
    <3>3. QED  BY <3>2 DEF a, b, n
  <2>4. QED  BY <1>2, <2>2, <2>3
<1> DEFINE g == [i \in 0 .. Len(v) |-> f[Len(u) + i]]
           h == [i \in 0 .. Len(v) |-> Total(u) + fv[i]]
<1>6. Adds(g, v, Len(v))
  <2> USE DEF Adds
  <2> TAKE i \in 1 .. Len(v)
  <2>1. /\ Len(u) + i \in 1 .. Len(w) /\ (Len(u) + i) - 1 = Len(u) + (i - 1)
        /\ i \in 0 .. Len(v) /\ i - 1 \in 0 .. Len(v)
    <3>1. Len(u) \in Nat /\ Len(v) \in Nat /\ Len(w) = Len(u) + Len(v)
      BY <1>1, Zenon
    <3> HIDE DEF g, h
    <3>2. QED  BY <3>1
  <2>2. f[Len(u) + i] = f[Len(u) + (i - 1)] + w[Len(u) + i] /\ w[Len(u) + i] = v[i]
    BY <1>1, <1>4, <2>1
  <2>3. QED  BY <2>1, <2>2, Zenon
<1>7. Adds(h, v, Len(v))
  <2> USE DEF Adds
  <2> TAKE i \in 1 .. Len(v)
  <2>1. i \in 0 .. Len(v) /\ i - 1 \in 0 .. Len(v) /\ v[i] \in Nat
    <3> HIDE DEF g, h
    <3>1. Len(v) \in Nat
      BY <1>1, Zenon
    <3>2. i \in 0 .. Len(v) /\ i - 1 \in 0 .. Len(v)
      BY <3>1
    <3>3. v[i] \in Nat
      OBVIOUS
    <3>4. QED  BY <3>2, <3>3
  <2>2. Total(u) \in Nat /\ fv[i - 1] \in Nat /\ fv[i] = fv[i - 1] + v[i]
    <3> HIDE DEF g, h
    <3>1. Total(u) \in Nat
      BY TotalNat
    <3>2. fv[i - 1] \in Nat
      BY <2>1
    <3>3. fv[i] = fv[i - 1] + v[i]
      BY <1>3, Zenon
    <3>4. QED  BY <3>1, <3>2, <3>3, Zenon
  <2>3. QED  BY <2>1, <2>2
<1>8. g[0] = h[0]
  BY <1>1, <1>3, <1>5, TotalNat
<1> HIDE DEF g, h
<1>9. \A i \in 0 .. Len(v) : g[i] = h[i]
  BY <1>1, <1>6, <1>7, <1>8, SumsUnique
<1>10. f[Len(u) + Len(v)] = Total(u) + fv[Len(v)]
  <2>1. Len(v) \in 0 .. Len(v)
    BY <1>1
  <2>2. g[Len(v)] = h[Len(v)]
    BY <1>9, <2>1
  <2>3. QED  BY <2>1, <2>2 DEF g, h
<1>11. QED  BY <1>1, <1>3, <1>4, <1>10, Zenon DEF w

\* ... and in particular when one weight is put in front.
LEMMA TotalFirst ==
  ASSUME NEW n \in Nat, NEW w \in Seq(Nat)
  PROVE  Total(<<n>> \o w) = n + Total(w) /\ Total(w) \in Nat
<1>1. <<n>> \in Seq(Nat)
  OBVIOUS
<1>2. Total(<<n>> \o w) = Total(<<n>>) + Total(w)
  BY <1>1, TotalConcat
<1>3. QED  BY <1>2, TotalShort, TotalNat

-----------------------------------------------------------------------------
(* The send side.                                                          *)

\* What SubSeq keeps when the first k elements, the sent buffers or the complete
\* messages, are erased.
LEMMA SuffixFacts ==
  ASSUME NEW S, NEW s \in Seq(S), NEW k \in 0 .. Len(s)
  PROVE  LET r == SubSeq(s, k + 1, Len(s))
         IN  /\ r \in Seq(S) /\ Len(r) = Len(s) - k
             /\ \A i \in 1 .. Len(s) - k : r[i] = s[k + i]
<1>1. k + 1 \in 1 .. Len(s) + 1 /\ Len(s) \in k + 1 - 1 .. Len(s)
  OBVIOUS
<1>2. QED  BY <1>1, SubSeqProperties

\* Nothing is erased.
LEMMA SuffixAll ==
  ASSUME NEW S, NEW s \in Seq(S)
  PROVE  SubSeq(s, 1, Len(s)) = s
OBVIOUS

\* One element more is erased.
LEMMA SuffixNext ==
  ASSUME NEW S, NEW s \in Seq(S), NEW k \in 0 .. Len(s) - 1
  PROVE  SubSeq(s, k + 1, Len(s)) = <<s[k + 1]>> \o SubSeq(s, k + 2, Len(s))
OBVIOUS

\* The buffers SocketSendData has not passed yet.
Unsent == SubSeq(vSendMsg, it + 1, Len(vSendMsg))

\* The types of the send side.
SendTypes ==
  /\ vSendMsg \in Seq(Nat \ {0}) /\ it \in 0 .. Len(vSendMsg)
  /\ nSendOffset \in Nat /\ nSendSize \in Nat /\ nSendBytes \in Nat
  /\ mapSendBytesPerMsgCmd \in Nat

\* The send side: nSendSize counts every unsent buffer in full, nSendOffset is inside the
\* first of them, and the counters of BytesConserved and PauseSendExact agree with both.
Sending ==
  /\ SendTypes
  /\ sender = "none" => it = 0
  /\ nSendSize = Total(Unsent)
  /\ IF it < Len(vSendMsg) THEN nSendOffset < vSendMsg[it + 1] ELSE nSendOffset = 0
  /\ BytesConserved /\ PauseSendExact

\* The unsent buffers are a sequence of sizes that starts with the current one.
LEMMA UnsentFact ==
  ASSUME SendTypes
  PROVE  /\ Unsent \in Seq(Nat \ {0}) /\ Unsent \in Seq(Nat)
         /\ Len(Unsent) = Len(vSendMsg) - it
         /\ it < Len(vSendMsg) => Unsent # <<>> /\ Unsent[1] = vSendMsg[it + 1]
         /\ it = Len(vSendMsg) => Unsent = <<>>
<1>1. Unsent \in Seq(Nat \ {0}) /\ Len(Unsent) = Len(vSendMsg) - it
  BY SuffixFacts DEF SendTypes, Unsent
<1>2. it < Len(vSendMsg) => Unsent[1] = vSendMsg[it + 1]
  BY SuffixFacts DEF SendTypes, Unsent
<1>3. Len(vSendMsg) \in Nat /\ it \in Nat
  BY DEF SendTypes
<1>4. Unsent \in Seq(Nat)
  BY <1>1
<1>5. QED  BY <1>1, <1>2, <1>3, <1>4

\* Erasing the sent buffers leaves the unsent ones as they are.
LEMMA SendReturnKeeps ==
  ASSUME SendTypes, NEW sent, sent = it, SendReturn(sent)
  PROVE  /\ vSendMsg' \in Seq(Nat \ {0}) /\ it' \in 0 .. Len(vSendMsg')
         /\ sender' = "none" /\ it' = 0 /\ vSendMsg' = Unsent /\ Unsent' = Unsent
<1>1. vSendMsg' = Unsent /\ it' = 0 /\ sender' = "none"
  BY Zenon DEF SendReturn, Unsent
<1>2. Unsent' = SubSeq(Unsent, 1, Len(Unsent))
  BY <1>1 DEF Unsent
<1>3. QED  BY <1>1, <1>2, UnsentFact, SuffixAll

\* Every step of SocketSendData keeps the send side consistent.
LEMMA SendKeeps ==
  ASSUME Sending, SocketSendData
  PROVE  Sending'
<1> USE DEF Sending
<1>1. CASE SendEnd
  <2>1. SendReturn(it) /\ it = Len(vSendMsg)
    BY <1>1, Zenon DEF SendEnd
  <2>2. UNCHANGED <<nSendOffset, nSendSize, fPauseSend, nSendBytes, mapSendBytesPerMsgCmd>>
    BY <1>1, Zenon DEF SendEnd
  <2>3. Unsent = <<>> /\ nSendOffset = 0
    BY <2>1, UnsentFact, Zenon DEF SendTypes
  <2>4. QED  BY <2>1, <2>2, <2>3, SendReturnKeeps DEF SendTypes, BytesConserved, PauseSendExact
<1>2. CASE SendBuffer
  <2>1. it \in 0 .. Len(vSendMsg) - 1 /\ it + 1 \in 1 .. Len(vSendMsg) /\ vSendMsg[it + 1] \in Nat \ {0}
    BY <1>2 DEF SendBuffer, SendTypes
  <2>2. Unsent = <<vSendMsg[it + 1]>> \o Unsent'
    <3>1. Unsent' = SubSeq(vSendMsg, it + 2, Len(vSendMsg))
      BY <1>2, <2>1 DEF SendBuffer, Unsent
    <3>2. QED  BY <2>1, <3>1, SuffixNext DEF SendTypes, Unsent
  <2>3. vSendMsg' = vSendMsg /\ it' = it + 1 /\ it' \in 0 .. Len(vSendMsg')
    BY <1>2, <2>1 DEF SendBuffer
  <2>4. Unsent' \in Seq(Nat)
    BY <2>3, SuffixFacts DEF Unsent, SendTypes
  <2>5. Total(Unsent) = vSendMsg[it + 1] + Total(Unsent') /\ Total(Unsent') \in Nat
    BY <2>1, <2>2, <2>4, TotalFirst, Zenon
  <2>6. nSendSize' = Total(Unsent')
    BY <1>2, <2>1, <2>5 DEF SendBuffer
  <2>7. nSendOffset' = 0 /\ nSendBytes' = nSendBytes + vSendMsg[it + 1] - nSendOffset
    BY <1>2, Zenon DEF SendBuffer
  <2>8. it' < Len(vSendMsg') => vSendMsg'[it' + 1] > 0
    BY <2>3 DEF SendTypes
  <2>9. SendTypes'
    <3>1. nSendSize' \in Nat
      BY <2>5, <2>6
    <3>2. nSendBytes' \in Nat
      <4>1. nSendBytes \in Nat /\ nSendOffset \in Nat /\ nSendOffset < vSendMsg[it + 1]
        BY <2>1 DEF SendTypes
      <4> HIDE DEF Sending
      <4>2. QED  BY <2>1, <2>7, <4>1
    <3>3. UNCHANGED mapSendBytesPerMsgCmd
      BY <1>2, Zenon DEF SendBuffer
    <3>4. QED  BY <2>3, <2>7, <3>1, <3>2, <3>3, Zenon DEF SendTypes
  <2>10. BytesConserved' /\ PauseSendExact'
    <3>1. UNCHANGED mapSendBytesPerMsgCmd /\ nSendSize' = nSendSize - vSendMsg[it + 1]
      BY <1>2, Zenon DEF SendBuffer
    <3>2. BytesConserved'
      <4>1. /\ nSendBytes \in Nat /\ nSendSize \in Nat /\ nSendOffset \in Nat
            /\ mapSendBytesPerMsgCmd = nSendBytes + nSendSize - nSendOffset
        BY Zenon DEF SendTypes, BytesConserved
      <4> HIDE DEF Sending
      <4> DEFINE size == vSendMsg[it + 1]
      <4>2. /\ size \in Nat /\ nSendBytes' = nSendBytes + size - nSendOffset
            /\ nSendSize' = nSendSize - size /\ nSendOffset' = 0
        BY <2>1, <2>7, <3>1, Zenon
      <4> HIDE DEF size
      <4>3. nSendBytes' + nSendSize' - nSendOffset' = nSendBytes + nSendSize - nSendOffset
        BY <4>1, <4>2
      <4>4. QED  BY <3>1, <4>1, <4>3, Zenon DEF BytesConserved
    <3>3. PauseSendExact'
      BY <1>2, Zenon DEF SendBuffer, PauseSendExact
    <3>4. QED  BY <3>2, <3>3
  <2>11. QED  BY <1>2, <2>3, <2>6, <2>7, <2>8, <2>9, <2>10, Zenon DEF SendBuffer
<1>3. ASSUME NEW n \in 1 .. nSendSize, SendPart(n) PROVE Sending'
  <2>1. SendReturn(it) /\ it < Len(vSendMsg) /\ n \in Nat
    BY <1>3 DEF SendPart, SendTypes
  <2>2. nSendOffset' = nSendOffset + n /\ nSendBytes' = nSendBytes + n
    BY <1>3, Zenon DEF SendPart
  <2>3. UNCHANGED <<nSendSize, fPauseSend, mapSendBytesPerMsgCmd>>
    BY <1>3, Zenon DEF SendPart
  <2>4. Unsent # <<>> /\ Unsent[1] = vSendMsg[it + 1] /\ Unsent[1] \in Nat /\ Len(Unsent) > 0
    BY <2>1, UnsentFact DEF SendTypes
  <2>5. nSendOffset' < Unsent[1]
    BY <1>3, <2>1, <2>2, <2>4 DEF SendPart, SendTypes
  <2>6. SendTypes'
    BY <2>1, <2>2, <2>3, SendReturnKeeps DEF SendTypes
  <2>7. BytesConserved' /\ PauseSendExact'
    BY <2>1, <2>2, <2>3 DEF SendTypes, BytesConserved, PauseSendExact
  <2>8. QED  BY <2>1, <2>3, <2>4, <2>5, <2>6, <2>7, SendReturnKeeps
<1>4. CASE SendNothing
  <2>1. SendReturn(it) /\ it < Len(vSendMsg)
    BY <1>4, Zenon DEF SendNothing
  <2>2. UNCHANGED <<nSendOffset, nSendSize, fPauseSend, nSendBytes, mapSendBytesPerMsgCmd>>
    BY <1>4, Zenon DEF SendNothing
  <2>3. Unsent # <<>> /\ Unsent[1] = vSendMsg[it + 1] /\ Len(Unsent) > 0
    BY <2>1, UnsentFact DEF SendTypes
  <2>4. SendTypes'
    BY <2>1, <2>2, SendReturnKeeps, Zenon DEF SendTypes
  <2>5. BytesConserved' /\ PauseSendExact'
    BY <2>2 DEF BytesConserved, PauseSendExact
  <2>6. QED  BY <2>1, <2>2, <2>3, <2>4, <2>5, SendReturnKeeps
<1>5. QED  BY <1>1, <1>2, <1>3, <1>4, Zenon DEF SocketSendData, SendProgress

\* PushMessage keeps the send side consistent.
LEMMA PushKeeps ==
  ASSUME Sending, NEW t \in Pushers, NEW size \in PushSizes, PushMessage(t, size)
  PROVE  Sending'
<1> USE DEF Sending
<1> DEFINE new == IF size = 0 THEN <<HEADER_SIZE>> ELSE <<HEADER_SIZE, size>>
<1>1. /\ sender = "none" /\ it = 0 /\ it' = 0 /\ vSendMsg' = vSendMsg \o new
      /\ nSendSize' = nSendSize + HEADER_SIZE + size
      /\ mapSendBytesPerMsgCmd' = mapSendBytesPerMsgCmd + HEADER_SIZE + size
      /\ UNCHANGED <<nSendOffset, nSendBytes>>
  BY Zenon DEF PushMessage
<1>2. size \in Nat /\ HEADER_SIZE \in Nat \ {0} /\ nSendBufferMaxSize \in Nat
  BY PeerAssumption, Zenon
<1>3. new \in Seq(Nat \ {0}) /\ new \in Seq(Nat) /\ Len(new) \in Nat \ {0} /\ new[1] = HEADER_SIZE
  <2>1. CASE size = 0
    BY <1>2, <2>1
  <2>2. CASE size # 0
    BY <1>2, <2>2
  <2>3. QED  BY <2>1, <2>2, Zenon
<1>4. Total(new) = HEADER_SIZE + size
  <2>1. CASE size = 0
    BY <1>2, <2>1, TotalShort
  <2>2. CASE size # 0
    <3>1. new = <<HEADER_SIZE>> \o <<size>> /\ <<size>> \in Seq(Nat)
      BY <1>2, <2>2
    <3>2. Total(<<HEADER_SIZE>> \o <<size>>) = HEADER_SIZE + Total(<<size>>)
      BY <1>2, <3>1, TotalFirst, Zenon
    <3>3. Total(<<size>>) = size
      BY <1>2, TotalShort
    <3>4. QED  BY <3>1, <3>2, <3>3
  <2>3. QED  BY <2>1, <2>2, Zenon
<1> HIDE DEF new
<1>5. vSendMsg \in Seq(Nat \ {0}) /\ vSendMsg \in Seq(Nat) /\ nSendSize = Total(vSendMsg)
  <2>1. vSendMsg \in Seq(Nat \ {0})
    BY Zenon DEF SendTypes
  <2>2. Unsent = SubSeq(vSendMsg, 1, Len(vSendMsg))
    BY <1>1 DEF Unsent
  <2>3. Unsent = vSendMsg
    BY <2>1, <2>2, SuffixAll
  <2>4. vSendMsg \in Seq(Nat)
    BY <2>1
  <2>5. QED  BY <2>1, <2>3, <2>4
<1>6. vSendMsg' \in Seq(Nat \ {0}) /\ Unsent' = vSendMsg'
  BY <1>1, <1>3, <1>5, SuffixAll DEF Unsent
<1>7. nSendSize' = Total(Unsent')
  BY <1>1, <1>2, <1>3, <1>4, <1>5, <1>6, TotalConcat, TotalNat
<1>8. fPauseSend' = (nSendSize' > nSendBufferMaxSize)
  <2>1. nSendSize \in Nat /\ nSendSize <= nSendSize'
    BY <1>1, <1>2 DEF SendTypes
  <2>2. fPauseSend => nSendSize' > nSendBufferMaxSize
    <3>1. fPauseSend => nSendSize > nSendBufferMaxSize
      BY DEF PauseSendExact
    <3> HIDE DEF Sending
    <3>2. nSendSize > nSendBufferMaxSize => nSendSize' > nSendBufferMaxSize
      BY <1>1, <1>2, <2>1
    <3>3. QED  BY <3>1, <3>2
  <2>3. fPauseSend' = (fPauseSend \/ nSendSize' > nSendBufferMaxSize) /\ fPauseSend \in BOOLEAN
    BY DEF PushMessage, PauseSendExact
  <2>4. QED  BY <2>2, <2>3
<1>9. SendTypes'
  <2>1. it' \in 0 .. Len(vSendMsg')
    BY <1>1, <1>6
  <2>2. QED  BY <1>1, <1>2, <1>6, <2>1 DEF SendTypes
<1>10. BytesConserved'
  <2>1. /\ nSendBytes \in Nat /\ nSendSize \in Nat /\ nSendOffset \in Nat
        /\ mapSendBytesPerMsgCmd = nSendBytes + nSendSize - nSendOffset
    BY Zenon DEF SendTypes, BytesConserved
  <2> HIDE DEF Sending
  <2>2. QED  BY <1>1, <1>2, <2>1 DEF BytesConserved
<1>11. it' < Len(vSendMsg') /\ nSendOffset' < vSendMsg'[it' + 1]
  <2>1. CASE vSendMsg = <<>>
    <3>1. vSendMsg' = new /\ nSendOffset = 0
      BY <1>1, <1>3, <2>1
    <3>2. QED  BY <1>1, <1>2, <1>3, <3>1
  <2>2. CASE vSendMsg # <<>>
    <3>1. Len(vSendMsg) > 0 /\ vSendMsg'[1] = vSendMsg[1] /\ Len(vSendMsg') = Len(vSendMsg) + Len(new)
      BY <1>1, <1>3, <1>5, <2>2
    <3>2. QED  BY <1>1, <1>3, <1>5, <3>1
  <2>3. QED  BY <2>1, <2>2, Zenon
<1>12. QED  BY <1>1, <1>7, <1>8, <1>9, <1>10, <1>11, Zenon DEF PauseSendExact

-----------------------------------------------------------------------------
(* The receive side.                                                       *)

\* The fields of a message.
LEMMA MessageFields ==
  \A m \in Message : /\ m.nHdrPos \in 0 .. HEADER_SIZE /\ m.in_data \in BOOLEAN
                     /\ m.nMessageSize \in Nat /\ m.nDataPos \in Nat /\ m.vRecv \in Nat
BY DEF Message

\* The announced sizes of a list of messages are a sequence of naturals.
LEMMA Weights ==
  ASSUME NEW s \in Seq(Message)
  PROVE  /\ [i \in 1 .. Len(s) |-> s[i].nMessageSize + HEADER_SIZE] \in Seq(Nat)
         /\ Len([i \in 1 .. Len(s) |-> s[i].nMessageSize + HEADER_SIZE]) = Len(s)
<1>1. HEADER_SIZE \in Nat
  BY PeerAssumption
<1>2. \A i \in 1 .. Len(s) : s[i] \in Message
  OBVIOUS
<1>3. \A i \in 1 .. Len(s) : s[i].nMessageSize \in Nat
  BY <1>2, MessageFields
<1>4. QED  BY <1>1, <1>3

\* An announced size is a natural.
LEMMA AnnouncedNat == ASSUME NEW s \in Seq(Message) PROVE AnnouncedSize(s) \in Nat
BY Weights, TotalNat, Zenon DEF AnnouncedSize

\* An empty queue announces nothing.
LEMMA AnnouncedEmpty == AnnouncedSize(<<>>) = 0
<1> DEFINE w == [i \in 1 .. Len(<<>>) |-> <<>>[i].nMessageSize + HEADER_SIZE]
<1>1. w = <<>>
  <2>1. w \in Seq(Nat) /\ Len(w) = 0
    BY Weights
  <2> HIDE DEF w
  <2>2. QED  BY <2>1
<1>2. QED  BY <1>1, TotalShort DEF AnnouncedSize

\* Announced sizes add up when messages are spliced behind others.
LEMMA AnnouncedConcat ==
  ASSUME NEW s \in Seq(Message), NEW t \in Seq(Message)
  PROVE  AnnouncedSize(s \o t) = AnnouncedSize(s) + AnnouncedSize(t)
<1> DEFINE W(r) == [i \in 1 .. Len(r) |-> r[i].nMessageSize + HEADER_SIZE]
<1>1. W(s) \in Seq(Nat) /\ W(t) \in Seq(Nat) /\ Len(W(s)) = Len(s) /\ Len(W(t)) = Len(t)
  BY Weights, Zenon
<1>2. W(s \o t) = W(s) \o W(t)
  <2>1. s \o t \in Seq(Message) /\ Len(s \o t) = Len(s) + Len(t)
    OBVIOUS
  <2>2. /\ W(s \o t) \in Seq(Nat) /\ Len(W(s \o t)) = Len(s) + Len(t)
        /\ W(s) \o W(t) \in Seq(Nat) /\ Len(W(s) \o W(t)) = Len(s) + Len(t)
    BY <1>1, <2>1, Weights
  <2>3. ASSUME NEW i \in 1 .. Len(s) + Len(t) PROVE W(s \o t)[i] = (W(s) \o W(t))[i]
    <3>1. CASE i <= Len(s)
      <4>1. (s \o t)[i] = s[i] /\ (W(s) \o W(t))[i] = W(s)[i]
        BY <1>1, <2>3, <3>1
      <4>2. QED  BY <2>1, <2>3, <3>1, <4>1
    <3>2. CASE i > Len(s)
      <4>1. /\ (s \o t)[i] = t[i - Len(s)] /\ (W(s) \o W(t))[i] = W(t)[i - Len(s)]
            /\ i - Len(s) \in 1 .. Len(t)
        BY <1>1, <2>3, <3>2
      <4>2. QED  BY <2>1, <2>3, <3>2, <4>1, Zenon
    <3>3. QED  BY <3>1, <3>2
  <2> DEFINE a == W(s \o t)  b == W(s) \o W(t)  n == Len(s) + Len(t)
  <2>4. a \in Seq(Nat) /\ b \in Seq(Nat) /\ Len(a) = n /\ Len(b) = n /\ \A i \in 1 .. n : a[i] = b[i]
    BY <2>2, <2>3, Zenon
  <2> HIDE DEF a, b, n
  <2>5. a = b
    BY <2>4, SeqEqual, Zenon
  <2>6. QED  BY <2>5, Zenon DEF a, b
<1>3. QED  BY <1>1, <1>2, TotalConcat DEF AnnouncedSize

\* ... and when the first message is taken out.
LEMMA AnnouncedFirst ==
  ASSUME NEW s \in Seq(Message), s # <<>>
  PROVE  AnnouncedSize(s) = Head(s).nMessageSize + HEADER_SIZE + AnnouncedSize(Tail(s))
<1>1. Head(s) \in Message /\ Tail(s) \in Seq(Message) /\ s = <<Head(s)>> \o Tail(s)
  OBVIOUS
<1> DEFINE m == Head(s)
<1>2. m.nMessageSize \in Nat /\ HEADER_SIZE \in Nat
  BY <1>1, PeerAssumption, Zenon DEF Message
<1>3. AnnouncedSize(<<m>>) = m.nMessageSize + HEADER_SIZE
  <2>1. [i \in 1 .. Len(<<m>>) |-> <<m>>[i].nMessageSize + HEADER_SIZE] = <<m.nMessageSize + HEADER_SIZE>>
    OBVIOUS
  <2>2. QED  BY <1>2, <2>1, TotalShort DEF AnnouncedSize
<1>4. <<m>> \in Seq(Message)
  BY <1>1
<1>5. AnnouncedSize(s) = AnnouncedSize(<<m>>) + AnnouncedSize(Tail(s))
  BY <1>1, <1>4, AnnouncedConcat
<1>6. QED  BY <1>3, <1>5

\* A message never has more data than room, nor more room than it announces.
Sound(m) ==
  IF m.in_data THEN m.nDataPos <= m.vRecv /\ m.vRecv <= m.nMessageSize
  ELSE m.nDataPos = 0 /\ m.vRecv = 0

\* The messages of s have exactly the room they announce.
Allocated(s) == \A i \in 1 .. Len(s) : s[i].vRecv = s[i].nMessageSize

\* What is accounted for such messages is what they announce.
LEMMA SizesAgree ==
  ASSUME NEW s \in Seq(Message), Allocated(s)
  PROVE  SizeOf(s) = AnnouncedSize(s)
<1>1. [i \in 1 .. Len(s) |-> s[i].vRecv + HEADER_SIZE] = [i \in 1 .. Len(s) |-> s[i].nMessageSize + HEADER_SIZE]
  BY Zenon DEF Allocated
<1>2. QED  BY <1>1 DEF SizeOf, AnnouncedSize

\* The types of the receive side.
RecvTypes ==
  /\ vRecvMsg \in Seq(Message) /\ vProcessMsg \in Seq(Message)
  /\ nProcessQueueSize \in Nat /\ nBytes \in 0 .. MaxRecv

\* The receive side: only the last message in vRecvMsg may be incomplete, the ones in
\* vProcessMsg are fully allocated, and nProcessQueueSize is what they announce.
Receiving ==
  /\ RecvTypes
  /\ \A i \in 1 .. Len(vRecvMsg) : Sound(vRecvMsg[i])
  /\ \A i \in 1 .. Len(vRecvMsg) - 1 : complete(vRecvMsg[i])
  /\ Allocated(vProcessMsg)
  /\ RecvAccounting

\* The socket thread reads a socket without an error only if receiving was not paused when
\* it called select(), and it cannot become paused before the bytes are spliced.
Paused ==
  /\ pcSocket = "service" /\ "recv" \in ready => ~fPauseRecv
  /\ pcSocket = "receive" /\ "error" \notin ready => ~fPauseRecv

\* A new message is sound.
LEMMA NewMessageFact == NewMessage \in Message /\ Sound(NewMessage)
BY PeerAssumption DEF NewMessage, Message, Sound

\* The message that receives the next bytes is sound, and those before it are complete.
LEMMA CurrentFact ==
  ASSUME Receiving
  PROVE  /\ Current \in Message /\ Sound(Current)
         /\ Earlier \in Seq(Message)
         /\ \A i \in 1 .. Len(Earlier) : complete(Earlier[i]) /\ Sound(Earlier[i])
         /\ \E k \in 0 .. Len(vRecvMsg) :
              Len(Earlier) = k /\ k \in {Len(vRecvMsg), Len(vRecvMsg) - 1}
<1> USE DEF Receiving, RecvTypes
<1>1. CASE Continues
  <2>1. Len(vRecvMsg) \in Nat \ {0}
    BY <1>1 DEF Continues
  <2>2. Current = vRecvMsg[Len(vRecvMsg)] /\ Earlier = SubSeq(vRecvMsg, 1, Len(vRecvMsg) - 1)
    BY <1>1 DEF Current, Earlier
  <2>3. /\ Earlier \in Seq(Message) /\ Len(Earlier) = Len(vRecvMsg) - 1
        /\ \A i \in 1 .. Len(vRecvMsg) - 1 : Earlier[i] = vRecvMsg[i]
    <3> DEFINE n == Len(vRecvMsg) - 1
    <3>1. /\ 1 \in 1 .. Len(vRecvMsg) + 1 /\ n \in 1 - 1 .. Len(vRecvMsg) /\ n \in Nat
          /\ vRecvMsg \in Seq(Message)
      BY <2>1
    <3> HIDE DEF n
    <3>2. /\ SubSeq(vRecvMsg, 1, n) \in Seq(Message) /\ Len(SubSeq(vRecvMsg, 1, n)) = n
          /\ \A i \in 1 .. n : SubSeq(vRecvMsg, 1, n)[i] = vRecvMsg[i]
      BY <3>1, SubSeqProperties
    <3>3. QED  BY <2>2, <3>2 DEF n
  <2>4. QED  BY <2>1, <2>2, <2>3
<1>2. CASE ~ Continues
  <2>1. Current = NewMessage /\ Earlier = vRecvMsg
    BY <1>2 DEF Current, Earlier
  <2>2. vRecvMsg # <<>> => complete(vRecvMsg[Len(vRecvMsg)])
    BY <1>2 DEF Continues
  <2>3. \A i \in 1 .. Len(vRecvMsg) : complete(vRecvMsg[i])
    BY <2>2
  <2>4. QED  BY <2>1, <2>3, NewMessageFact
<1>3. QED  BY <1>1, <1>2

\* Replacing the current message by a sound one keeps the receive side consistent.
LEMMA AppendKeeps ==
  ASSUME Receiving, NEW m \in Message, Sound(m), vRecvMsg' = Append(Earlier, m),
         nBytes' \in 0 .. MaxRecv, UNCHANGED processQueue
  PROVE  Receiving'
<1>1. /\ vRecvMsg' \in Seq(Message) /\ Len(vRecvMsg') = Len(Earlier) + 1 /\ Len(Earlier) \in Nat
      /\ \A i \in 1 .. Len(Earlier) : vRecvMsg'[i] = Earlier[i]
      /\ vRecvMsg'[Len(Earlier) + 1] = m
  BY CurrentFact
<1>2. \A i \in 1 .. Len(vRecvMsg') : Sound(vRecvMsg'[i])
  <2> TAKE i \in 1 .. Len(vRecvMsg')
  <2>1. CASE i = Len(Earlier) + 1
    BY <1>1, <2>1
  <2>2. CASE i # Len(Earlier) + 1
    <3>1. i \in 1 .. Len(Earlier)
      BY <1>1, <2>2
    <3>2. QED  BY <1>1, <3>1, CurrentFact
  <2>3. QED  BY <2>1, <2>2
<1>3. \A i \in 1 .. Len(vRecvMsg') - 1 : complete(vRecvMsg'[i])
  <2>1. Len(vRecvMsg') - 1 = Len(Earlier)
    BY <1>1
  <2>2. QED  BY <1>1, <2>1, CurrentFact
<1>4. RecvTypes' /\ Allocated(vProcessMsg)' /\ RecvAccounting'
  BY <1>1 DEF Receiving, RecvTypes, RecvAccounting, processQueue
<1>5. QED  BY <1>2, <1>3, <1>4 DEF Receiving, Sound, complete

\* readHeader keeps the receive side consistent, whether it goes on or refuses.
LEMMA HeaderKeeps ==
  ASSUME Receiving, NEW size \in MessageSizes, readHeader(size)
  PROVE  Receiving'
<1> DEFINE nCopy == Smaller(HEADER_SIZE - Current.nHdrPos, nBytes)
           msg == [Current EXCEPT !.nHdrPos = @ + nCopy]
           whole == [msg EXCEPT !.in_data = TRUE, !.nMessageSize = size]
<1>1. nBytes \in 0 .. MaxRecv /\ MaxRecv \in Nat /\ HEADER_SIZE \in Nat /\ size \in Nat
  BY PeerAssumption DEF Receiving, RecvTypes
<1>2. Current \in Message /\ Sound(Current) /\ ~ Current.in_data
  BY CurrentFact DEF readHeader
<1>3. /\ nCopy \in 0 .. nBytes /\ Current.nHdrPos + nCopy \in 0 .. HEADER_SIZE
      /\ nBytes - nCopy \in 0 .. MaxRecv /\ 0 \in 0 .. MaxRecv
  <2>1. Current.nHdrPos \in 0 .. HEADER_SIZE
    BY <1>2, MessageFields
  <2>2. QED  BY <1>1, <2>1 DEF Smaller
<1> HIDE DEF nCopy
<1>4. msg \in Message /\ Sound(msg) /\ msg.nDataPos = 0 /\ msg.vRecv = 0
  BY <1>2, <1>3 DEF Message, Sound
<1>5. whole \in Message /\ Sound(whole)
  <2> HIDE DEF msg
  <2>1. whole \in Message
    BY <1>1, <1>4 DEF Message
  <2>2. whole.in_data /\ whole.nDataPos = 0 /\ whole.vRecv = 0 /\ whole.nMessageSize = size
    BY <1>4 DEF Message
  <2> HIDE DEF whole
  <2>3. QED  BY <1>1, <2>1, <2>2 DEF Sound
<1>6. /\ \E m \in {msg, whole} : vRecvMsg' = Append(Earlier, m)
      /\ nBytes' \in {0, nBytes - nCopy} /\ UNCHANGED processQueue
  BY DEF readHeader, Absorb, Refuse, nCopy
<1> HIDE DEF msg, whole
<1>7. QED  BY <1>3, <1>4, <1>5, <1>6, AppendKeeps

\* readData keeps the receive side consistent: what it allocates ahead stays within the
\* announced size.
LEMMA DataKeeps ==
  ASSUME Receiving, readData
  PROVE  Receiving'
<1> DEFINE nCopy == Smaller(Current.nMessageSize - Current.nDataPos, nBytes)
           end == Current.nDataPos + nCopy
           alloc == IF Current.vRecv < end THEN Smaller(Current.nMessageSize, end + Ahead) ELSE Current.vRecv
           msg == [Current EXCEPT !.nDataPos = end,
                     !.vRecv = IF @ < end THEN Smaller(Current.nMessageSize, end + Ahead) ELSE @]
<1>1. nBytes \in 0 .. MaxRecv /\ MaxRecv \in Nat /\ Ahead \in Nat
  BY PeerAssumption DEF Receiving, RecvTypes
<1>2. Current \in Message /\ Sound(Current) /\ Current.in_data
  BY CurrentFact DEF readData
<1>3. /\ Current.nMessageSize \in Nat /\ Current.nDataPos \in Nat /\ Current.vRecv \in Nat
      /\ Current.nDataPos <= Current.vRecv /\ Current.vRecv <= Current.nMessageSize
  BY <1>2 DEF Message, Sound
<1>4. nCopy \in 0 .. nBytes /\ end \in Nat /\ end <= Current.nMessageSize
  BY <1>1, <1>3 DEF Smaller
<1>5. nBytes - nCopy \in 0 .. MaxRecv
  BY <1>1, <1>4
<1> HIDE DEF nCopy, end
<1>6. alloc \in Nat /\ end <= alloc /\ alloc <= Current.nMessageSize
  BY <1>1, <1>3, <1>4 DEF Smaller
<1>7. msg = [Current EXCEPT !.nDataPos = end, !.vRecv = alloc]
  BY <1>2 DEF Message
<1> HIDE DEF alloc, msg
<1>8. msg \in Message /\ Sound(msg)
  BY <1>2, <1>4, <1>6, <1>7 DEF Message, Sound
<1>9. vRecvMsg' = Append(Earlier, msg) /\ nBytes' = nBytes - nCopy /\ UNCHANGED processQueue
  BY DEF readData, Absorb, nCopy, end, msg
<1>10. QED  BY <1>5, <1>8, <1>9, AppendKeeps

\* Splicing accounts for what was allocated, which is what the complete messages announce.
LEMMA SpliceKeeps ==
  ASSUME Receiving, Splice
  PROVE  Receiving'
<1>1. nBytes' = nBytes
  BY DEF Splice
<1>2. CASE ~ notify
  <2>1. UNCHANGED <<vRecvMsg, processQueue>>
    BY <1>2 DEF Splice
  <2>2. QED  BY <1>1, <2>1 DEF Receiving, RecvTypes, RecvAccounting, processQueue
<1>3. CASE notify
  <2> DEFINE k == Len(Earlier)
  <2>1. /\ vProcessMsg' = vProcessMsg \o Earlier
        /\ vRecvMsg' = SubSeq(vRecvMsg, k + 1, Len(vRecvMsg))
        /\ nProcessQueueSize' = nProcessQueueSize + SizeOf(Earlier)
        /\ fPauseRecv' = (nProcessQueueSize' > nReceiveFloodSize)
    BY <1>3 DEF Splice
  <2>2. vRecvMsg \in Seq(Message) /\ vProcessMsg \in Seq(Message) /\ Earlier \in Seq(Message)
    BY CurrentFact DEF Receiving, RecvTypes
  <2>3. k \in 0 .. Len(vRecvMsg) /\ k \in {Len(vRecvMsg), Len(vRecvMsg) - 1}
    BY CurrentFact
  <2>4. /\ vRecvMsg' \in Seq(Message) /\ Len(vRecvMsg') = Len(vRecvMsg) - k
        /\ \A i \in 1 .. Len(vRecvMsg) - k : vRecvMsg'[i] = vRecvMsg[k + i]
    <3> HIDE DEF k
    <3> QED  BY <2>1, <2>2, <2>3, SuffixFacts
  <2> HIDE DEF k
  <2>5. /\ \A i \in 1 .. Len(vRecvMsg') : Sound(vRecvMsg'[i])
        /\ \A i \in 1 .. Len(vRecvMsg') - 1 : complete(vRecvMsg'[i])
    <3>1. \A i \in 1 .. Len(vRecvMsg') : k + i \in 1 .. Len(vRecvMsg) /\ vRecvMsg'[i] = vRecvMsg[k + i]
      BY <2>2, <2>3, <2>4
    <3>2. Len(vRecvMsg') - 1 <= 0
      BY <2>2, <2>3, <2>4
    <3>3. \A i \in 1 .. Len(vRecvMsg) : Sound(vRecvMsg[i])
      BY DEF Receiving
    <3>4. QED  BY <2>4, <3>1, <3>2, <3>3
  <2>6. Allocated(Earlier)
    <3> SUFFICES ASSUME NEW i \in 1 .. Len(Earlier) PROVE Earlier[i].vRecv = Earlier[i].nMessageSize
      BY DEF Allocated
    <3>1. complete(Earlier[i]) /\ Sound(Earlier[i]) /\ Earlier[i] \in Message
      BY <2>2, CurrentFact
    <3>2. QED  BY <3>1, MessageFields DEF complete, Sound
  <2>7. vProcessMsg' \in Seq(Message) /\ Allocated(vProcessMsg')
    <3>1. vProcessMsg' \in Seq(Message) /\ Len(vProcessMsg') = Len(vProcessMsg) + Len(Earlier)
      BY <2>1, <2>2
    <3>2. ASSUME NEW i \in 1 .. Len(vProcessMsg') PROVE vProcessMsg'[i].vRecv = vProcessMsg'[i].nMessageSize
      <4>1. CASE i <= Len(vProcessMsg)
        <5>1. vProcessMsg'[i] = vProcessMsg[i] /\ i \in 1 .. Len(vProcessMsg)
          BY <2>1, <2>2, <3>1, <3>2, <4>1
        <5>2. QED  BY <5>1 DEF Receiving, Allocated
      <4>2. CASE i > Len(vProcessMsg)
        <5>1. /\ vProcessMsg'[i] = Earlier[i - Len(vProcessMsg)]
              /\ i - Len(vProcessMsg) \in 1 .. Len(Earlier)
          BY <2>1, <2>2, <3>1, <3>2, <4>2
        <5>2. QED  BY <2>6, <5>1 DEF Allocated
      <4>3. QED  BY <2>2, <3>1, <4>1, <4>2
    <3>3. QED  BY <3>1, <3>2 DEF Allocated
  <2>8. nProcessQueueSize' = AnnouncedSize(vProcessMsg') /\ nProcessQueueSize' \in Nat
    <3>1. SizeOf(Earlier) = AnnouncedSize(Earlier)
      BY <2>2, <2>6, SizesAgree
    <3>2. AnnouncedSize(vProcessMsg') = AnnouncedSize(vProcessMsg) + AnnouncedSize(Earlier)
      BY <2>1, <2>2, AnnouncedConcat
    <3>3. nProcessQueueSize = AnnouncedSize(vProcessMsg)
      BY DEF Receiving, RecvAccounting
    <3>4. QED  BY <2>1, <2>7, <3>1, <3>2, <3>3, AnnouncedNat
  <2>9. nBytes \in 0 .. MaxRecv
    BY DEF Receiving, RecvTypes
  <2>10. RecvTypes' /\ RecvAccounting'
    BY <1>1, <2>1, <2>4, <2>7, <2>8, <2>9 DEF RecvTypes, RecvAccounting
  <2>11. Allocated(vProcessMsg)'
    BY <2>7 DEF Allocated
  <2>12. QED  BY <2>5, <2>10, <2>11 DEF Receiving, Sound, complete
<1>4. QED  BY <1>2, <1>3

\* Taking a message out keeps the receive side consistent and can only end a pause.
LEMMA TakeKeeps ==
  ASSUME Receiving, ProcessTake
  PROVE  Receiving' /\ nProcessQueueSize' <= nProcessQueueSize /\ (fPauseRecv' => fPauseRecv)
<1>1. UNCHANGED <<vRecvMsg, nBytes>>
  BY DEF ProcessTake, socket
<1>2. CASE vProcessMsg = <<>>
  <2>1. UNCHANGED processQueue
    BY <1>2 DEF ProcessTake
  <2>2. Receiving'
    BY <1>1, <2>1 DEF Receiving, RecvTypes, RecvAccounting, processQueue
  <2>3. QED  BY <2>1, <2>2 DEF processQueue, Receiving, RecvTypes
<1>3. CASE vProcessMsg # <<>>
  <2>1. /\ vProcessMsg' = Tail(vProcessMsg)
        /\ nProcessQueueSize' = nProcessQueueSize - (Head(vProcessMsg).vRecv + HEADER_SIZE)
        /\ fPauseRecv' = (nProcessQueueSize' > nReceiveFloodSize)
    BY <1>3 DEF ProcessTake
  <2>2. /\ vProcessMsg \in Seq(Message) /\ Len(vProcessMsg) \in Nat \ {0}
        /\ vProcessMsg' \in Seq(Message) /\ Len(vProcessMsg') = Len(vProcessMsg) - 1
        /\ \A i \in 1 .. Len(vProcessMsg) - 1 : vProcessMsg'[i] = vProcessMsg[i + 1]
        /\ Head(vProcessMsg) = vProcessMsg[1] /\ Head(vProcessMsg) \in Message
    BY <1>3, <2>1 DEF Receiving, RecvTypes
  <2>3. Head(vProcessMsg).vRecv = Head(vProcessMsg).nMessageSize
    <3>1. 1 \in 1 .. Len(vProcessMsg)
      BY <2>2
    <3>2. Allocated(vProcessMsg)
      BY DEF Receiving
    <3>3. vProcessMsg[1].vRecv = vProcessMsg[1].nMessageSize
      BY <3>1, <3>2 DEF Allocated
    <3>4. QED  BY <2>2, <3>3
  <2>4. Allocated(vProcessMsg')
    <3>1. \A i \in 1 .. Len(vProcessMsg') : /\ i + 1 \in 1 .. Len(vProcessMsg)
                                            /\ vProcessMsg'[i] = vProcessMsg[i + 1]
      BY <2>2
    <3>2. QED  BY <3>1 DEF Receiving, Allocated
  <2>5. HEADER_SIZE \in Nat /\ nReceiveFloodSize \in Nat /\ Head(vProcessMsg).vRecv \in Nat
    BY <2>2, MessageFields, PeerAssumption
  <2>6. nProcessQueueSize = AnnouncedSize(vProcessMsg) /\ nProcessQueueSize \in Nat
    BY DEF Receiving, RecvAccounting, RecvTypes
  <2>7. nProcessQueueSize' = AnnouncedSize(vProcessMsg') /\ nProcessQueueSize' \in Nat
    <3>1. AnnouncedSize(vProcessMsg)
            = Head(vProcessMsg).nMessageSize + HEADER_SIZE + AnnouncedSize(vProcessMsg')
      BY <1>3, <2>1, <2>2, AnnouncedFirst
    <3>2. AnnouncedSize(vProcessMsg') \in Nat
      BY <2>2, AnnouncedNat
    <3>3. QED  BY <2>1, <2>3, <2>5, <2>6, <3>1, <3>2
  <2>8. nProcessQueueSize' <= nProcessQueueSize
    BY <2>1, <2>5, <2>6
  <2>9. fPauseRecv' => fPauseRecv
    <3>1. fPauseRecv = (nProcessQueueSize > nReceiveFloodSize)
      BY DEF Receiving, RecvAccounting
    <3>2. nProcessQueueSize' > nReceiveFloodSize => nProcessQueueSize > nReceiveFloodSize
      BY <2>5, <2>6, <2>7, <2>8
    <3>3. QED  BY <2>1, <3>1, <3>2
  <2>10. RecvTypes' /\ RecvAccounting'
    BY <1>1, <2>1, <2>2, <2>7 DEF Receiving, RecvTypes, RecvAccounting
  <2>11. Allocated(vProcessMsg)'
    BY <2>4 DEF Allocated
  <2>12. QED  BY <1>1, <2>8, <2>9, <2>10, <2>11 DEF Receiving
<1>4. QED  BY <1>2, <1>3


(* The whole.                                                              *)

\* The types of the remaining variables.
Others ==
  /\ hSocket \in BOOLEAN /\ fDisconnect \in BOOLEAN
  /\ sender \in {"none", "socket"} \cup Pushers
  /\ fMsgProcWake \in BOOLEAN
  /\ pcSocket \in {"loop", "service", "receive", "send", "sending", "timeout", "gone"}
  /\ ready \subseteq {"recv", "send", "error"} /\ notify \in BOOLEAN
  /\ pcHandler \in {"loop", "take", "handle", "wait"}
  /\ fMoreWork \in BOOLEAN
  /\ pushes \in 0 .. MaxPush

\* The inductive invariant.
IInv == Sending /\ Receiving /\ Paused /\ Others

\* IInv holds for a new peer.
LEMMA InitIInv == Init => IInv
<1> SUFFICES ASSUME Init PROVE IInv
  OBVIOUS
<1>1. Sending
  <2>1. Unsent = <<>>
    BY DEF Init, Unsent
  <2>2. SendTypes /\ BytesConserved /\ it = Len(vSendMsg)
    BY DEF Init, SendTypes, BytesConserved
  <2>3. PauseSendExact
    <3>1. (nSendSize > nSendBufferMaxSize) = FALSE
      BY PeerAssumption DEF Init
    <3>2. fPauseSend = FALSE
      BY DEF Init
    <3>3. QED  BY <3>1, <3>2 DEF PauseSendExact
  <2>4. QED  BY <2>1, <2>2, <2>3, TotalShort DEF Init, Sending
<1>2. Receiving
  <2>1. RecvTypes
    BY PeerAssumption DEF Init, RecvTypes
  <2>2. RecvAccounting
    <3>1. (nProcessQueueSize > nReceiveFloodSize) = FALSE
      BY PeerAssumption DEF Init
    <3>2. fPauseRecv = FALSE /\ nProcessQueueSize = AnnouncedSize(vProcessMsg)
      BY AnnouncedEmpty DEF Init
    <3>3. QED  BY <3>1, <3>2 DEF RecvAccounting
  <2>3. QED  BY <2>1, <2>2 DEF Init, Receiving, Allocated
<1>3. Paused
  BY DEF Init, Paused
<1>4. pushes \in 0 .. MaxPush
  BY PeerAssumption DEF Init
<1>5. Others
  BY <1>4 DEF Init, Others
<1>6. QED  BY <1>1, <1>2, <1>3, <1>5 DEF IInv

\* A step that leaves the send queue alone keeps the send side consistent.
LEMMA SendingStays ==
  ASSUME Sending, UNCHANGED <<sendQueue, it>>, sender' = "none" => sender = "none"
  PROVE  Sending'
BY DEF Sending, SendTypes, Unsent, BytesConserved, PauseSendExact, sendQueue

\* A step that leaves both receive queues alone keeps the receive side consistent.
LEMMA ReceivingStays ==
  ASSUME Receiving, UNCHANGED <<vRecvMsg, processQueue>>, nBytes' \in 0 .. MaxRecv
  PROVE  Receiving'
BY DEF Receiving, RecvTypes, RecvAccounting, Allocated, Sound, complete, processQueue

\* IInv is kept by SocketSendData, ...
LEMMA SendStep ==
  ASSUME IInv, SocketSendData
  PROVE  IInv'
<1>1. UNCHANGED <<vRecvMsg, processQueue, nBytes, ready, fMsgProcWake, notify, handler, pushes>>
  BY DEF SocketSendData, SendProgress, SendEnd, SendBuffer, SendPart, SendNothing, socket
<1>2. /\ sender' \in {"none", sender} /\ pcSocket' \in {pcSocket, "timeout"}
      /\ hSocket' \in {hSocket, FALSE} /\ fDisconnect' \in {fDisconnect, TRUE}
  BY DEF SocketSendData, SendProgress, SendEnd, SendBuffer, SendPart, SendNothing, SendReturn,
         socket, conn, CloseSocketDisconnect
<1>3. Sending' /\ Receiving'
  BY <1>1, SendKeeps, ReceivingStays DEF IInv, Receiving, RecvTypes
<1>4. Paused'
  BY <1>1, <1>2 DEF IInv, Paused, processQueue
<1>5. Others'
  <2>1. Others
    BY DEF IInv
  <2>2. hSocket' \in BOOLEAN /\ fDisconnect' \in BOOLEAN
    BY <1>2, <2>1 DEF Others
  <2>3. sender' \in {"none", "socket"} \cup Pushers
    BY <1>2, <2>1 DEF Others
  <2>4. pcSocket' \in {"loop", "service", "receive", "send", "sending", "timeout", "gone"}
    BY <1>2, <2>1 DEF Others
  <2>5. QED  BY <1>1, <2>1, <2>2, <2>3, <2>4 DEF Others, handler
<1>6. QED  BY <1>3, <1>4, <1>5 DEF IInv

\* ... by PushMessage, ...
LEMMA PushStep ==
  ASSUME IInv, NEW t \in Pushers, NEW size \in PushSizes, PushMessage(t, size)
  PROVE  IInv'
<1>1. UNCHANGED <<conn, vRecvMsg, processQueue, fMsgProcWake, socket, handler>>
  BY DEF PushMessage
<1>2. sender' \in {"none"} \cup Pushers /\ pushes' \in 0 .. MaxPush
  BY PeerAssumption DEF PushMessage, IInv, Others
<1>3. Sending' /\ Receiving'
  BY <1>1, PushKeeps, ReceivingStays DEF IInv, Receiving, RecvTypes, socket
<1>4. Paused' /\ Others'
  BY <1>1, <1>2 DEF IInv, Paused, Others, processQueue, socket, conn, handler
<1>5. QED  BY <1>3, <1>4 DEF IInv

\* ... by the message handler thread, ...
LEMMA HandlerStep ==
  ASSUME IInv, ThreadMessageHandler
  PROVE  IInv'
<1>1. UNCHANGED <<hSocket, vRecvMsg, sendQueue, lock, socket, pushes>>
  BY DEF ThreadMessageHandler, HandlerLoop, ProcessTake, ProcessHandle, HandlerWait, conn
<1>2. Sending'
  BY <1>1, SendingStays DEF IInv, lock
<1>3. Receiving' /\ (fPauseRecv' => fPauseRecv)
  <2>1. CASE ProcessTake
    BY <2>1, TakeKeeps DEF IInv
  <2>2. CASE HandlerLoop \/ ProcessHandle \/ HandlerWait
    <3>1. UNCHANGED processQueue
      BY <2>2 DEF HandlerLoop, ProcessHandle, HandlerWait
    <3>2. QED  BY <1>1, <3>1, ReceivingStays DEF IInv, Receiving, RecvTypes, socket, processQueue
  <2>3. QED  BY <2>1, <2>2 DEF ThreadMessageHandler
<1>4. Paused'
  BY <1>1, <1>3 DEF IInv, Paused, socket
<1>5. Others'
  <2>1. CASE HandlerLoop
    BY <2>1 DEF IInv, Others, HandlerLoop, conn, lock, socket
  <2>2. CASE ProcessTake
    BY <2>2 DEF IInv, Others, ProcessTake, conn, lock, socket
  <2>3. CASE ProcessHandle
    BY <2>3 DEF IInv, Others, ProcessHandle, lock, socket
  <2>4. CASE HandlerWait
    BY <2>4 DEF IInv, Others, HandlerWait, conn, lock, socket
  <2>5. QED  BY <2>1, <2>2, <2>3, <2>4 DEF ThreadMessageHandler
<1>6. QED  BY <1>2, <1>3, <1>4, <1>5 DEF IInv

\* ... by the socket handler thread, ...
LEMMA SocketStep ==
  ASSUME IInv, ThreadSocketHandler
  PROVE  IInv'
<1>1. CASE ServiceSend
  <2>1. Sending'
    BY <1>1, SendingStays DEF IInv, ServiceSend
  <2>2. Receiving'
    BY <1>1, ReceivingStays DEF IInv, ServiceSend, Receiving, RecvTypes
  <2>3. Paused' /\ Others'
    BY <1>1 DEF IInv, ServiceSend, Paused, Others, conn, processQueue, handler
  <2>4. QED  BY <2>1, <2>2, <2>3 DEF IInv
<1>2. CASE ~ ServiceSend
  <2>1. UNCHANGED <<sendQueue, lock, handler, pushes>>
    BY <1>2 DEF ThreadSocketHandler, DisconnectNodes, Select, SkipClosed, RecvClosed, RecvNothing,
                RecvBytes, readHeader, readData, Splice, InactivityTimeout, NoTimeout
  <2>2. Sending'
    BY <2>1, SendingStays DEF IInv, lock
  <2>3. CASE \E n \in 1 .. MaxRecv : RecvBytes(n)
    <3>1. UNCHANGED <<conn, vRecvMsg, processQueue, fMsgProcWake, ready, notify>>
      BY <2>3 DEF RecvBytes
    <3>2. pcSocket' = "receive" /\ nBytes' \in 0 .. MaxRecv /\ Readable
      BY <2>3, PeerAssumption DEF RecvBytes
    <3>3. Paused'
      BY <3>1, <3>2 DEF IInv, Paused, Readable, processQueue
    <3>4. Others'
      BY <2>1, <3>1, <3>2 DEF IInv, Others, conn, lock, handler
    <3>5. QED  BY <2>2, <3>1, <3>2, <3>3, <3>4, ReceivingStays DEF IInv
  <2>4. CASE (\E size \in MessageSizes : readHeader(size)) \/ readData
    <3>1. Receiving'
      BY <2>4, HeaderKeeps, DataKeeps DEF IInv
    <3>2. UNCHANGED <<processQueue, fMsgProcWake, ready, pcSocket>>
      BY <2>4 DEF readHeader, readData, Absorb, Refuse
    <3>3. /\ hSocket' \in BOOLEAN /\ fDisconnect' \in BOOLEAN /\ notify' \in BOOLEAN
      BY <2>4 DEF IInv, Others, readHeader, readData, Absorb, Refuse, CloseSocketDisconnect, conn
    <3>4. Paused' /\ Others'
      BY <2>1, <3>2, <3>3 DEF IInv, Paused, Others, lock, handler, processQueue
    <3>5. QED  BY <2>2, <3>1, <3>4 DEF IInv
  <2>5. CASE Splice
    <3>1. Receiving'
      BY <2>5, SpliceKeeps DEF IInv
    <3>2. /\ pcSocket' \in {"send", "timeout"} /\ notify' = FALSE /\ fMsgProcWake' \in BOOLEAN
          /\ UNCHANGED <<conn, ready>>
      BY <2>5 DEF IInv, Others, Splice, AfterRecv
    <3>3. Paused' /\ Others'
      BY <2>1, <3>2 DEF IInv, Paused, Others, lock, handler, conn
    <3>4. QED  BY <2>2, <3>1, <3>3 DEF IInv
  <2>6. CASE Select
    <3>1. UNCHANGED <<conn, vRecvMsg, processQueue, fMsgProcWake, nBytes, notify>>
      BY <2>6 DEF Select
    <3>2. /\ pcSocket' = "service" /\ ready' \subseteq {"recv", "send", "error"}
          /\ "recv" \in ready' => ~fPauseRecv
      <4>1. CASE vSendMsg # <<>>
        BY <2>6, <4>1 DEF Select
      <4>2. CASE vSendMsg = <<>> /\ fPauseRecv
        BY <2>6, <4>2 DEF Select
      <4>3. CASE vSendMsg = <<>> /\ ~fPauseRecv
        BY <2>6, <4>3 DEF Select
      <4>4. QED  BY <4>1, <4>2, <4>3
    <3>3. Paused' /\ Others'
      BY <2>1, <3>1, <3>2 DEF IInv, Paused, Others, conn, lock, handler, processQueue
    <3>4. QED  BY <2>2, <3>1, <3>3, ReceivingStays DEF IInv, Receiving, RecvTypes
  <2>7. CASE DisconnectNodes \/ SkipClosed \/ RecvClosed \/ RecvNothing \/ InactivityTimeout \/ NoTimeout
    <3>1. UNCHANGED <<vRecvMsg, processQueue, fMsgProcWake, nBytes, notify>>
      BY <2>7 DEF DisconnectNodes, SkipClosed, RecvClosed, RecvNothing, InactivityTimeout, NoTimeout
    <3>2. /\ pcSocket' \in {"gone", "loop", "send", "timeout"} /\ ready' \in {ready, {}}
          /\ hSocket' \in {hSocket, FALSE} /\ fDisconnect' \in {fDisconnect, TRUE}
      BY <2>7 DEF DisconnectNodes, SkipClosed, RecvClosed, RecvNothing, InactivityTimeout, NoTimeout,
                  AfterRecv, CloseSocketDisconnect, conn
    <3>3. Paused'
      BY <3>2 DEF Paused
    <3>4. ready' \subseteq {"recv", "send", "error"} /\ hSocket' \in BOOLEAN /\ fDisconnect' \in BOOLEAN
      BY <3>2 DEF IInv, Others
    <3>5. Others'
      BY <2>1, <3>1, <3>2, <3>4 DEF IInv, Others, lock, handler
    <3>6. QED  BY <2>2, <3>1, <3>3, <3>5, ReceivingStays DEF IInv, Receiving, RecvTypes
  <2>8. QED  BY <1>2, <2>3, <2>4, <2>5, <2>6, <2>7 DEF ThreadSocketHandler
<1>3. QED  BY <1>1, <1>2

\* ... and so by every step.
LEMMA NextIInv == IInv /\ [Next]_vars => IInv'
<1> SUFFICES ASSUME IInv, [Next]_vars PROVE IInv'
  OBVIOUS
<1>1. CASE UNCHANGED vars
  <2>1. UNCHANGED <<vRecvMsg, processQueue, nBytes, sendQueue, it, sender>>
    BY <1>1 DEF vars, lock, socket
  <2>2. Sending' /\ Receiving'
    BY <2>1, SendingStays, ReceivingStays DEF IInv, Receiving, RecvTypes
  <2>3. Paused' /\ Others'
    BY <1>1 DEF IInv, Paused, Others, vars, conn, lock, socket, handler, processQueue
  <2>4. QED  BY <2>2, <2>3 DEF IInv
<1>2. QED  BY <1>1, SendStep, PushStep, HandlerStep, SocketStep DEF Next

\* IInv holds in every reachable state.
THEOREM PeerIInv == Spec => []IInv
BY InitIInv, NextIInv, PTL DEF Spec

\* Every variable of Peer keeps its type; nProcessQueueSize and nSendSize, which the code
\* keeps in size_t, are never taken below zero.
THEOREM PeerTypeOK == Spec => []TypeOK
<1>1. IInv => TypeOK
  <2> SUFFICES ASSUME IInv PROVE TypeOK
    OBVIOUS
  <2>1. fPauseRecv \in BOOLEAN /\ fPauseSend \in BOOLEAN
    BY DEF IInv, Receiving, RecvAccounting, Sending, PauseSendExact
  <2>2. SendTypes /\ RecvTypes /\ Others
    BY DEF IInv, Sending, Receiving
  <2>3. QED  BY <2>1, <2>2 DEF SendTypes, RecvTypes, Others, TypeOK
<1>2. QED  BY <1>1, PeerIInv, PTL

\* nProcessQueueSize is what the messages in vProcessMsg announce and fPauseRecv is exact,
\* although the socket thread adds what it allocated and the message handler subtracts it.
THEOREM AccountingTheorem == Spec => []RecvAccounting
<1>1. IInv => RecvAccounting
  BY DEF IInv, Receiving
<1>2. QED  BY <1>1, PeerIInv, PTL

\* The assert()s of SocketSendData (net.cpp:918, 956, 957) hold, for every pattern of partial
\* sends, failures and messages pushed in between.
THEOREM SendAssertsTheorem == Spec => []SendAsserts
<1>1. IInv => SendAsserts
  <2> SUFFICES ASSUME IInv PROVE SendAsserts
    OBVIOUS
  <2>1. CASE it < Len(vSendMsg)
    <3>1. /\ nSendOffset < vSendMsg[it + 1] /\ nSendOffset \in Nat
          /\ vSendMsg \in Seq(Nat \ {0}) /\ it \in 0 .. Len(vSendMsg)
      BY <2>1 DEF IInv, Sending, SendTypes
    <3>2. QED  BY <2>1, <3>1 DEF SendAsserts
  <2>2. CASE ~ (it < Len(vSendMsg))
    <3>1. it = Len(vSendMsg)
      BY <2>2 DEF IInv, Sending, SendTypes
    <3>2. Unsent = <<>>
      BY <3>1, UnsentFact DEF IInv, Sending
    <3>3. nSendOffset = 0 /\ nSendSize = 0
      BY <2>2, <3>2, TotalShort DEF IInv, Sending
    <3>4. QED  BY <2>2, <3>3 DEF SendAsserts
  <2>3. QED  BY <2>1, <2>2
<1>2. QED  BY <1>1, PeerIInv, PTL

\* Every byte PushMessage has accepted has been sent or is accounted for as unsent.
THEOREM BytesTheorem == Spec => []BytesConserved
<1>1. IInv => BytesConserved
  BY DEF IInv, Sending
<1>2. QED  BY <1>1, PeerIInv, PTL

\* fPauseSend is exact after every push and every send.
THEOREM PauseSendTheorem == Spec => []PauseSendExact
<1>1. IInv => PauseSendExact
  BY DEF IInv, Sending
<1>2. QED  BY <1>1, PeerIInv, PTL

\* Only an error reported for its socket lets a peer that is paused add to vProcessMsg.
THEOREM PauseRecvTheorem == Spec => PauseHoldsBack
<1>1. ASSUME IInv, [Next]_vars
      PROVE  [nProcessQueueSize' > nProcessQueueSize /\ "error" \notin ready => ~fPauseRecv]_vars
  <2> SUFFICES ASSUME nProcessQueueSize' > nProcessQueueSize, "error" \notin ready PROVE ~fPauseRecv
    OBVIOUS
  <2>1. nProcessQueueSize \in Nat
    BY <1>1 DEF IInv, Receiving, RecvTypes
  <2>2. nProcessQueueSize' # nProcessQueueSize /\ ~ (nProcessQueueSize' <= nProcessQueueSize)
    <3>1. nProcessQueueSize' \in Nat
      BY <1>1, NextIInv DEF IInv, Receiving, RecvTypes
    <3>2. QED  BY <2>1, <3>1
  <2>3. ~ ProcessTake
    BY <1>1, <2>2, TakeKeeps DEF IInv
  <2>4. Splice
    BY <1>1, <2>2, <2>3
    DEF Next, vars, ThreadSocketHandler, DisconnectNodes, Select, SkipClosed, RecvClosed, RecvNothing,
        RecvBytes, readHeader, readData, ServiceSend, InactivityTimeout, NoTimeout,
        ThreadMessageHandler, HandlerLoop, ProcessHandle, HandlerWait, SocketSendData, SendProgress,
        SendEnd, SendBuffer, SendPart, SendNothing, PushMessage, processQueue
  <2>5. QED  BY <1>1, <2>4 DEF IInv, Paused, Splice
<1>2. QED  BY <1>1, PeerIInv, PTL DEF Spec, PauseHoldsBack
=============================================================================
