------------------------- MODULE LossyChannelProofs -------------------------
(***************************************************************************)
(* The lossy channel keeps the order, for any messages: what is received   *)
(* and, behind it, what is in transit is in the order it was sent.  As no  *)
(* message is sent twice, none is received twice.                          *)
(***************************************************************************)
EXTENDS LossyChannel, SequenceTheorems, TLAPS

\* The channel in sequences.
Sequential == sent \in Seq(Messages) /\ transit \in Seq(Messages) /\ received \in Seq(Messages)

\* Nothing is sent twice.
SentOnce == \A i, j \in DOMAIN sent : sent[i] = sent[j] => i = j

\* What is in transit or arrived was sent.
NothingMadeUp ==
  /\ \A i \in DOMAIN transit : IsSent(transit[i])
  /\ \A i \in DOMAIN received : IsSent(received[i])

\* What arrived, and behind it what is in transit, is in the order of sending.
InOrder ==
  /\ \A i, j \in DOMAIN transit : i < j => SentBefore(transit[i], transit[j])
  /\ \A i \in DOMAIN received, j \in DOMAIN transit : SentBefore(received[i], transit[j])
  /\ ReceivedInOrder

\* The inductive invariant of the channel.
ChannelInv == Sequential /\ SentOnce /\ NothingMadeUp /\ InOrder

\* Nothing is sent at first.
LEMMA ChannelInvInitial == ChannelInit => ChannelInv
BY DEF ChannelInit, ChannelInv, Sequential, SentOnce, NothingMadeUp, InOrder, ReceivedInOrder

\* The elements of what Append and Tail make.
LEMMA AppendElements ==
  ASSUME NEW S, NEW s \in Seq(S), NEW e \in S
  PROVE  /\ Append(s, e) \in Seq(S)
         /\ DOMAIN Append(s, e) = DOMAIN s \cup {Len(s) + 1}
         /\ \A i \in DOMAIN s : Append(s, e)[i] = s[i] /\ i < Len(s) + 1
         /\ Append(s, e)[Len(s) + 1] = e
         /\ DOMAIN s \subseteq Nat /\ Len(s) + 1 \notin DOMAIN s
OBVIOUS

\* The first element of a sequence, and where the others are.
LEMMA TailElements ==
  ASSUME NEW S, NEW s \in Seq(S), s # << >>
  PROVE  /\ Tail(s) \in Seq(S) /\ Head(s) \in S /\ Head(s) = s[1] /\ 1 \in DOMAIN s
         /\ \A i \in DOMAIN Tail(s) : i + 1 \in DOMAIN s /\ Tail(s)[i] = s[i + 1] /\ i \in Nat \ {0}
OBVIOUS

\* What was sent stays sent, and before what it was sent before.
LEMMA SendKeepsOrder ==
  ASSUME ChannelInv, NEW m \in Messages, Send(m)
  PROVE  /\ \A a : IsSent(a) => IsSent(a)' /\ SentBefore(a, m)'
         /\ \A a, b : SentBefore(a, b) => SentBefore(a, b)'
         /\ IsSent(m)' /\ sent' \in Seq(Messages) /\ SentOnce'
<1>1. sent' = Append(sent, m) /\ ~IsSent(m) /\ sent \in Seq(Messages)
  BY DEF Send, ChannelInv, Sequential
<1>2. /\ sent' \in Seq(Messages)
      /\ DOMAIN sent' = DOMAIN sent \cup {Len(sent) + 1}
      /\ \A i \in DOMAIN sent : sent'[i] = sent[i] /\ i < Len(sent) + 1
      /\ sent'[Len(sent) + 1] = m
  BY <1>1, AppendElements
<1>3. SentOnce'
  BY <1>1, <1>2 DEF ChannelInv, SentOnce, IsSent
<1>4. QED
  BY <1>2, <1>3 DEF IsSent, SentBefore

\* What is sent goes behind everything.
LEMMA SendKeepsInv ==
  ASSUME ChannelInv, NEW m \in Messages, Send(m)
  PROVE  ChannelInv'
<1>1. /\ \A a : IsSent(a) => IsSent(a)' /\ SentBefore(a, m)'
      /\ \A a, b : SentBefore(a, b) => SentBefore(a, b)'
      /\ IsSent(m)' /\ sent' \in Seq(Messages) /\ SentOnce'
  BY SendKeepsOrder
<1>2. received' = received /\ transit \in Seq(Messages) /\ received \in Seq(Messages)
  BY DEF Send, ChannelInv, Sequential
<1>3. CASE transit' = transit
  <2>1. Sequential'
    BY <1>1, <1>2, <1>3 DEF Sequential
  <2>2. NothingMadeUp'
    BY <1>1, <1>2, <1>3 DEF ChannelInv, NothingMadeUp
  <2>3. InOrder'
    BY <1>1, <1>2, <1>3 DEF ChannelInv, InOrder, ReceivedInOrder
  <2>4. QED
    BY <1>1, <2>1, <2>2, <2>3 DEF ChannelInv
<1>4. CASE transit' = Append(transit, m)
  <2>1. /\ transit' \in Seq(Messages)
        /\ DOMAIN transit' = DOMAIN transit \cup {Len(transit) + 1}
        /\ \A i \in DOMAIN transit : transit'[i] = transit[i] /\ i < Len(transit) + 1
        /\ transit'[Len(transit) + 1] = m
        /\ DOMAIN transit \subseteq Nat
    BY <1>2, <1>4, AppendElements
  <2>2. Sequential'
    BY <1>1, <1>2, <2>1 DEF Sequential
  <2>3. NothingMadeUp'
    BY <1>1, <1>2, <2>1 DEF ChannelInv, NothingMadeUp
  <2>4. InOrder'
    <3>1. ASSUME NEW i \in DOMAIN transit', NEW j \in DOMAIN transit', i < j
          PROVE  SentBefore(transit[i], transit[j])'
      <4>1. i \in DOMAIN transit
        BY <2>1, <3>1, Len(transit) \in Nat, <1>2
      <4>2. CASE j \in DOMAIN transit
        BY <1>1, <2>1, <3>1, <4>1, <4>2 DEF ChannelInv, InOrder
      <4>3. CASE j = Len(transit) + 1
        BY <1>1, <2>1, <4>1, <4>3 DEF ChannelInv, NothingMadeUp
      <4>4. QED
        BY <2>1, <4>2, <4>3
    <3>2. ASSUME NEW i \in DOMAIN received, NEW j \in DOMAIN transit'
          PROVE  SentBefore(received[i], transit[j])'
      BY <1>1, <1>2, <2>1 DEF ChannelInv, NothingMadeUp, InOrder
    <3>3. ReceivedInOrder'
      BY <1>1, <1>2 DEF ChannelInv, InOrder, ReceivedInOrder
    <3>4. QED
      BY <1>2, <3>1, <3>2, <3>3 DEF InOrder
  <2>5. QED
    BY <1>1, <2>2, <2>3, <2>4 DEF ChannelInv
<1>5. QED
  BY <1>3, <1>4 DEF Send
\* What leaves the transit, into what is received or not, was sent before the rest of it.
LEMMA FirstLeavesKeepsInv ==
  ASSUME ChannelInv, Arrive \/ LoseFirst
  PROVE  ChannelInv'
<1>1. transit # << >> /\ transit' = Tail(transit) /\ sent' = sent
  BY DEF Arrive, LoseFirst
<1>2. transit \in Seq(Messages) /\ received \in Seq(Messages) /\ sent \in Seq(Messages)
  BY DEF ChannelInv, Sequential
<1>3. /\ transit' \in Seq(Messages)
      /\ Head(transit) \in Messages /\ Head(transit) = transit[1] /\ 1 \in DOMAIN transit
      /\ \A i \in DOMAIN transit' :
           i + 1 \in DOMAIN transit /\ transit'[i] = transit[i + 1] /\ i \in Nat \ {0}
  BY <1>1, <1>2, TailElements
<1>4. /\ \A a : IsSent(a)' <=> IsSent(a)
      /\ \A a, b : SentBefore(a, b)' <=> SentBefore(a, b)
  BY <1>1 DEF IsSent, SentBefore
<1>5. /\ \A i \in DOMAIN transit' : IsSent(transit'[i])
      /\ \A i, j \in DOMAIN transit' : i < j => SentBefore(transit'[i], transit'[j])
  BY <1>3 DEF ChannelInv, NothingMadeUp, InOrder
<1>6. \A j \in DOMAIN transit' : SentBefore(Head(transit), transit'[j])
  <2>1. \A j \in DOMAIN transit' : 1 < j + 1
    BY <1>3
  <2>2. QED
    BY <1>3, <2>1 DEF ChannelInv, InOrder
<1>7. SentOnce'
  BY <1>1 DEF ChannelInv, SentOnce
<1>8. CASE received' = received
  <2>1. Sequential'
    BY <1>1, <1>2, <1>3, <1>8 DEF Sequential
  <2>2. NothingMadeUp'
    BY <1>4, <1>5, <1>8 DEF ChannelInv, NothingMadeUp
  <2>3. \A i \in DOMAIN received, j \in DOMAIN transit' : SentBefore(received[i], transit'[j])
    BY <1>3 DEF ChannelInv, InOrder
  <2>4. InOrder'
    BY <1>4, <1>5, <1>8, <2>3 DEF ChannelInv, InOrder, ReceivedInOrder
  <2>5. QED
    BY <1>7, <2>1, <2>2, <2>4 DEF ChannelInv
<1>9. CASE received' = Append(received, Head(transit))
  <2>1. /\ received' \in Seq(Messages)
        /\ DOMAIN received' = DOMAIN received \cup {Len(received) + 1}
        /\ \A i \in DOMAIN received : received'[i] = received[i] /\ i < Len(received) + 1
        /\ received'[Len(received) + 1] = Head(transit)
        /\ DOMAIN received \subseteq Nat /\ Len(received) \in Nat
    BY <1>2, <1>3, <1>9, AppendElements
  <2>2. Sequential'
    BY <1>1, <1>2, <1>3, <2>1 DEF Sequential
  <2>3. NothingMadeUp'
    BY <1>3, <1>4, <1>5, <2>1 DEF ChannelInv, NothingMadeUp
  <2>4. \A i \in DOMAIN received', j \in DOMAIN transit' : SentBefore(received'[i], transit'[j])
    BY <1>3, <1>6, <2>1 DEF ChannelInv, InOrder
  <2>5. \A i, j \in DOMAIN received' : i < j => SentBefore(received'[i], received'[j])
    <3>1. SUFFICES ASSUME NEW i \in DOMAIN received', NEW j \in DOMAIN received', i < j
                   PROVE  SentBefore(received'[i], received'[j])
      OBVIOUS
    <3>2. i \in DOMAIN received
      BY <2>1, <3>1
    <3>3. CASE j \in DOMAIN received
      BY <2>1, <3>1, <3>2, <3>3 DEF ChannelInv, InOrder, ReceivedInOrder
    <3>4. CASE j = Len(received) + 1
      BY <1>3, <2>1, <3>2, <3>4 DEF ChannelInv, InOrder
    <3>5. QED
      BY <2>1, <3>3, <3>4
  <2>6. InOrder'
    BY <1>4, <1>5, <2>4, <2>5 DEF InOrder, ReceivedInOrder
  <2>7. QED
    BY <1>7, <2>2, <2>3, <2>6 DEF ChannelInv
<1>10. QED
  BY <1>8, <1>9 DEF Arrive, LoseFirst

\* What is lost in transit leaves what arrived in order.
LEMMA LoseAllKeepsInv ==
  ASSUME ChannelInv, LoseAll
  PROVE  ChannelInv'
BY DEF LoseAll, ChannelInv, Sequential, SentOnce, NothingMadeUp, InOrder, ReceivedInOrder,
       IsSent, SentBefore

\* Whatever is lost on the way, what arrives arrives in the order it was sent.
THEOREM ChannelKeepsOrder == ChannelSpec => []ReceivedInOrder
<1>1. ChannelInit => ChannelInv
  BY ChannelInvInitial
<1>2. ChannelInv /\ [ChannelNext]_channelVars => ChannelInv'
  <2>1. CASE \E m \in Messages : Send(m)
    BY <2>1, SendKeepsInv
  <2>2. CASE Arrive \/ LoseFirst
    BY <2>2, FirstLeavesKeepsInv
  <2>3. CASE LoseAll
    BY <2>3, LoseAllKeepsInv
  <2>4. CASE UNCHANGED channelVars
    BY <2>4 DEF channelVars, ChannelInv, Sequential, SentOnce, NothingMadeUp, InOrder,
                ReceivedInOrder, IsSent, SentBefore
  <2>5. QED
    BY <2>1, <2>2, <2>3, <2>4 DEF ChannelNext
<1>3. ChannelInv => ReceivedInOrder
  BY DEF ChannelInv, InOrder
<1>4. QED
  BY <1>1, <1>2, <1>3, PTL DEF ChannelSpec
=============================================================================
