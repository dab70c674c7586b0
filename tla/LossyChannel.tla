---------------------------- MODULE LossyChannel -----------------------------
(***************************************************************************)
(* What the tunnel of ws_client.py promises to the threads that publish    *)
(* frames: a frame is sent once; it may be lost, before it is in transit,  *)
(* with everything in transit, or at the end; what arrives arrives once    *)
(* and in the order it was sent.                                           *)
(***************************************************************************)
EXTENDS Naturals, Sequences

CONSTANT Messages

VARIABLES sent, transit, received

channelVars == <<sent, transit, received>>

IsSent(m) == \E i \in DOMAIN sent : sent[i] = m

Send(m) ==
  /\ ~IsSent(m) /\ sent' = Append(sent, m)
  /\ \/ transit' = Append(transit, m)
     \/ UNCHANGED transit
  /\ UNCHANGED received

Arrive ==
  /\ transit # << >> /\ transit' = Tail(transit)
  /\ received' = Append(received, Head(transit)) /\ UNCHANGED sent

LoseFirst == transit # << >> /\ transit' = Tail(transit) /\ UNCHANGED <<sent, received>>

LoseAll == transit' = << >> /\ UNCHANGED <<sent, received>>

ChannelInit == sent = << >> /\ transit = << >> /\ received = << >>

ChannelNext == (\E m \in Messages : Send(m)) \/ Arrive \/ LoseFirst \/ LoseAll

ChannelSpec == ChannelInit /\ [][ChannelNext]_channelVars

-----------------------------------------------------------------------------
\* m was sent before n.
SentBefore(m, n) ==
  \E i, j \in DOMAIN sent : i < j /\ sent[i] = m /\ sent[j] = n

\* Messages are received at most once each and in the order they were sent.
ReceivedInOrder ==
  \A i, j \in DOMAIN received : i < j => SentBefore(received[i], received[j])
=============================================================================
