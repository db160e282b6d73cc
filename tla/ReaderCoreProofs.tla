-------------------------- MODULE ReaderCoreProofs --------------------------
(***************************************************************************)
(* Theorems about ReaderCore, for any interfaces, subscribers, queue       *)
(* length and bounds.                                                      *)
(***************************************************************************)
EXTENDS ReaderCore, TLAPS

USE NotPlayingAssumption, CoreAssumption

-----------------------------------------------------------------------------
(* Type correctness                                                        *)

\* What a task has left to do says which fields its activation has.
LEMMA FrameFields ==
    ASSUME NEW f \in Frames
    PROVE  /\ f.at \in {"exchange", "indicate", "restore"} => f.mode \in Modes
           /\ f.at = "post" => /\ f.ev \in Events
                               /\ f.slot \in 1..(Len(Subs) + 1)
                               /\ f.after \in Patterns \cup {NotPlaying}
                               /\ f = [at |-> "post", ev |-> f.ev, slot |-> f.slot,
                                       after |-> f.after]
  BY DEF Frames, NoFrame

\* The activations the actions build are activations.
LEMMA FramesBuilt ==
    /\ NoFrame \in Frames
    /\ \A m \in Modes : /\ ExchangeTo(m) \in Frames
                        /\ IndicateOf(m) \in Frames
                        /\ RestoreOf(m) \in Frames
    /\ \A e \in Events, p \in Patterns \cup {NotPlaying} : PostOf(e, p) \in Frames
  BY DEF Frames, NoFrame, ExchangeTo, IndicateOf, RestoreOf, PostOf

LEMMA EventBuilt ==
    ASSUME NEW k \in Kinds, NEW m \in Modes, NEW c \in Nat
    PROVE  Event(k, m, c) \in Events
  BY DEF Event, Events

\* The pattern of a mode is a resting pattern.
LEMMA IndicatorOfMode ==
    ASSUME NEW m \in Modes
    PROVE  IndicatorOf(m) \in RestingPatterns
  BY DEF IndicatorOf, Modes, RestingPatterns

\* A post that moves on to the next slot is still a post.
LEMMA NextSlot ==
    ASSUME NEW f \in Frames, f.at = "post", f.slot \in DOMAIN Subs
    PROVE  [f EXCEPT !.slot = @ + 1] \in Frames
  <1>1. /\ f.ev \in Events /\ f.slot \in 1..Len(Subs)
        /\ f.after \in Patterns \cup {NotPlaying}
        /\ f = [at |-> "post", ev |-> f.ev, slot |-> f.slot, after |-> f.after]
    BY FrameFields
  <1>2. f.slot + 1 \in 1..(Len(Subs) + 1)
    BY <1>1
  <1>3. [f EXCEPT !.slot = @ + 1]
          = [at |-> "post", ev |-> f.ev, slot |-> f.slot + 1, after |-> f.after]
    BY <1>1
  <1> QED  BY <1>1, <1>2, <1>3 DEF Frames

\* Using one of the bounded stimuli counts it.
LEMMA UseCounts ==
    ASSUME used \in [Stimuli -> Nat], NEW s \in Stimuli, NEW max, Use(s, max)
    PROVE  used' \in [Stimuli -> Nat]
  BY DEF Use

\* Every variable keeps its type, through the whole life of the reader.
THEOREM TypeCorrect == Spec => []TypeOK
<1>1. Init => TypeOK
  <2> SUFFICES ASSUME Init PROVE TypeOK  OBVIOUS
  <2>1. frame \in [Tasks -> Frames]
    BY FramesBuilt DEF Init, FrameBoot
  <2>2. nfc \in [at : NfcAt, mode : Modes, cred : Nat]
    BY DEF Init, NfcBoot, NfcAtPoll, NfcAt, Modes, NoCred
  <2>3. IndTypeOK
    BY DEF Init, IndInit, IndTypeOK, Patterns, RestingPatterns
  <2> QED
    BY <2>1, <2>2, <2>3
    DEF Init, TypeOK, Modes, NoCred, QueueBoot, DropsBoot
<1>2. TypeOK /\ [Next]_vars => TypeOK'
  <2> SUFFICES ASSUME TypeOK, [Next]_vars PROVE TypeOK'  OBVIOUS
  <2> USE DEF TypeOK
  <2>1. ASSUME NEW t \in Tasks, ModeExchange(t) PROVE TypeOK'
    <3>1. frame[t].mode \in Modes
      BY <2>1, FrameFields DEF ModeExchange
    <3>2. frame' \in [Tasks -> Frames]
      BY <2>1, <3>1, FramesBuilt DEF ModeExchange
    <3> QED  BY <2>1, <3>1, <3>2 DEF ModeExchange, busVars, indVars, histVars, IndTypeOK
  <2>2. ASSUME NEW t \in Tasks, ModeIndicate(t) PROVE TypeOK'
    <3>1. frame[t].mode \in Modes
      BY <2>2, FrameFields DEF ModeIndicate
    <3>2. Event("MODE_CHANGED", frame[t].mode, NoCred) \in Events
      BY <3>1, EventBuilt DEF Kinds, NoCred
    <3>3. frame' \in [Tasks -> Frames]
      BY <2>2, <3>2, FramesBuilt DEF ModeIndicate
    <3>4. IndTypeOK'
      BY <2>2, <3>1, IndicatorOfMode DEF ModeIndicate, board_indicate, IndTypeOK, Patterns
    <3> QED  BY <2>2, <3>3, <3>4 DEF ModeIndicate, busVars, histVars
  <2>3. ASSUME NEW t \in Tasks, PostSlot(t) PROVE TypeOK'
    <3>1. frame' \in [Tasks -> Frames]
      BY <2>3, NextSlot DEF PostSlot
    <3>2. frame[t].ev \in Events /\ Subs[frame[t].slot] \in Subscribers
      BY <2>3, FrameFields DEF PostSlot, Subscribers
    <3>3. queue' \in [Subscribers -> Seq(Events)] /\ drops' \in [Subscribers -> Nat]
      <4> DEFINE s == Subs[frame[t].slot]
                 e == frame[t].ev
      <4> HIDE DEF s, e
      <4>1. s \in Subscribers /\ e \in Events /\ Deliver(s, e)
        BY <2>3, <3>2 DEF PostSlot, s, e
      <4>2. Append(queue[s], e) \in Seq(Events) /\ drops[s] + 1 \in Nat
        BY <4>1
      <4>3. CASE Len(queue[s]) < QueueLen
        BY <4>1, <4>2, <4>3 DEF Deliver
      <4>4. CASE ~(Len(queue[s]) < QueueLen)
        BY <4>1, <4>2, <4>4 DEF Deliver
      <4> QED  BY <4>3, <4>4
    <3> QED  BY <2>3, <3>1, <3>3 DEF PostSlot, indVars, histVars, IndTypeOK
  <2>4. ASSUME NEW t \in Tasks, PostDone(t) PROVE TypeOK'
    <3>1. frame[t].after \in Patterns \cup {NotPlaying}
      BY <2>4, FrameFields DEF PostDone
    <3>2. IndTypeOK'
      BY <2>4, <3>1 DEF PostDone, board_indicate, IndTypeOK, indVars
    <3>3. frame' \in [Tasks -> Frames]
      BY <2>4, FramesBuilt DEF PostDone
    <3> QED  BY <2>4, <3>2, <3>3 DEF PostDone, busVars, histVars
  <2>5. ASSUME NEW t \in Tasks, OsdpLedRestore(t) PROVE TypeOK'
    <3>1. IndicatorOf(frame[t].mode) \in RestingPatterns
      BY <2>5, FrameFields, IndicatorOfMode DEF OsdpLedRestore
    <3>2. IndTypeOK'
      BY <2>5, <3>1 DEF OsdpLedRestore, board_indicate, IndTypeOK, Patterns
    <3>3. frame' \in [Tasks -> Frames]
      BY <2>5, FramesBuilt DEF OsdpLedRestore
    <3> QED  BY <2>5, <3>2, <3>3 DEF OsdpLedRestore, busVars, histVars
  <2>6. ASSUME NEW t \in Uis, NEW m \in Modes, UiMode(t, m) PROVE TypeOK'
    <3>1. frame' \in [Tasks -> Frames]
      BY <2>6, FramesBuilt DEF UiMode
    <3>2. used' \in [Stimuli -> Nat]
      BY <2>6, UseCounts DEF UiMode, Stimuli
    <3> QED  BY <2>6, <3>1, <3>2 DEF UiMode, busVars, indVars, histVars, IndTypeOK
  <2>7. ASSUME NEW t \in Uis, UiEnroll(t) PROVE TypeOK'
    <3>1. frame' \in [Tasks -> Frames]
      BY <2>7, FramesBuilt DEF UiEnroll, mode_set_write_request, Modes
    <3> QED  BY <2>7, <3>1 DEF UiEnroll, mode_set_write_request, busVars, indVars, IndTypeOK
  <2>8. ASSUME NEW b \in {"SHORT", "LONG"}, ButtonRelease(b) PROVE TypeOK'
    <3>1. used' \in [Stimuli -> Nat]
      BY <2>8, UseCounts DEF ButtonRelease, Stimuli
    <3> QED  BY <2>8, <3>1 DEF ButtonRelease, busVars, indVars, histVars, IndTypeOK
  <2>9. ASSUME NfcPoll PROVE TypeOK'
    <3>1. Toggle(button, mode) \in Modes
      BY DEF Toggle, Modes
    <3>2. frame' \in [Tasks -> Frames]
      BY <2>9, <3>1, FramesBuilt DEF NfcPoll
    <3>3. nfc' \in [at : NfcAt, mode : Modes, cred : Nat]
      BY <2>9 DEF NfcPoll, NfcAt
    <3> QED  BY <2>9, <3>2, <3>3 DEF NfcPoll, busVars, indVars, histVars, IndTypeOK
  <2>10. ASSUME NfcFind PROVE TypeOK'
    <3>1. nfc' \in [at : NfcAt, mode : Modes, cred : Nat] /\ used' \in [Stimuli -> Nat]
      BY <2>10, UseCounts DEF NfcFind, NfcAt, Stimuli
    <3> QED  BY <2>10, <3>1 DEF NfcFind, busVars, indVars, histVars, IndTypeOK
  <2>11. ASSUME NfcSample PROVE TypeOK'
    <3>1. nfc' \in [at : NfcAt, mode : Modes, cred : Nat]
      BY <2>11 DEF NfcSample, NfcAt
    <3> QED  BY <2>11, <3>1 DEF NfcSample, busVars, indVars, histVars, IndTypeOK
  <2>12. ASSUME NEW k \in Kinds, NEW c \in Nat, NEW p \in EventPatterns,
                NfcReport(k, c, p)
         PROVE  /\ frame' \in [Tasks -> Frames]
                /\ nfc' \in [at : NfcAt, mode : Modes, cred : Nat]
    <3>1. PostOf(Event(k, nfc.mode, c), p) \in Frames
      BY EventBuilt, FramesBuilt DEF Patterns
    <3> QED  BY <2>12, <3>1 DEF NfcReport, NfcAtPoll, NfcAt, Modes, NoCred
  <2>13. ASSUME NfcRead PROVE TypeOK'
    <3>1. /\ frame' \in [Tasks -> Frames]
          /\ nfc' \in [at : NfcAt, mode : Modes, cred : Nat]
          /\ reads' \in Nat
      <4>1. reads + 1 \in Nat /\ NoCred \in Nat
            /\ {"IND_GRANT", "IND_DENY"} \subseteq EventPatterns
            /\ {"READ_OK", "READ_FAIL"} \subseteq Kinds
        BY DEF NoCred, EventPatterns, Kinds
      <4> QED  BY <2>13, <2>12, <4>1 DEF NfcRead
    <3> QED  BY <2>13, <3>1 DEF NfcRead, busVars, indVars, IndTypeOK
  <2>14. ASSUME NfcTake PROVE TypeOK'
    BY <2>14
    DEF NfcTake, mode_take_write_request, NfcAt, NoCred, busVars, indVars, histVars, IndTypeOK
  <2>15. ASSUME NfcWrite PROVE TypeOK'
    <3>1. /\ frame' \in [Tasks -> Frames]
          /\ nfc' \in [at : NfcAt, mode : Modes, cred : Nat]
      <4>1. nfc.cred \in Nat /\ NoCred \in Nat
            /\ {"IND_WROTE_OK", "IND_ERROR"} \subseteq EventPatterns
            /\ {"WRITE_OK", "WRITE_FAIL"} \subseteq Kinds
        BY DEF NoCred, EventPatterns, Kinds
      <4> QED  BY <2>15, <2>12, <4>1 DEF NfcWrite
    <3>2. written' \in Seq(Nat)
      <4>1. Append(written, nfc.cred) \in Seq(Nat)
        OBVIOUS
      <4>2. written' = Append(written, nfc.cred) \/ written' = written
        BY <2>15 DEF NfcWrite
      <4> QED  BY <4>1, <4>2
    <3> QED  BY <2>15, <3>1, <3>2 DEF NfcWrite, busVars, indVars, IndTypeOK
  <2>16. ASSUME OsdpOnlineChange PROVE TypeOK'
    <3>1. Event("MODE_CHANGED", mode, NoCred) \in Events
      BY EventBuilt DEF Kinds, NoCred
    <3>2. frame' \in [Tasks -> Frames]
      BY <2>16, <3>1, FramesBuilt DEF OsdpOnlineChange
    <3>3. used' \in [Stimuli -> Nat]
      BY <2>16, UseCounts DEF OsdpOnlineChange, Stimuli
    <3> QED
      BY <2>16, <3>2, <3>3 DEF OsdpOnlineChange, busVars, indVars, histVars, IndTypeOK
  <2>17. ASSUME NEW p \in {"IND_DENY", "IND_GRANT"}, OsdpLed(p) PROVE TypeOK'
    <3>1. used' \in [Stimuli -> Nat]
      BY <2>17, UseCounts DEF OsdpLed, Stimuli
    <3>2. IndTypeOK'
      BY <2>17 DEF OsdpLed, board_indicate, IndTypeOK, Patterns, EventPatterns
    <3> QED  BY <2>17, <3>1, <3>2 DEF OsdpLed, busVars, histVars
  <2>18. ASSUME OsdpLedNone PROVE TypeOK'
    <3>1. frame' \in [Tasks -> Frames]
      BY <2>18, FramesBuilt DEF OsdpLedNone
    <3>2. used' \in [Stimuli -> Nat]
      BY <2>18, UseCounts DEF OsdpLedNone, Stimuli
    <3> QED
      BY <2>18, <3>1, <3>2 DEF OsdpLedNone, busVars, indVars, histVars, IndTypeOK
  <2>19. ASSUME NEW s \in Subscribers, Consume(s) PROVE TypeOK'
    <3>1. Head(queue[s]) \in Events /\ queue' \in [Subscribers -> Seq(Events)]
      BY <2>19 DEF Consume, post_card_read
    <3>2. Head(queue[s]).cred \in Nat
      BY <3>1 DEF Events
    <3>3. panel' \in Seq(Nat)
      <4>1. Append(panel, Head(queue[s]).cred) \in Seq(Nat)
        BY <3>2
      <4> QED  BY <2>19, <4>1 DEF Consume, post_card_read
    <3> QED  BY <2>19, <3>1, <3>3 DEF Consume, post_card_read, indVars, IndTypeOK
  <2>20. ASSUME IndicatorStep PROVE TypeOK'
    <3>1. IndTypeOK'
      BY <2>20
      DEF IndicatorStep, IndNext, IndLoad, IndShown, IndRevert, IndTypeOK, Patterns
    <3> QED  BY <2>20, <3>1 DEF IndicatorStep, busVars, histVars
  <2>21. ASSUME Reboot PROVE TypeOK'
    <3>1. frame' \in [Tasks -> Frames]
      BY <2>21, FramesBuilt DEF Reboot, FrameBoot
    <3>2. nfc' \in [at : NfcAt, mode : Modes, cred : Nat]
      BY <2>21 DEF Reboot, NfcBoot, NfcAtPoll, NfcAt, Modes, NoCred
    <3>3. IndTypeOK'
      BY <2>21 DEF Reboot, IndTypeOK, Patterns, RestingPatterns
    <3>4. used' \in [Stimuli -> Nat]
      BY <2>21, UseCounts DEF Reboot, Stimuli
    <3> QED
      BY <2>21, <3>1, <3>2, <3>3, <3>4
      DEF Reboot, Modes, NoCred, QueueBoot, DropsBoot
  <2>22. CASE UNCHANGED vars
    BY <2>22 DEF vars, busVars, indVars, histVars, IndTypeOK
  <2> QED
    BY <2>1, <2>2, <2>3, <2>4, <2>5, <2>6, <2>7, <2>8, <2>9, <2>10, <2>11, <2>13, <2>14,
       <2>15, <2>16, <2>17, <2>18, <2>19, <2>20, <2>21, <2>22
    DEF Next, TaskStep, NfcStep
<1> QED  BY <1>1, <1>2, PTL DEF Spec
-----------------------------------------------------------------------------
(* Enrolments                                                              *)

\* EnrolledAtMostOnce made inductive: an enrolment that is still pending, or in the NFC
\* task's hands, is on no card yet, and is not in both places.
EnrolInv ==
    /\ EnrolledAtMostOnce
    /\ \A i \in DOMAIN written : written[i] <= enrolled
    /\ request <= enrolled /\ nfc.cred <= enrolled
    /\ nfc.cred # NoCred => nfc.at = "write" /\ nfc.cred # request
    /\ \A i \in DOMAIN written :
          written[i] # NoCred => written[i] # request /\ written[i] # nfc.cred

\* What a step leaves alone when it concerns no enrolment.
LEMMA EnrolUntouched ==
    ASSUME EnrolInv, UNCHANGED <<request, enrolled, written>>,
           nfc'.cred = nfc.cred, nfc.cred # NoCred => nfc'.at = nfc.at
    PROVE  EnrolInv'
  BY DEF EnrolInv, EnrolledAtMostOnce

\* Each enrolment command reaches at most one card, for any number of interfaces,
\* commands and restarts.
THEOREM EnrolledOnce == Spec => []EnrolledAtMostOnce
<1>1. Init => EnrolInv
  BY DEF Init, EnrolInv, EnrolledAtMostOnce, NfcBoot, NfcAtPoll, NoCred
<1>2. TypeOK /\ EnrolInv /\ [Next]_vars => EnrolInv'
  <2> SUFFICES ASSUME TypeOK, EnrolInv, [Next]_vars PROVE EnrolInv'  OBVIOUS
  <2>1. ASSUME NEW t \in Tasks, TaskStep(t) PROVE EnrolInv'
    BY <2>1, EnrolUntouched
    DEF TaskStep, ModeExchange, ModeIndicate, PostSlot, PostDone, OsdpLedRestore, histVars
  <2>2. ASSUME NEW t \in Uis, NEW m \in Modes, UiMode(t, m) PROVE EnrolInv'
    BY <2>2, EnrolUntouched DEF UiMode, histVars
  <2>3. ASSUME NEW t \in Uis, UiEnroll(t) PROVE EnrolInv'
    BY <2>3 DEF UiEnroll, mode_set_write_request, TypeOK, EnrolInv, EnrolledAtMostOnce, NoCred
  <2>4. ASSUME NfcPoll \/ NfcFind \/ NfcSample \/ NfcRead PROVE EnrolInv'
    <3>1. nfc.cred = NoCred /\ nfc'.cred = NoCred
      <4>1. nfc.at # "write"
        BY <2>4 DEF NfcPoll, NfcFind, NfcSample, NfcRead, AtNfc
      <4>2. nfc'.cred = nfc.cred \/ nfc'.cred = NoCred
        <5>1. CASE NfcPoll    BY <5>1 DEF NfcPoll, TypeOK
        <5>2. CASE NfcFind    BY <5>2 DEF NfcFind, TypeOK
        <5>3. CASE NfcSample  BY <5>3 DEF NfcSample, TypeOK
        <5>4. CASE NfcRead    BY <5>4 DEF NfcRead, NfcReport, NfcAtPoll
        <5> QED  BY <2>4, <5>1, <5>2, <5>3, <5>4
      <4> QED  BY <4>1, <4>2 DEF EnrolInv
    <3>2. UNCHANGED <<request, enrolled, written>>
      BY <2>4 DEF NfcPoll, NfcFind, NfcSample, NfcRead, histVars
    <3> QED  BY <3>1, <3>2, EnrolUntouched
  <2>5. ASSUME NfcTake PROVE EnrolInv'
    <3>1. nfc'.cred = request /\ nfc'.at = "write" /\ request' = NoCred
      BY <2>5 DEF NfcTake, mode_take_write_request, TypeOK
    <3> QED
      BY <2>5, <3>1
      DEF NfcTake, mode_take_write_request, histVars, TypeOK, EnrolInv, EnrolledAtMostOnce,
          NoCred
  <2>6. ASSUME NfcWrite PROVE EnrolInv'
    <3>1. nfc'.cred = NoCred /\ UNCHANGED <<request, enrolled>>
      BY <2>6 DEF NfcWrite, NfcReport, NfcAtPoll
    <3>2. CASE written' = Append(written, nfc.cred)
      <4>1. /\ DOMAIN written' = 1..(Len(written) + 1)
            /\ \A i \in DOMAIN written : written'[i] = written[i]
            /\ written'[Len(written) + 1] = nfc.cred
            /\ DOMAIN written = 1..Len(written) /\ Len(written) \in Nat
        BY <3>2 DEF TypeOK
      <4>2. \A i \in DOMAIN written' : i \in DOMAIN written \/ i = Len(written) + 1
        BY <4>1
      <4>3. EnrolledAtMostOnce'
        BY <4>1, <4>2 DEF EnrolInv, EnrolledAtMostOnce
      <4>4. \A i \in DOMAIN written' :
               /\ written'[i] <= enrolled
               /\ written'[i] # NoCred => written'[i] # request
        BY <4>1, <4>2 DEF EnrolInv
      <4> QED  BY <3>1, <4>3, <4>4 DEF EnrolInv, TypeOK, NoCred
    <3>3. CASE written' = written
      BY <3>1, <3>3 DEF EnrolInv, EnrolledAtMostOnce, NoCred, TypeOK
    <3> QED  BY <2>6, <3>2, <3>3 DEF NfcWrite
  <2>7. ASSUME NEW b \in {"SHORT", "LONG"}, ButtonRelease(b) PROVE EnrolInv'
    BY <2>7, EnrolUntouched DEF ButtonRelease, histVars
  <2>8. ASSUME OsdpOnlineChange PROVE EnrolInv'
    BY <2>8, EnrolUntouched DEF OsdpOnlineChange, histVars
  <2>9. ASSUME NEW p \in {"IND_DENY", "IND_GRANT"}, OsdpLed(p) PROVE EnrolInv'
    BY <2>9, EnrolUntouched DEF OsdpLed, histVars
  <2>10. ASSUME OsdpLedNone PROVE EnrolInv'
    BY <2>10, EnrolUntouched DEF OsdpLedNone, histVars
  <2>11. ASSUME NEW s \in Subscribers, Consume(s) PROVE EnrolInv'
    BY <2>11, EnrolUntouched DEF Consume, post_card_read
  <2>12. ASSUME IndicatorStep PROVE EnrolInv'
    BY <2>12, EnrolUntouched DEF IndicatorStep, histVars
  <2>13. ASSUME Reboot PROVE EnrolInv'
    <3>1. nfc'.cred = NoCred /\ request' = NoCred /\ UNCHANGED <<enrolled, written>>
      BY <2>13 DEF Reboot, NfcBoot, NfcAtPoll
    <3> QED  BY <3>1 DEF EnrolInv, EnrolledAtMostOnce, TypeOK, NoCred
  <2>14. CASE UNCHANGED vars
    BY <2>14, EnrolUntouched DEF vars, histVars
  <2> QED
    BY <2>1, <2>2, <2>3, <2>4, <2>5, <2>6, <2>7, <2>8, <2>9, <2>10, <2>11, <2>12, <2>13,
       <2>14
    DEF Next, NfcStep
<1>3. EnrolInv => EnrolledAtMostOnce
  BY DEF EnrolInv
<1> QED  BY <1>1, <1>2, <1>3, TypeCorrect, PTL DEF Spec
-----------------------------------------------------------------------------
(* The feed of reads                                                       *)

\* Good reads are posted by the NFC task alone.
ReadsPostedByNfc ==
    \A t \in Tasks \ {NFC} : frame[t].at = "post" => frame[t].ev.kind # "READ_OK"

\* A read that was made and is later than every submitted one.
Fresh(c) == c \in 1..reads /\ \A i \in DOMAIN panel : panel[i] < c

\* Queued reads are fresh and in order; the one being posted is later than all of them.
ReadsOrdered(q) ==
    /\ \A i \in DOMAIN q : q[i].kind = "READ_OK" => Fresh(q[i].cred)
    /\ \A i, j \in DOMAIN q :
          i < j /\ q[i].kind = "READ_OK" /\ q[j].kind = "READ_OK" => q[i].cred < q[j].cred
Later(c, q) == \A i \in DOMAIN q : q[i].kind = "READ_OK" => q[i].cred < c

FeedInv ==
    /\ ReadsPostedByNfc
    /\ \A i \in DOMAIN panel : panel[i] \in 1..reads
    /\ OSDP \in Subscribers =>
          /\ ReadsOrdered(queue[OSDP])
          /\ \A c \in PostedReads : Fresh(c) /\ Later(c, queue[OSDP])

\* Appending to a queue of events, element by element.
LEMMA AppendElements ==
    ASSUME NEW S, NEW q \in Seq(S), NEW e \in S
    PROVE  /\ DOMAIN Append(q, e) = DOMAIN q \cup {Len(q) + 1}
           /\ \A i \in DOMAIN q : i < Len(q) + 1 /\ Append(q, e)[i] = q[i]
           /\ Append(q, e)[Len(q) + 1] = e
  OBVIOUS

\* The tail of a queue, element by element.
LEMMA TailElements ==
    ASSUME NEW S, NEW q \in Seq(S), q # <<>>
    PROVE  /\ Head(q) = q[1] /\ 1 \in DOMAIN q
           /\ \A i \in DOMAIN Tail(q) : /\ i + 1 \in DOMAIN q /\ 1 < i + 1
                                        /\ Tail(q)[i] = q[i + 1]
           /\ \A i \in DOMAIN q : i = 1 \/ i - 1 \in DOMAIN Tail(q)
  OBVIOUS

\* Appending an event that is no read, or is later than all, keeps the queue ordered.
LEMMA AppendOrdered ==
    ASSUME NEW q \in Seq(Events), NEW e \in Events, ReadsOrdered(q),
           e.kind = "READ_OK" => Fresh(e.cred) /\ Later(e.cred, q)
    PROVE  /\ ReadsOrdered(Append(q, e))
           /\ \A c : Later(c, q) /\ e.kind # "READ_OK" => Later(c, Append(q, e))
  <1>1. /\ DOMAIN Append(q, e) = DOMAIN q \cup {Len(q) + 1}
        /\ \A i \in DOMAIN q : i < Len(q) + 1 /\ Append(q, e)[i] = q[i]
        /\ Append(q, e)[Len(q) + 1] = e
    BY AppendElements
  <1>2. DOMAIN q = 1..Len(q) /\ Len(q) \in Nat
    OBVIOUS
  <1> QED  BY <1>1, <1>2 DEF ReadsOrdered, Later

\* The index of the OSDP task's slot is the only one, so that once a post is past it the
\* read has left the post.
LEMMA OneSlot ==
    ASSUME NEW i \in DOMAIN Subs, NEW j \in DOMAIN Subs, Subs[i] = OSDP, Subs[j] = OSDP
    PROVE  i = j
  OBVIOUS

\* What a step leaves alone when it concerns no read.
LEMMA FeedUntouched ==
    ASSUME FeedInv, UNCHANGED <<reads, panel, queue>>, PostedReads' \subseteq PostedReads,
           ReadsPostedByNfc'
    PROVE  FeedInv' /\ [Feed!Next]_(Feed!vars)
  BY DEF FeedInv, ReadsOrdered, Later, Fresh, Feed!vars

\* An activation that is no post of a read, given to one task, posts nothing new.
LEMMA NoReadPosted ==
    ASSUME TypeOK, ReadsPostedByNfc, NEW t \in Tasks, NEW f,
           frame' = [frame EXCEPT ![t] = f],
           f.at = "post" => f.ev.kind # "READ_OK"
    PROVE  ReadsPostedByNfc' /\ PostedReads' \subseteq PostedReads
  BY DEF TypeOK, ReadsPostedByNfc, PostedReads, Tasks

LEMMA NoReadInFrame ==
    /\ NoFrame.at # "post"
    /\ \A m : ExchangeTo(m).at # "post" /\ IndicateOf(m).at # "post" /\ RestoreOf(m).at # "post"
    /\ \A m, p : PostOf(Event("MODE_CHANGED", m, NoCred), p).ev.kind # "READ_OK"
  BY DEF NoFrame, ExchangeTo, IndicateOf, RestoreOf, PostOf, Event

\* One step of a post: the read, if it is one, is queued behind the others or dropped.
LEMMA FeedPostSlot ==
    ASSUME TypeOK, FeedInv, NEW t \in Tasks, PostSlot(t)
    PROVE  FeedInv' /\ [Feed!Next]_(Feed!vars)
  <1> DEFINE f == frame[t]
             s == Subs[f.slot]
  <1>1. /\ f \in Frames /\ f.ev \in Events /\ f.slot \in DOMAIN Subs /\ f.at = "post"
        /\ s \in Subscribers /\ Deliver(s, f.ev)
    BY FrameFields DEF PostSlot, TypeOK, Subscribers
  <1>2. frame' = [frame EXCEPT ![t] = [f EXCEPT !.slot = @ + 1]]
    BY DEF PostSlot
  <1>3. /\ frame'[t] = [f EXCEPT !.slot = @ + 1]
        /\ \A u \in Tasks \ {t} : frame'[u] = frame[u]
    BY <1>2 DEF TypeOK
  <1>4. /\ frame'[t].at = "post" /\ frame'[t].ev = f.ev /\ frame'[t].slot = f.slot + 1
    BY <1>1, <1>3, FrameFields
  <1>5. ReadsPostedByNfc'
    <2> SUFFICES ASSUME NEW u \in Tasks \ {NFC}, frame'[u].at = "post"
                 PROVE  frame'[u].ev.kind # "READ_OK"
      BY DEF ReadsPostedByNfc
    <2>1. CASE u = t
      BY <1>1, <1>4, <2>1 DEF FeedInv, ReadsPostedByNfc
    <2>2. CASE u # t
      BY <1>3, <2>2 DEF FeedInv, ReadsPostedByNfc
    <2> QED  BY <2>1, <2>2
  <1>6. f.slot \in Nat /\ \A i \in DOMAIN Subs : i \in Nat
    BY <1>1
  <1>7. PostedReads' \subseteq PostedReads
    <2>1. CASE t = NFC
      BY <1>1, <1>4, <1>6, <2>1 DEF PostedReads
    <2>2. CASE t # NFC
      BY <1>3, <2>2 DEF PostedReads, Tasks
    <2> QED  BY <2>1, <2>2
  <1>8. UNCHANGED <<reads, panel>>
    BY DEF PostSlot, histVars
  <1>9. CASE OSDP \notin Subscribers
    BY <1>5, <1>8, <1>9 DEF FeedInv, Fresh, Feed!vars
  <1>10. CASE OSDP \in Subscribers /\ UNCHANGED queue
    BY <1>5, <1>7, <1>8, <1>10, FeedUntouched
  <1>11. CASE OSDP \in Subscribers /\ s # OSDP /\ queue' = [queue EXCEPT ![s] = Append(@, f.ev)]
    <2>1. queue'[OSDP] = queue[OSDP]
      BY <1>11 DEF TypeOK
    <2> QED
      BY <2>1, <1>5, <1>7, <1>8, <1>11 DEF FeedInv, ReadsOrdered, Later, Fresh, Feed!vars
  <1>12. CASE s = OSDP /\ queue' = [queue EXCEPT ![s] = Append(@, f.ev)]
    <2> DEFINE q == queue[OSDP]
    <2>1. q \in Seq(Events) /\ ReadsOrdered(q) /\ queue'[OSDP] = Append(q, f.ev)
      BY <1>1, <1>12 DEF TypeOK, FeedInv
    <2>2. f.ev.kind = "READ_OK" => Fresh(f.ev.cred) /\ Later(f.ev.cred, q)
      <3>1. f.ev.kind = "READ_OK" => t = NFC
        BY <1>1 DEF FeedInv, ReadsPostedByNfc
      <3>2. f.ev.kind = "READ_OK" => f.ev.cred \in PostedReads
        BY <1>1, <1>12, <1>6, <3>1 DEF PostedReads
      <3> QED  BY <1>1, <1>12, <3>2 DEF FeedInv
    <2>3. ReadsOrdered(queue'[OSDP])
      BY <1>1, <2>1, <2>2, AppendOrdered
    <2>4. \A c \in PostedReads' : Later(c, queue'[OSDP])
      <3>1. CASE f.ev.kind = "READ_OK"
        <4>1. t = NFC
          BY <1>1, <3>1 DEF FeedInv, ReadsPostedByNfc
        <4>2. \A i \in DOMAIN Subs : Subs[i] = OSDP => i = f.slot
          BY <1>1, <1>12, OneSlot
        <4>3. PostedReads' = {}
          BY <1>4, <1>6, <4>1, <4>2 DEF PostedReads
        <4> QED  BY <4>3
      <3>2. CASE f.ev.kind # "READ_OK"
        <4>1. \A c \in PostedReads' : Later(c, q)
          BY <1>1, <1>7, <1>12 DEF FeedInv
        <4> QED  BY <1>1, <2>1, <2>2, <3>2, <4>1, AppendOrdered
      <3> QED  BY <3>1, <3>2
    <2>5. FeedInv'
      BY <1>1, <1>5, <1>7, <1>8, <1>12, <2>3, <2>4 DEF FeedInv, ReadsOrdered, Later, Fresh
    <2> QED  BY <2>5, <1>8 DEF Feed!vars
  <1> QED  BY <1>1, <1>9, <1>10, <1>11, <1>12 DEF Deliver

\* A successful read is later than every read before it.
LEMMA FeedRead ==
    ASSUME TypeOK, FeedInv, NfcRead
    PROVE  FeedInv' /\ [Feed!Next]_(Feed!vars)
  <1>1. frame[NFC] = NoFrame /\ NFC \in Tasks
    BY DEF NfcRead, AtNfc, Tasks
  <1>2. UNCHANGED <<panel, queue>>
    BY DEF NfcRead, busVars
  <1>3. CASE reads' = reads + 1 /\ NfcReport("READ_OK", reads + 1, "IND_GRANT")
    <2> SUFFICES ASSUME NEW n, n = reads + 1
                 PROVE  FeedInv' /\ [Feed!Next]_(Feed!vars)
      OBVIOUS
    <2>1. reads \in Nat /\ reads' = n /\ UNCHANGED <<panel, queue>>
      BY <1>2, <1>3 DEF TypeOK
    <2>2. PostedReads' \subseteq {n}
      BY <1>1, <1>3 DEF NfcReport, PostOf, Event, PostedReads, TypeOK
    <2>3. ReadsPostedByNfc'
      BY <1>3 DEF NfcReport, FeedInv, ReadsPostedByNfc, TypeOK
    <2>4. \A c : Fresh(c) => Fresh(c)' /\ c < n
      BY <2>1 DEF Fresh
    <2>5. \A i \in DOMAIN panel : panel[i] \in 1..n /\ panel[i] < n
      BY <2>1 DEF FeedInv
    <2>6. Fresh(n)'
      BY <2>1, <2>5 DEF Fresh
    <2>7. OSDP \in Subscribers => ReadsOrdered(queue[OSDP])' /\ Later(n, queue[OSDP])'
      BY <2>1, <2>4 DEF FeedInv, ReadsOrdered, Later
    <2>8. FeedInv'
      BY <2>1, <2>2, <2>3, <2>5, <2>6, <2>7 DEF FeedInv
    <2> QED  BY <2>1, <2>8 DEF Feed!Next, Feed!Read
  <1>4. CASE NfcReport("READ_FAIL", NoCred, "IND_DENY") /\ UNCHANGED reads
    <2>1. PostedReads' = {} /\ ReadsPostedByNfc'
      BY <1>1, <1>4
      DEF NfcReport, PostOf, Event, PostedReads, FeedInv, ReadsPostedByNfc, TypeOK
    <2> QED  BY <1>2, <1>4, <2>1, FeedUntouched
  <1> QED  BY <1>3, <1>4 DEF NfcRead
\* The OSDP task submits the oldest queued read, which is later than every submitted one
\* and before every read still queued or posted.
LEMMA FeedConsume ==
    ASSUME TypeOK, FeedInv, NEW s \in Subscribers, Consume(s)
    PROVE  FeedInv' /\ [Feed!Next]_(Feed!vars)
  <1>1. UNCHANGED <<reads, frame>> /\ PostedReads' = PostedReads /\ ReadsPostedByNfc'
    BY DEF Consume, post_card_read, PostedReads, FeedInv, ReadsPostedByNfc
  <1>2. queue' = [queue EXCEPT ![s] = Tail(@)]
    BY DEF Consume, post_card_read
  <1>3. CASE s # OSDP
    <2>1. UNCHANGED panel /\ (OSDP \in Subscribers => queue'[OSDP] = queue[OSDP])
      BY <1>2, <1>3 DEF Consume, post_card_read, TypeOK
    <2> QED
      BY <1>1, <2>1 DEF FeedInv, ReadsOrdered, Later, Fresh, Feed!vars
  <1>4. CASE s = OSDP
    <2> SUFFICES ASSUME NEW q, NEW e, NEW r,
                        q = queue[OSDP], e = Head(q), r = Tail(q)
                 PROVE  FeedInv' /\ [Feed!Next]_(Feed!vars)
      OBVIOUS
    <2>1. q \in Seq(Events) /\ q # <<>> /\ queue'[OSDP] = r /\ e \in Events
      BY <1>2, <1>4 DEF Consume, post_card_read, TypeOK
    <2>2. /\ e = q[1] /\ 1 \in DOMAIN q
          /\ \A i \in DOMAIN r : i \in Nat /\ i + 1 \in DOMAIN q /\ 1 < i + 1 /\ r[i] = q[i + 1]
      BY <2>1, TailElements
    <2>3. ReadsOrdered(q) /\ \A c \in PostedReads : Fresh(c) /\ Later(c, q)
      BY <1>4 DEF FeedInv
    <2>4. \A i, j \in DOMAIN r :
             i < j /\ r[i].kind = "READ_OK" /\ r[j].kind = "READ_OK" => r[i].cred < r[j].cred
      BY <2>2, <2>3 DEF ReadsOrdered
    <2>5. \A c \in PostedReads : Later(c, r)
      BY <2>2, <2>3 DEF Later
    <2>6. CASE e.kind = "READ_OK"
      <3>1. panel' = Append(panel, e.cred) /\ panel \in Seq(Nat) /\ e.cred \in Nat
        BY <1>4, <2>1, <2>6 DEF Consume, post_card_read, TypeOK, Events
      <3>2. Fresh(e.cred)
        BY <2>2, <2>3, <2>6 DEF ReadsOrdered
      <3>3. Feed!Submit
        BY <1>1, <3>1, <3>2 DEF Fresh, Feed!Submit
      <3>4. /\ DOMAIN panel' = DOMAIN panel \cup {Len(panel) + 1}
            /\ \A i \in DOMAIN panel : panel'[i] = panel[i]
            /\ panel'[Len(panel) + 1] = e.cred
        BY <3>1, AppendElements
      <3>5. \A c : Fresh(c) /\ e.cred < c => Fresh(c)'
        BY <1>1, <3>4 DEF Fresh
      <3>6. \A i \in DOMAIN r :
               r[i].kind = "READ_OK" => Fresh(r[i].cred) /\ e.cred < r[i].cred
        BY <2>2, <2>3, <2>6 DEF ReadsOrdered
      <3>7. ReadsOrdered(r)'
        BY <2>4, <3>5, <3>6 DEF ReadsOrdered
      <3>8. \A c \in PostedReads : e.cred < c
        BY <2>2, <2>3, <2>6 DEF Later
      <3>9. \A i \in DOMAIN panel' : panel'[i] \in 1..reads
        BY <3>2, <3>4 DEF FeedInv, Fresh
      <3>10. (\A i \in DOMAIN panel : panel[i] \in 1..reads)'
        BY <1>1, <3>9
      <3>11. \A c \in PostedReads : Fresh(c)' /\ Later(c, r)
        BY <2>3, <2>5, <3>5, <3>8
      <3>12. FeedInv'
        BY <1>1, <2>1, <3>7, <3>10, <3>11 DEF FeedInv, ReadsOrdered, Later
      <3> QED  BY <3>3, <3>12 DEF Feed!Next
    <2>7. CASE e.kind # "READ_OK"
      <3>1. UNCHANGED panel
        BY <1>4, <2>7, <2>1 DEF Consume, post_card_read
      <3>2. \A c : Fresh(c) => Fresh(c)'
        BY <1>1, <3>1 DEF Fresh
      <3>3. \A i \in DOMAIN r : r[i].kind = "READ_OK" => Fresh(r[i].cred)
        BY <2>2, <2>3 DEF ReadsOrdered
      <3>4. ReadsOrdered(r)'
        BY <2>4, <3>2, <3>3 DEF ReadsOrdered
      <3>5. FeedInv'
        BY <1>1, <2>1, <2>3, <2>5, <3>1, <3>2, <3>4 DEF FeedInv, ReadsOrdered, Later
      <3> QED  BY <1>1, <3>1, <3>5 DEF Feed!vars
    <2> QED  BY <2>6, <2>7
  <1> QED  BY <1>3, <1>4

\* The reader implements the feed of reads, for any subscribers, queue length, interfaces
\* and number of restarts.
THEOREM FeedImplemented == Spec => ReadFeedImplemented
<1>1. Init => FeedInv /\ Feed!Init
  <2> SUFFICES ASSUME Init PROVE FeedInv /\ Feed!Init  OBVIOUS
  <2>1. PostedReads = {}
    BY DEF Init, PostedReads, FrameBoot, NoFrame, Tasks
  <2> QED
    BY <2>1
    DEF Init, FeedInv, Feed!Init, ReadsPostedByNfc, ReadsOrdered, QueueBoot, FrameBoot, NoFrame
<1>2. TypeOK /\ FeedInv /\ [Next]_vars => FeedInv' /\ [Feed!Next]_(Feed!vars)
  <2> SUFFICES ASSUME TypeOK, FeedInv, [Next]_vars
               PROVE  FeedInv' /\ [Feed!Next]_(Feed!vars)
    OBVIOUS
  <2> DEFINE Step == FeedInv' /\ [Feed!Next]_(Feed!vars)
  <2>0. ReadsPostedByNfc
    BY DEF FeedInv
  <2>1. ASSUME NEW t \in Tasks, NEW f, frame' = [frame EXCEPT ![t] = f],
               f.at = "post" => f.ev.kind # "READ_OK",
               UNCHANGED <<reads, panel, queue>>
        PROVE  Step
    BY <2>0, <2>1, NoReadPosted, FeedUntouched
  <2>2. ASSUME UNCHANGED <<reads, panel, queue, frame>> PROVE Step
    <3>1. ReadsPostedByNfc' /\ PostedReads' = PostedReads
      BY <2>0, <2>2 DEF ReadsPostedByNfc, PostedReads
    <3> QED  BY <2>2, <3>1, FeedUntouched
  <2> HIDE DEF Step
  <2>3. ASSUME NEW t \in Tasks, TaskStep(t) PROVE Step
    <3>1. CASE ModeExchange(t)
      <4>1. PICK f \in {NoFrame, IndicateOf(frame[t].mode)} : frame' = [frame EXCEPT ![t] = f]
        BY <3>1 DEF ModeExchange
      <4> QED  BY <3>1, <4>1, <2>1, NoReadInFrame DEF ModeExchange, busVars, histVars
    <3>2. CASE ModeIndicate(t)
      BY <3>2, <2>1, NoReadInFrame DEF ModeIndicate, busVars, histVars
    <3>3. CASE PostSlot(t)
      BY <3>3, FeedPostSlot DEF Step
    <3>4. CASE PostDone(t)
      BY <3>4, <2>1, NoReadInFrame DEF PostDone, busVars, histVars
    <3>5. CASE OsdpLedRestore(t)
      BY <3>5, <2>1, NoReadInFrame DEF OsdpLedRestore, busVars, histVars
    <3> QED  BY <2>3, <3>1, <3>2, <3>3, <3>4, <3>5 DEF TaskStep
  <2>4. ASSUME NEW t \in Uis, NEW m \in Modes, UiMode(t, m) PROVE Step
    BY <2>4, <2>1, NoReadInFrame DEF UiMode, busVars, histVars, Tasks
  <2>5. ASSUME NEW t \in Uis, UiEnroll(t) PROVE Step
    BY <2>5, <2>1, NoReadInFrame DEF UiEnroll, mode_set_write_request, busVars, Tasks
  <2>6. ASSUME NEW b \in {"SHORT", "LONG"}, ButtonRelease(b) PROVE Step
    BY <2>6, <2>2 DEF ButtonRelease, busVars, histVars
  <2>7. ASSUME NfcStep PROVE Step
    <3> NFC \in Tasks
      BY DEF Tasks
    <3>1. CASE NfcPoll
      <4>1. PICK f \in {NoFrame, ExchangeTo(Toggle(button, mode))} : frame' = [frame EXCEPT ![NFC] = f]
        BY <3>1 DEF NfcPoll
      <4> QED  BY <3>1, <4>1, <2>1, NoReadInFrame DEF NfcPoll, busVars, histVars
    <3>2. CASE NfcFind \/ NfcSample \/ NfcTake
      BY <3>2, <2>2 DEF NfcFind, NfcSample, NfcTake, busVars, histVars
    <3>3. CASE NfcRead
      BY <3>3, FeedRead DEF Step
    <3>4. CASE NfcWrite
      <4>1. PICK k \in {"WRITE_OK", "WRITE_FAIL"}, c \in {nfc.cred, NoCred},
                 p \in {"IND_WROTE_OK", "IND_ERROR"} : NfcReport(k, c, p)
        BY <3>4 DEF NfcWrite
      <4>2. PostOf(Event(k, nfc.mode, c), p).ev.kind # "READ_OK"
        BY DEF PostOf, Event
      <4> QED  BY <3>4, <4>1, <4>2, <2>1 DEF NfcWrite, NfcReport, busVars
    <3> QED  BY <2>7, <3>1, <3>2, <3>3, <3>4 DEF NfcStep
  <2>8. ASSUME OsdpOnlineChange PROVE Step
    BY <2>8, <2>1, NoReadInFrame DEF OsdpOnlineChange, busVars, histVars, Tasks
  <2>9. ASSUME NEW p \in {"IND_DENY", "IND_GRANT"}, OsdpLed(p) PROVE Step
    BY <2>9, <2>2 DEF OsdpLed, busVars, histVars
  <2>10. ASSUME OsdpLedNone PROVE Step
    BY <2>10, <2>1, NoReadInFrame DEF OsdpLedNone, busVars, histVars, Tasks
  <2>11. ASSUME NEW s \in Subscribers, Consume(s) PROVE Step
    BY <2>11, FeedConsume DEF Step
  <2>12. ASSUME IndicatorStep PROVE Step
    BY <2>12, <2>2 DEF IndicatorStep, busVars, histVars
  <2>13. ASSUME Reboot PROVE Step
    <3>1. PostedReads' = {} /\ ReadsPostedByNfc'
      BY <2>13 DEF Reboot, FrameBoot, NoFrame, PostedReads, ReadsPostedByNfc, Tasks
    <3>2. OSDP \in Subscribers => queue'[OSDP] = <<>>
      BY <2>13 DEF Reboot, QueueBoot
    <3> QED
      BY <2>13, <3>1, <3>2 DEF Reboot, Step, FeedInv, ReadsOrdered, Feed!vars
  <2>14. ASSUME UNCHANGED vars PROVE Step
    BY <2>14, <2>2 DEF vars, busVars, histVars
  <2> QED
    BY <2>3, <2>4, <2>5, <2>6, <2>7, <2>8, <2>9, <2>10, <2>11, <2>12, <2>13, <2>14
    DEF Next, Step
<1> QED  BY <1>1, <1>2, TypeCorrect, PTL DEF Spec, ReadFeedImplemented, Feed!Spec
-----------------------------------------------------------------------------
(* Reads accounted for                                                     *)

\* The reads that were submitted, and the invariant: reads are posted by the NFC task alone,
\* so that a read leaves its post for the queue of the OSDP task only.
PanelReads == {panel[i] : i \in DOMAIN panel}
AccInv == ReadsPostedByNfc /\ ReadsAccounted

\* Appending an event adds its read, if it is one.
LEMMA ReadsInAppend ==
    ASSUME NEW q \in Seq(Events), NEW e \in Events
    PROVE  ReadsIn(Append(q, e))
             = ReadsIn(q) \cup (IF e.kind = "READ_OK" THEN {e.cred} ELSE {})
  <1>1. /\ DOMAIN Append(q, e) = DOMAIN q \cup {Len(q) + 1}
        /\ \A i \in DOMAIN q : i < Len(q) + 1 /\ Append(q, e)[i] = q[i]
        /\ Append(q, e)[Len(q) + 1] = e
    BY AppendElements
  <1> QED  BY <1>1 DEF ReadsIn

\* Removing the oldest event removes its read only.
LEMMA ReadsInTail ==
    ASSUME NEW q \in Seq(Events), q # <<>>
    PROVE  ReadsIn(q)
             = ReadsIn(Tail(q)) \cup (IF Head(q).kind = "READ_OK" THEN {Head(q).cred} ELSE {})
  <1> DEFINE r == Tail(q)
  <1>1. /\ Head(q) = q[1] /\ 1 \in DOMAIN q
        /\ \A i \in DOMAIN r : i + 1 \in DOMAIN q /\ r[i] = q[i + 1]
        /\ \A i \in DOMAIN q : i = 1 \/ i - 1 \in DOMAIN r
    BY TailElements
  <1>2. \A i \in DOMAIN q : i \in Nat /\ (i - 1) + 1 = i
    OBVIOUS
  <1>3. \A i \in DOMAIN q : i = 1 \/ (i - 1 \in DOMAIN r /\ r[i - 1] = q[i])
    BY <1>1, <1>2
  <1> HIDE DEF r
  <1>4. ASSUME NEW c
        PROVE  c \in ReadsIn(q)
                 <=> c \in ReadsIn(r) \/ (q[1].kind = "READ_OK" /\ c = q[1].cred)
    BY <1>1, <1>3 DEF ReadsIn
  <1> QED  BY <1>1, <1>4 DEF r

\* What a step leaves alone when it concerns no read.
LEMMA AccUntouched ==
    ASSUME AccInv, UNCHANGED <<reads, panel, queue, drops>>, used'["reboot"] = used["reboot"],
           PostedReads' = PostedReads, ReadsPostedByNfc'
    PROVE  AccInv'
  BY DEF AccInv, ReadsAccounted, ReadsIn

\* An activation that is no post of a read, given to a task that posts no read, changes
\* nothing that is posted.
LEMMA NothingPosted ==
    ASSUME TypeOK, ReadsPostedByNfc, NEW t \in Tasks, NEW f,
           frame' = [frame EXCEPT ![t] = f],
           f.at = "post" => f.ev.kind # "READ_OK",
           t = NFC => PostedReads = {}
    PROVE  ReadsPostedByNfc' /\ PostedReads' = PostedReads
  BY DEF TypeOK, ReadsPostedByNfc, PostedReads, Tasks

\* One step of a post: a read goes from the post to the queue, or the drop is counted.
LEMMA AccPostSlot ==
    ASSUME TypeOK, AccInv, NEW t \in Tasks, PostSlot(t)
    PROVE  AccInv'
  <1> DEFINE f == frame[t]
             s == Subs[f.slot]
             q == queue[OSDP]
  <1>1. /\ f \in Frames /\ f.ev \in Events /\ f.slot \in DOMAIN Subs /\ f.at = "post"
        /\ s \in Subscribers /\ Deliver(s, f.ev)
    BY FrameFields DEF PostSlot, TypeOK, Subscribers
  <1>2. frame' = [frame EXCEPT ![t] = [f EXCEPT !.slot = @ + 1]]
    BY DEF PostSlot
  <1>3. /\ frame'[t] = [f EXCEPT !.slot = @ + 1]
        /\ \A u \in Tasks \ {t} : frame'[u] = frame[u]
    BY <1>2 DEF TypeOK
  <1>4. /\ frame'[t].at = "post" /\ frame'[t].ev = f.ev /\ frame'[t].slot = f.slot + 1
    BY <1>1, <1>3, FrameFields
  <1>5. ReadsPostedByNfc'
    <2> SUFFICES ASSUME NEW u \in Tasks \ {NFC}, frame'[u].at = "post"
                 PROVE  frame'[u].ev.kind # "READ_OK"
      BY DEF ReadsPostedByNfc
    <2>1. CASE u = t
      BY <1>1, <1>4, <2>1 DEF AccInv, ReadsPostedByNfc
    <2>2. CASE u # t
      BY <1>3, <2>2 DEF AccInv, ReadsPostedByNfc
    <2> QED  BY <2>1, <2>2
  <1>6. f.slot \in Nat /\ \A i \in DOMAIN Subs : i \in Nat
    BY <1>1
  <1>7. UNCHANGED <<reads, panel, used>> /\ q \in Seq(Events)
    BY OsdpSubscribed DEF PostSlot, histVars, TypeOK
  <1>8. CASE s # OSDP
    <2>1. queue'[OSDP] = q /\ drops'[OSDP] = drops[OSDP]
      BY <1>1, <1>8, OsdpSubscribed DEF Deliver, TypeOK
    <2>2. PostedReads' = PostedReads
      <3>1. CASE t = NFC
        <4>1. \A i \in DOMAIN Subs : Subs[i] = OSDP => (f.slot <= i <=> f.slot + 1 <= i)
          BY <1>6, <1>8
        <4> QED  BY <1>1, <1>4, <3>1, <4>1 DEF PostedReads
      <3>2. CASE t # NFC
        BY <1>3, <3>2 DEF PostedReads, Tasks
      <3> QED  BY <3>1, <3>2
    <2> QED  BY <1>5, <1>7, <2>1, <2>2 DEF AccInv, ReadsAccounted, ReadsIn
  <1>9. CASE s = OSDP /\ queue' = [queue EXCEPT ![s] = Append(@, f.ev)] /\ UNCHANGED drops
    <2>1. queue'[OSDP] = Append(q, f.ev)
      BY <1>1, <1>9 DEF TypeOK
    <2>2. ReadsIn(queue'[OSDP])
            = ReadsIn(q) \cup (IF f.ev.kind = "READ_OK" THEN {f.ev.cred} ELSE {})
      BY <1>1, <1>7, <2>1, ReadsInAppend
    <2>3. CASE f.ev.kind = "READ_OK"
      <3>1. t = NFC
        BY <1>1, <2>3 DEF AccInv, ReadsPostedByNfc
      <3>2. PostedReads = {f.ev.cred}
        BY <1>1, <1>6, <1>9, <2>3, <3>1 DEF PostedReads
      <3>3. \A i \in DOMAIN Subs : Subs[i] = OSDP => i = f.slot
        BY <1>1, <1>9, OneSlot
      <3>4. PostedReads' = {}
        BY <1>4, <1>6, <3>1, <3>3 DEF PostedReads
      <3> QED  BY <1>5, <1>7, <1>9, <2>2, <2>3, <3>2, <3>4 DEF AccInv, ReadsAccounted
    <2>4. CASE f.ev.kind # "READ_OK"
      <3>1. PostedReads' = PostedReads
        <4>1. CASE t = NFC
          BY <1>1, <1>4, <2>4, <4>1 DEF PostedReads
        <4>2. CASE t # NFC
          BY <1>3, <4>2 DEF PostedReads, Tasks
        <4> QED  BY <4>1, <4>2
      <3> QED  BY <1>5, <1>7, <1>9, <2>2, <2>4, <3>1 DEF AccInv, ReadsAccounted
    <2> QED  BY <2>3, <2>4
  <1>10. CASE s = OSDP /\ drops' = [drops EXCEPT ![s] = @ + 1]
    <2>1. drops'[OSDP] # 0
      BY <1>10, OsdpSubscribed DEF TypeOK
    <2> QED  BY <1>5, <2>1 DEF AccInv, ReadsAccounted
  <1> QED  BY <1>1, <1>8, <1>9, <1>10 DEF Deliver

\* The read that was just made is posted.
LEMMA AccRead ==
    ASSUME TypeOK, AccInv, NfcRead
    PROVE  AccInv'
  <1>1. frame[NFC] = NoFrame /\ NFC \in Tasks /\ PostedReads = {}
    BY DEF NfcRead, AtNfc, Tasks, PostedReads, NoFrame
  <1>2. UNCHANGED <<panel, queue, drops, used>>
    BY DEF NfcRead, busVars
  <1>3. CASE reads' = reads + 1 /\ NfcReport("READ_OK", reads + 1, "IND_GRANT")
    <2>1. frame'[NFC] = PostOf(Event("READ_OK", nfc.mode, reads + 1), "IND_GRANT")
      BY <1>1, <1>3 DEF NfcReport, TypeOK
    <2>2. PICK i \in DOMAIN Subs : Subs[i] = OSDP /\ 1 <= i
      BY OsdpSubscribed DEF Subscribers
    <2>3. PostedReads' = {reads + 1}
      BY <2>1, <2>2 DEF PostedReads, PostOf, Event
    <2>4. ReadsPostedByNfc'
      BY <1>3 DEF NfcReport, AccInv, ReadsPostedByNfc, TypeOK
    <2>5. 1..(reads + 1) = (1..reads) \cup {reads + 1}
      BY DEF TypeOK
    <2> QED  BY <1>1, <1>2, <1>3, <2>3, <2>4, <2>5 DEF AccInv, ReadsAccounted, ReadsIn
  <1>4. CASE NfcReport("READ_FAIL", NoCred, "IND_DENY") /\ UNCHANGED reads
    <2>1. PostedReads' = {} /\ ReadsPostedByNfc'
      BY <1>1, <1>4
      DEF NfcReport, PostOf, Event, PostedReads, AccInv, ReadsPostedByNfc, TypeOK
    <2> QED  BY <1>1, <1>2, <1>4, <2>1, AccUntouched
  <1> QED  BY <1>3, <1>4 DEF NfcRead

\* A read that the OSDP task takes is submitted.
LEMMA AccConsume ==
    ASSUME TypeOK, AccInv, NEW s \in Subscribers, Consume(s)
    PROVE  AccInv'
  <1>1. /\ UNCHANGED <<reads, frame, drops, used>>
        /\ PostedReads' = PostedReads /\ ReadsPostedByNfc'
    BY DEF Consume, PostedReads, AccInv, ReadsPostedByNfc
  <1>2. queue' = [queue EXCEPT ![s] = Tail(@)] /\ queue[s] # <<>>
    BY DEF Consume
  <1>3. CASE s # OSDP
    <2>1. UNCHANGED panel /\ queue'[OSDP] = queue[OSDP]
      BY <1>2, <1>3, OsdpSubscribed DEF Consume, TypeOK
    <2> QED  BY <1>1, <2>1 DEF AccInv, ReadsAccounted, ReadsIn
  <1>4. CASE s = OSDP
    <2> DEFINE q == queue[OSDP]
               e == Head(q)
    <2>1. q \in Seq(Events) /\ e \in Events /\ queue'[OSDP] = Tail(q)
      BY <1>2, <1>4 DEF TypeOK
    <2>2. ReadsIn(q)
            = ReadsIn(Tail(q)) \cup (IF e.kind = "READ_OK" THEN {e.cred} ELSE {})
      BY <1>2, <1>4, <2>1, ReadsInTail
    <2>3. PanelReads' = PanelReads \cup (IF e.kind = "READ_OK" THEN {e.cred} ELSE {})
      <3>1. CASE e.kind = "READ_OK"
        <4>1. panel' = Append(panel, e.cred) /\ panel \in Seq(Nat) /\ e.cred \in Nat
          BY <1>4, <2>1, <3>1 DEF Consume, post_card_read, TypeOK, Events
        <4>2. /\ DOMAIN panel' = DOMAIN panel \cup {Len(panel) + 1}
              /\ \A i \in DOMAIN panel : i < Len(panel) + 1 /\ panel'[i] = panel[i]
              /\ panel'[Len(panel) + 1] = e.cred
          BY <4>1, AppendElements
        <4> QED  BY <3>1, <4>2 DEF PanelReads
      <3>2. CASE e.kind # "READ_OK"
        BY <1>4, <3>2 DEF Consume, PanelReads
      <3> QED  BY <3>1, <3>2
    <2> QED  BY <1>1, <2>1, <2>2, <2>3 DEF AccInv, ReadsAccounted, PanelReads
  <1> QED  BY <1>3, <1>4

\* No good read vanishes between the card and libosdp uncounted, for any subscribers that
\* include the OSDP task, queue length, interfaces and commands.
THEOREM ReadsAreAccounted == Spec => []ReadsAccounted
<1>1. Init => AccInv
  <2> SUFFICES ASSUME Init PROVE AccInv  OBVIOUS
  <2>1. PostedReads = {} /\ queue[OSDP] = <<>>
    BY OsdpSubscribed DEF Init, PostedReads, FrameBoot, QueueBoot, NoFrame, Tasks
  <2> QED
    BY <2>1 DEF Init, AccInv, ReadsAccounted, ReadsPostedByNfc, ReadsIn, FrameBoot, NoFrame
<1>2. TypeOK /\ AccInv /\ [Next]_vars => AccInv'
  <2> SUFFICES ASSUME TypeOK, AccInv, [Next]_vars PROVE AccInv'  OBVIOUS
  <2>0. ReadsPostedByNfc
    BY DEF AccInv
  <2>1. ASSUME NEW t \in Tasks, NEW f, frame' = [frame EXCEPT ![t] = f],
               f.at = "post" => f.ev.kind # "READ_OK",
               t = NFC => PostedReads = {},
               UNCHANGED <<reads, panel, queue, drops>>, used'["reboot"] = used["reboot"]
        PROVE  AccInv'
    BY <2>0, <2>1, NothingPosted, AccUntouched
  <2>2. ASSUME UNCHANGED <<reads, panel, queue, drops, frame>>,
               used'["reboot"] = used["reboot"]
        PROVE  AccInv'
    <3>1. ReadsPostedByNfc' /\ PostedReads' = PostedReads
      BY <2>0, <2>2 DEF ReadsPostedByNfc, PostedReads
    <3> QED  BY <2>2, <3>1, AccUntouched
  <2>3. ASSUME NEW s \in Stimuli \ {"reboot"}, NEW max, Use(s, max)
        PROVE  used'["reboot"] = used["reboot"]
    BY <2>3 DEF Use, TypeOK
  <2>4. ASSUME frame[NFC].at # "post" \/ frame[NFC].slot \notin DOMAIN Subs
        PROVE  PostedReads = {}
    BY <2>4, FrameFields DEF PostedReads, TypeOK, Tasks
  <2>5. ASSUME NEW t \in Tasks, TaskStep(t) PROVE AccInv'
    <3>1. CASE ModeExchange(t)
      <4>1. PICK f \in {NoFrame, IndicateOf(frame[t].mode)} : frame' = [frame EXCEPT ![t] = f]
        BY <3>1 DEF ModeExchange
      <4>2. t = NFC => PostedReads = {}
        BY <3>1, <2>4 DEF ModeExchange
      <4> QED
        BY <3>1, <4>1, <4>2, <2>1, NoReadInFrame DEF ModeExchange, busVars, histVars
    <3>2. CASE ModeIndicate(t)
      <4>1. t = NFC => PostedReads = {}
        BY <3>2, <2>4 DEF ModeIndicate
      <4> QED  BY <3>2, <4>1, <2>1, NoReadInFrame DEF ModeIndicate, busVars, histVars
    <3>3. CASE PostSlot(t)
      BY <3>3, AccPostSlot
    <3>4. CASE PostDone(t)
      <4>1. t = NFC => PostedReads = {}
        BY <3>4, <2>4 DEF PostDone
      <4> QED  BY <3>4, <4>1, <2>1, NoReadInFrame DEF PostDone, busVars, histVars
    <3>5. CASE OsdpLedRestore(t)
      <4>1. t = NFC => PostedReads = {}
        BY <3>5, <2>4 DEF OsdpLedRestore
      <4> QED  BY <3>5, <4>1, <2>1, NoReadInFrame DEF OsdpLedRestore, busVars, histVars
    <3> QED  BY <2>5, <3>1, <3>2, <3>3, <3>4, <3>5 DEF TaskStep
  <2>6. ASSUME NEW t \in Uis, NEW m \in Modes, UiMode(t, m) PROVE AccInv'
    <3>1. t # NFC /\ t \in Tasks
      BY DEF Tasks
    <3> QED
      BY <2>6, <3>1, <2>1, <2>3, NoReadInFrame DEF UiMode, busVars, histVars, Stimuli
  <2>7. ASSUME NEW t \in Uis, UiEnroll(t) PROVE AccInv'
    <3>1. t # NFC /\ t \in Tasks
      BY DEF Tasks
    <3> QED  BY <2>7, <3>1, <2>1, NoReadInFrame DEF UiEnroll, busVars
  <2>8. ASSUME NEW b \in {"SHORT", "LONG"}, ButtonRelease(b) PROVE AccInv'
    BY <2>8, <2>2, <2>3 DEF ButtonRelease, busVars, histVars, Stimuli
  <2>9. ASSUME NfcStep PROVE AccInv'
    <3>0. NFC \in Tasks
      BY DEF Tasks
    <3>1. frame[NFC] = NoFrame /\ PostedReads = {}
      BY <2>9, <2>4, NoReadInFrame
      DEF NfcStep, NfcPoll, NfcFind, NfcSample, NfcRead, NfcTake, NfcWrite, AtNfc
    <3>2. CASE NfcPoll
      <4>1. PICK f \in {NoFrame, ExchangeTo(Toggle(button, mode))} : frame' = [frame EXCEPT ![NFC] = f]
        BY <3>2 DEF NfcPoll
      <4> QED
        BY <3>0, <3>1, <3>2, <4>1, <2>1, NoReadInFrame DEF NfcPoll, busVars, histVars
    <3>3. CASE NfcFind
      <4>1. used'["reboot"] = used["reboot"]
        BY <3>3, <2>3 DEF NfcFind, Stimuli
      <4> QED  BY <3>3, <4>1, <2>2 DEF NfcFind, busVars, histVars
    <3>4. CASE NfcSample \/ NfcTake
      BY <3>4, <2>2 DEF NfcSample, NfcTake, busVars, histVars
    <3>5. CASE NfcRead
      BY <3>5, AccRead
    <3>6. CASE NfcWrite
      <4>1. PICK k \in {"WRITE_OK", "WRITE_FAIL"}, c \in {nfc.cred, NoCred},
                 p \in {"IND_WROTE_OK", "IND_ERROR"} : NfcReport(k, c, p)
        BY <3>6 DEF NfcWrite
      <4>2. PostOf(Event(k, nfc.mode, c), p).ev.kind # "READ_OK"
        BY DEF PostOf, Event
      <4> QED  BY <3>0, <3>1, <3>6, <4>1, <4>2, <2>1 DEF NfcWrite, NfcReport, busVars
    <3> QED  BY <2>9, <3>2, <3>3, <3>4, <3>5, <3>6 DEF NfcStep
  <2>10. ASSUME OsdpOnlineChange PROVE AccInv'
    <3>1. OSDP # NFC /\ OSDP \in Tasks
      BY DEF Tasks, OSDP, NFC
    <3> QED
      BY <2>10, <3>1, <2>1, <2>3, NoReadInFrame
      DEF OsdpOnlineChange, busVars, histVars, Stimuli
  <2>11. ASSUME NEW p \in {"IND_DENY", "IND_GRANT"}, OsdpLed(p) PROVE AccInv'
    BY <2>11, <2>2, <2>3 DEF OsdpLed, busVars, histVars, Stimuli
  <2>12. ASSUME OsdpLedNone PROVE AccInv'
    <3>1. OSDP # NFC /\ OSDP \in Tasks
      BY DEF Tasks, OSDP, NFC
    <3> QED
      BY <2>12, <3>1, <2>1, <2>3, NoReadInFrame DEF OsdpLedNone, busVars, histVars, Stimuli
  <2>13. ASSUME NEW s \in Subscribers, Consume(s) PROVE AccInv'
    BY <2>13, AccConsume
  <2>14. ASSUME IndicatorStep PROVE AccInv'
    BY <2>14, <2>2 DEF IndicatorStep, busVars, histVars
  <2>15. ASSUME Reboot PROVE AccInv'
    <3>1. ReadsPostedByNfc'
      BY <2>15 DEF Reboot, FrameBoot, NoFrame, ReadsPostedByNfc
    <3>2. used'["reboot"] # 0
      BY <2>15 DEF Reboot, Use, TypeOK, Stimuli
    <3> QED  BY <3>1, <3>2 DEF AccInv, ReadsAccounted
  <2>16. ASSUME UNCHANGED vars PROVE AccInv'
    BY <2>16, <2>2 DEF vars, busVars, histVars
  <2> QED
    BY <2>5, <2>6, <2>7, <2>8, <2>9, <2>10, <2>11, <2>12, <2>13, <2>14, <2>15, <2>16
    DEF Next
<1>3. AccInv => ReadsAccounted
  BY DEF AccInv
<1> QED  BY <1>1, <1>2, <1>3, TypeCorrect, PTL DEF Spec
=============================================================================
