----------------------- MODULE DecoderPrefixesProofs -----------------------
(***************************************************************************)
(* What the prefix loop finds, proved for every length limit, every set of *)
(* input bytes and every machine mode.                                     *)
(***************************************************************************)
EXTENDS DecoderPrefixes, TLAPS

(* While the loop runs its three counters agree and nothing is marked.     *)
Counting ==
    status = "PREFIXES" =>
      /\ prefixCount = length
      /\ types = [i \in Slots |-> "IGNORED"]

IInv == PrefixTypeOK /\ Counting /\ LastOfGroupWins /\ MandatoryChoice
          /\ SegmentChoice /\ RexIsLast

USE LengthAssumption, InputAssumption, ModeAssumption

(* The initial state satisfies the inductive invariant.                    *)
LEMMA InitInv == InitPrefixes => IInv
  <1> SUFFICES ASSUME InitPrefixes PROVE IInv
    OBVIOUS
  <1> USE DEF InitPrefixes
  <1>1. 0 \in Slots
    BY DEF Slots
  <1>2. PrefixTypeOK
    <2>1. pfx \in PrefixState
      BY <1>1 DEF NoPrefixes, PrefixState
    <2> QED
      BY <1>1, <2>1 DEF PrefixTypeOK, PrefixTypes, NoByte, Slots
  <1>3. \A S : Present(S) = {}
    BY DEF Present
  <1>4. Counting
    BY DEF Counting, Slots
  <1>5. LastOfGroupWins
    BY <1>3 DEF LastOfGroupWins, NoPrefixes
  <1>6. MandatoryChoice
    BY <1>3 DEF MandatoryChoice, NoPrefixes, Group1, OSZ, REP, REPNE
  <1>7. SegmentChoice
    BY <1>3 DEF SegmentChoice, NoPrefixes
  <1>8. RexIsLast
    BY DEF RexIsLast
  <1> QED
    BY <1>2, <1>4, <1>5, <1>6, <1>7, <1>8 DEF IInv

(* Recording a prefix appends it: what was recorded before stays in place, *)
(* and the new prefix is the last one of every group it belongs to.        *)
LEMMA Appended ==
  ASSUME PrefixTypeOK, NEW b \in Bytes, Record(b), prefixCount < MaxLength
  PROVE  /\ mode' = mode
         /\ prefixCount \in Slots
         /\ prefixCount' = prefixCount + 1
         /\ prefixes'[prefixCount] = b
         /\ \A S : Present(S)' = IF b \in S
                                 THEN Present(S) \cup {prefixCount}
                                 ELSE Present(S)
         /\ \A S : Greatest(prefixCount, Present(S) \cup {prefixCount})
         /\ \A S : Present(S) = {} =>
                     Least(prefixCount, Present(S) \cup {prefixCount})
         /\ \A S, i : Least(i, Present(S)) =>
                        Least(i, Present(S) \cup {prefixCount})
         /\ \A S, i : Greatest(i, Present(S)) => prefixes'[i] = prefixes[i]
  <1>1. prefixCount \in Nat /\ prefixCount \in Slots
    BY DEF PrefixTypeOK, Slots
  <1>2. prefixCount' = prefixCount + 1 /\ mode' = mode
    BY DEF Record
  <1>3. prefixes' = [prefixes EXCEPT ![prefixCount] = b]
    BY DEF Record
  <1>4. prefixes'[prefixCount] = b
    BY <1>1, <1>3 DEF PrefixTypeOK
  <1>5. \A i \in 0 .. prefixCount - 1 : prefixes'[i] = prefixes[i]
    BY <1>1, <1>3 DEF PrefixTypeOK, Slots
  <1>6. ASSUME NEW S
        PROVE  Present(S)' = IF b \in S THEN Present(S) \cup {prefixCount}
                                        ELSE Present(S)
    <2>1. Present(S)' = {i \in 0 .. prefixCount : prefixes'[i] \in S}
      BY <1>1, <1>2 DEF Present
    <2> QED
      BY <2>1, <1>1, <1>4, <1>5 DEF Present
  <1>7. \A S : Present(S) \subseteq 0 .. prefixCount - 1
    BY DEF Present
  <1>8. \A S : Greatest(prefixCount, Present(S) \cup {prefixCount})
    BY <1>1, <1>7 DEF Greatest
  <1>9. \A S : Present(S) = {} =>
                 Least(prefixCount, Present(S) \cup {prefixCount})
    BY <1>1 DEF Least
  <1>10. \A S, i : Least(i, Present(S)) =>
                     Least(i, Present(S) \cup {prefixCount})
    BY <1>1, <1>7 DEF Least
  <1>11. \A S, i : Greatest(i, Present(S)) => prefixes'[i] = prefixes[i]
    BY <1>5, <1>7 DEF Greatest
  <1> QED
    BY <1>1, <1>2, <1>4, <1>6, <1>8, <1>9, <1>10, <1>11

(* What every recorded prefix does to the counters and to REX.             *)
LEMMA RecordStep ==
  ASSUME IInv, PeekSucceeds, NEW b \in Bytes, Record(b), pfx' \in PrefixState,
         attributes' \subseteq {"HAS_OPERANDSIZE", "HAS_ADDRESSSIZE",
                                "HAS_REX"},
         \/ ~IsRex(b) /\ InvalidateRex
         \/ IsRex(b) /\ rex' = b /\ rexOffset' = prefixCount
  PROVE  PrefixTypeOK' /\ Counting' /\ RexIsLast'
  <1>1. /\ prefixCount = length /\ length < MaxLength
        /\ length' = length + 1 /\ prefixCount' = prefixCount + 1
    BY DEF IInv, Counting, PeekSucceeds, Record
  <1>2. length' \in 0 .. MaxLength /\ prefixCount' \in 0 .. MaxLength
    BY <1>1 DEF IInv, PrefixTypeOK
  <1>3. bufferLen' \in Nat
    BY DEF IInv, PrefixTypeOK, PeekSucceeds, Record
  <1>4. prefixes' \in [Slots -> Bytes \cup {0}]
    BY DEF IInv, PrefixTypeOK, Record
  <1>5. UNCHANGED <<mode, ahead, types, status>>
    BY DEF Record
  <1>6. prefixCount' - 1 = prefixCount /\ prefixCount' > 0
    BY <1>1 DEF IInv, PrefixTypeOK
  <1>7. prefixes'[prefixCount] = b /\ prefixCount \in Slots
    BY <1>1, Appended DEF IInv
  <1>8. 0 \in Slots
    BY DEF Slots
  <1>9. RexIsLast' /\ rex' \in Bytes \cup {0} /\ rexOffset' \in Slots
    <2>1. CASE ~IsRex(b) /\ InvalidateRex
      <3>1. rex' = 0 /\ rexOffset' = 0
        <4>1. 0 \div 16 # 4
          OBVIOUS
        <4> QED
          BY <2>1, <4>1 DEF IInv, InvalidateRex, RexIsLast, IsRex
      <3> QED
        BY <2>1, <3>1, <1>5, <1>6, <1>7, <1>8 DEF RexIsLast, IsRex
    <2>2. CASE IsRex(b) /\ rex' = b /\ rexOffset' = prefixCount
      BY <2>2, <1>5, <1>6, <1>7 DEF RexIsLast, IsRex
    <2> QED
      BY <2>1, <2>2
  <1>10. PrefixTypeOK'
    BY <1>2, <1>3, <1>4, <1>5, <1>9 DEF IInv, PrefixTypeOK
  <1>11. Counting'
    BY <1>1, <1>5 DEF IInv, Counting
  <1> QED
    BY <1>9, <1>10, <1>11
(* The steps of the loop, one lemma for each kind of prefix.               *)

LEMMA LockStep ==
  ASSUME IInv, CollectLock
  PROVE  IInv'
  <1>1. /\ LOCK \in Bytes /\ Record(LOCK) /\ PeekSucceeds
        /\ prefixCount < MaxLength
    BY DEF CollectLock, PeekSucceeds, IInv, Counting
  <1>2. /\ mode' = mode /\ prefixCount \in Slots
        /\ prefixes'[prefixCount] = LOCK
        /\ \A S : Present(S)' = IF LOCK \in S THEN Present(S) \cup {prefixCount}
                                ELSE Present(S)
        /\ \A S : Greatest(prefixCount, Present(S) \cup {prefixCount})
        /\ \A S : Present(S) = {} =>
                    Least(prefixCount, Present(S) \cup {prefixCount})
        /\ \A S, i : Least(i, Present(S)) =>
                       Least(i, Present(S) \cup {prefixCount})
        /\ \A S, i : Greatest(i, Present(S)) => prefixes'[i] = prefixes[i]
    BY <1>1, Appended DEF IInv
  <1>3. pfx' = [pfx EXCEPT !.has_lock = TRUE, !.offset_lock = prefixCount]
    BY DEF CollectLock
  <1>4. pfx \in PrefixState /\ pfx' \in PrefixState
    BY <1>2, <1>3 DEF IInv, PrefixTypeOK, PrefixState
  <1>5. PrefixTypeOK' /\ Counting' /\ RexIsLast'
    <2>1. attributes' \subseteq {"HAS_OPERANDSIZE", "HAS_ADDRESSSIZE",
                                 "HAS_REX"}
      BY DEF IInv, PrefixTypeOK, CollectLock
    <2>2. ~IsRex(LOCK) /\ InvalidateRex
      BY DEF IsRex, LOCK, CollectLock
    <2> QED
      BY <1>1, <1>4, <2>1, <2>2, RecordStep
  <1>6. /\ Present({LOCK})' = Present({LOCK}) \cup {prefixCount}
        /\ Present(Group1)' = Present(Group1)
        /\ Present(Group2)' = Present(Group2)
        /\ Present(NewSegments)' = Present(NewSegments)
        /\ Present({OSZ})' = Present({OSZ})
        /\ Present({ASZ})' = Present({ASZ})
        /\ Present(Group1 \cup {OSZ})' = Present(Group1 \cup {OSZ})
    BY <1>2 DEF LOCK, REPNE, REP, CS, SS, DS, ES, FS, GS, OSZ, ASZ, Group1,
                Group2, OldSegments, NewSegments
  <1>fields.
        /\ pfx'.has_lock = TRUE
        /\ pfx'.offset_lock = prefixCount
        /\ pfx'.group1 = pfx.group1
        /\ pfx'.offset_group1 = pfx.offset_group1
        /\ pfx'.group2 = pfx.group2
        /\ pfx'.offset_group2 = pfx.offset_group2
        /\ pfx'.effective_segment = pfx.effective_segment
        /\ pfx'.offset_segment = pfx.offset_segment
        /\ pfx'.mandatory_candidate = pfx.mandatory_candidate
        /\ pfx'.offset_mandatory = pfx.offset_mandatory
        /\ pfx'.offset_osz_override = pfx.offset_osz_override
        /\ pfx'.offset_asz_override = pfx.offset_asz_override
    BY <1>3, <1>4 DEF PrefixState
  <1>7. LastOfGroupWins'
    <2>1. IF pfx'.has_lock THEN Greatest(pfx'.offset_lock, Present({LOCK})')
          ELSE Present({LOCK})' = {}
      BY <1>2, <1>6, <1>fields DEF IInv, LastOfGroupWins, Last
    <2>2. IF pfx'.group1 = 0 THEN Present(Group1)' = {}
          ELSE /\ Greatest(pfx'.offset_group1, Present(Group1)')
               /\ prefixes'[pfx'.offset_group1] = pfx'.group1
      BY <1>2, <1>6, <1>fields DEF IInv, LastOfGroupWins, Last
    <2>3. IF pfx'.group2 = 0 THEN Present(Group2)' = {}
          ELSE /\ Greatest(pfx'.offset_group2, Present(Group2)')
               /\ prefixes'[pfx'.offset_group2] = pfx'.group2
      BY <1>2, <1>6, <1>fields DEF IInv, LastOfGroupWins, Last
    <2>4. /\ Present({OSZ})' # {} =>
               Greatest(pfx'.offset_osz_override, Present({OSZ})')
          /\ Present({ASZ})' # {} =>
               Greatest(pfx'.offset_asz_override, Present({ASZ})')
      BY <1>2, <1>6, <1>fields DEF IInv, LastOfGroupWins, Last
    <2> QED
      BY <2>1, <2>2, <2>3, <2>4 DEF LastOfGroupWins, Last
  <1>8. MandatoryChoice'
    BY ZenonT(40), <1>2, <1>6, <1>fields DEF IInv, MandatoryChoice, Last, First
  <1>9. SegmentChoice'
    BY <1>2, <1>6, <1>fields DEF IInv, SegmentChoice, Last
  <1> QED
    BY <1>5, <1>7, <1>8, <1>9 DEF IInv

LEMMA Group1Step ==
  ASSUME IInv, NEW b \in Bytes, CollectGroup1(b)
  PROVE  IInv'
  <1>1. /\ b \in Bytes /\ Record(b) /\ PeekSucceeds
        /\ prefixCount < MaxLength
    BY DEF CollectGroup1, PeekSucceeds, IInv, Counting
  <1>2. /\ mode' = mode /\ prefixCount \in Slots
        /\ prefixes'[prefixCount] = b
        /\ \A S : Present(S)' = IF b \in S THEN Present(S) \cup {prefixCount}
                                ELSE Present(S)
        /\ \A S : Greatest(prefixCount, Present(S) \cup {prefixCount})
        /\ \A S : Present(S) = {} =>
                    Least(prefixCount, Present(S) \cup {prefixCount})
        /\ \A S, i : Least(i, Present(S)) =>
                       Least(i, Present(S) \cup {prefixCount})
        /\ \A S, i : Greatest(i, Present(S)) => prefixes'[i] = prefixes[i]
    BY <1>1, Appended DEF IInv
  <1>3. pfx' = [pfx EXCEPT !.group1 = b, !.offset_group1 = prefixCount,
                          !.mandatory_candidate = b,
                          !.offset_mandatory = prefixCount]
    BY DEF CollectGroup1
  <1>4. pfx \in PrefixState /\ pfx' \in PrefixState
    BY <1>2, <1>3 DEF IInv, PrefixTypeOK, PrefixState, CollectGroup1
  <1>5. PrefixTypeOK' /\ Counting' /\ RexIsLast'
    <2>1. attributes' \subseteq {"HAS_OPERANDSIZE", "HAS_ADDRESSSIZE",
                                 "HAS_REX"}
      BY DEF IInv, PrefixTypeOK, CollectGroup1
    <2>2. ~IsRex(b) /\ InvalidateRex
      BY DEF IsRex, CollectGroup1, Group1, REP, REPNE
    <2> QED
      BY <1>1, <1>4, <2>1, <2>2, RecordStep
  <1>6. /\ b \in Group1 /\ b # 0 /\ b # OSZ
        /\ Present({LOCK})' = Present({LOCK})
        /\ Present(Group1)' = Present(Group1) \cup {prefixCount}
        /\ Present(Group2)' = Present(Group2)
        /\ Present(NewSegments)' = Present(NewSegments)
        /\ Present({OSZ})' = Present({OSZ})
        /\ Present({ASZ})' = Present({ASZ})
        /\ Present(Group1 \cup {OSZ})' = Present(Group1 \cup {OSZ}) \cup {prefixCount}
    BY <1>2 DEF CollectGroup1, LOCK, REPNE, REP, CS, SS, DS, ES, FS, GS, OSZ, ASZ, Group1,
                Group2, OldSegments, NewSegments
  <1>fields.
        /\ pfx'.has_lock = pfx.has_lock
        /\ pfx'.offset_lock = pfx.offset_lock
        /\ pfx'.group1 = b
        /\ pfx'.offset_group1 = prefixCount
        /\ pfx'.group2 = pfx.group2
        /\ pfx'.offset_group2 = pfx.offset_group2
        /\ pfx'.effective_segment = pfx.effective_segment
        /\ pfx'.offset_segment = pfx.offset_segment
        /\ pfx'.mandatory_candidate = b
        /\ pfx'.offset_mandatory = prefixCount
        /\ pfx'.offset_osz_override = pfx.offset_osz_override
        /\ pfx'.offset_asz_override = pfx.offset_asz_override
    BY <1>3, <1>4 DEF PrefixState
  <1>7. LastOfGroupWins'
    <2>1. IF pfx'.has_lock THEN Greatest(pfx'.offset_lock, Present({LOCK})')
          ELSE Present({LOCK})' = {}
      BY <1>2, <1>6, <1>fields DEF IInv, LastOfGroupWins, Last
    <2>2. IF pfx'.group1 = 0 THEN Present(Group1)' = {}
          ELSE /\ Greatest(pfx'.offset_group1, Present(Group1)')
               /\ prefixes'[pfx'.offset_group1] = pfx'.group1
      BY <1>2, <1>6, <1>fields DEF IInv, LastOfGroupWins, Last
    <2>3. IF pfx'.group2 = 0 THEN Present(Group2)' = {}
          ELSE /\ Greatest(pfx'.offset_group2, Present(Group2)')
               /\ prefixes'[pfx'.offset_group2] = pfx'.group2
      BY <1>2, <1>6, <1>fields DEF IInv, LastOfGroupWins, Last
    <2>4. /\ Present({OSZ})' # {} =>
               Greatest(pfx'.offset_osz_override, Present({OSZ})')
          /\ Present({ASZ})' # {} =>
               Greatest(pfx'.offset_asz_override, Present({ASZ})')
      BY <1>2, <1>6, <1>fields DEF IInv, LastOfGroupWins, Last
    <2> QED
      BY <2>1, <2>2, <2>3, <2>4 DEF LastOfGroupWins, Last
  <1>8. MandatoryChoice'
    BY <1>2, <1>6, <1>fields DEF IInv, MandatoryChoice, Last, First
  <1>9. SegmentChoice'
    BY <1>2, <1>6, <1>fields DEF IInv, SegmentChoice, Last
  <1> QED
    BY <1>5, <1>7, <1>8, <1>9 DEF IInv

LEMMA OldSegmentStep ==
  ASSUME IInv, NEW b \in Bytes, CollectOldSegment64(b)
  PROVE  IInv'
  <1>1. /\ b \in Bytes /\ Record(b) /\ PeekSucceeds
        /\ prefixCount < MaxLength
    BY DEF CollectOldSegment64, PeekSucceeds, IInv, Counting
  <1>2. /\ mode' = mode /\ prefixCount \in Slots
        /\ prefixes'[prefixCount] = b
        /\ \A S : Present(S)' = IF b \in S THEN Present(S) \cup {prefixCount}
                                ELSE Present(S)
        /\ \A S : Greatest(prefixCount, Present(S) \cup {prefixCount})
        /\ \A S : Present(S) = {} =>
                    Least(prefixCount, Present(S) \cup {prefixCount})
        /\ \A S, i : Least(i, Present(S)) =>
                       Least(i, Present(S) \cup {prefixCount})
        /\ \A S, i : Greatest(i, Present(S)) => prefixes'[i] = prefixes[i]
    BY <1>1, Appended DEF IInv
  <1>3. pfx' = [pfx EXCEPT
                    !.group2 = b, !.offset_group2 = prefixCount,
                    !.offset_notrack =
                       IF b = DS /\ pfx.effective_segment \notin NewSegments
                       THEN prefixCount ELSE @]
    BY DEF CollectOldSegment64
  <1>4. pfx \in PrefixState /\ pfx' \in PrefixState
    BY ZenonT(40), <1>2, <1>3 DEF IInv, PrefixTypeOK, PrefixState, CollectOldSegment64, Group2
  <1>5. PrefixTypeOK' /\ Counting' /\ RexIsLast'
    <2>1. attributes' \subseteq {"HAS_OPERANDSIZE", "HAS_ADDRESSSIZE",
                                 "HAS_REX"}
      BY DEF IInv, PrefixTypeOK, CollectOldSegment64
    <2>2. ~IsRex(b) /\ InvalidateRex
      BY DEF IsRex, CollectOldSegment64, OldSegments, CS, SS, DS, ES
    <2> QED
      BY <1>1, <1>4, <2>1, <2>2, RecordStep
  <1>6. /\ b # 0 /\ mode = "LONG_64"
        /\ Present({LOCK})' = Present({LOCK})
        /\ Present(Group1)' = Present(Group1)
        /\ Present(Group2)' = Present(Group2) \cup {prefixCount}
        /\ Present(NewSegments)' = Present(NewSegments)
        /\ Present({OSZ})' = Present({OSZ})
        /\ Present({ASZ})' = Present({ASZ})
        /\ Present(Group1 \cup {OSZ})' = Present(Group1 \cup {OSZ})
    BY <1>2 DEF CollectOldSegment64, LOCK, REPNE, REP, CS, SS, DS, ES, FS, GS, OSZ, ASZ, Group1,
                Group2, OldSegments, NewSegments
  <1>fields.
        /\ pfx'.has_lock = pfx.has_lock
        /\ pfx'.offset_lock = pfx.offset_lock
        /\ pfx'.group1 = pfx.group1
        /\ pfx'.offset_group1 = pfx.offset_group1
        /\ pfx'.group2 = b
        /\ pfx'.offset_group2 = prefixCount
        /\ pfx'.effective_segment = pfx.effective_segment
        /\ pfx'.offset_segment = pfx.offset_segment
        /\ pfx'.mandatory_candidate = pfx.mandatory_candidate
        /\ pfx'.offset_mandatory = pfx.offset_mandatory
        /\ pfx'.offset_osz_override = pfx.offset_osz_override
        /\ pfx'.offset_asz_override = pfx.offset_asz_override
    BY <1>3, <1>4 DEF PrefixState
  <1>7. LastOfGroupWins'
    <2>1. IF pfx'.has_lock THEN Greatest(pfx'.offset_lock, Present({LOCK})')
          ELSE Present({LOCK})' = {}
      BY <1>2, <1>6, <1>fields DEF IInv, LastOfGroupWins, Last
    <2>2. IF pfx'.group1 = 0 THEN Present(Group1)' = {}
          ELSE /\ Greatest(pfx'.offset_group1, Present(Group1)')
               /\ prefixes'[pfx'.offset_group1] = pfx'.group1
      BY <1>2, <1>6, <1>fields DEF IInv, LastOfGroupWins, Last
    <2>3. IF pfx'.group2 = 0 THEN Present(Group2)' = {}
          ELSE /\ Greatest(pfx'.offset_group2, Present(Group2)')
               /\ prefixes'[pfx'.offset_group2] = pfx'.group2
      BY <1>2, <1>6, <1>fields DEF IInv, LastOfGroupWins, Last
    <2>4. /\ Present({OSZ})' # {} =>
               Greatest(pfx'.offset_osz_override, Present({OSZ})')
          /\ Present({ASZ})' # {} =>
               Greatest(pfx'.offset_asz_override, Present({ASZ})')
      BY <1>2, <1>6, <1>fields DEF IInv, LastOfGroupWins, Last
    <2> QED
      BY <2>1, <2>2, <2>3, <2>4 DEF LastOfGroupWins, Last
  <1>8. MandatoryChoice'
    BY ZenonT(40), <1>2, <1>6, <1>fields DEF IInv, MandatoryChoice, Last, First
  <1>9. SegmentChoice'
    BY <1>2, <1>6, <1>fields DEF IInv, SegmentChoice, Last
  <1> QED
    BY <1>5, <1>7, <1>8, <1>9 DEF IInv

LEMMA SegmentStep ==
  ASSUME IInv, NEW b \in Bytes, CollectSegment(b)
  PROVE  IInv'
  <1>1. /\ b \in Bytes /\ Record(b) /\ PeekSucceeds
        /\ prefixCount < MaxLength
    BY DEF CollectSegment, PeekSucceeds, IInv, Counting
  <1>2. /\ mode' = mode /\ prefixCount \in Slots
        /\ prefixes'[prefixCount] = b
        /\ \A S : Present(S)' = IF b \in S THEN Present(S) \cup {prefixCount}
                                ELSE Present(S)
        /\ \A S : Greatest(prefixCount, Present(S) \cup {prefixCount})
        /\ \A S : Present(S) = {} =>
                    Least(prefixCount, Present(S) \cup {prefixCount})
        /\ \A S, i : Least(i, Present(S)) =>
                       Least(i, Present(S) \cup {prefixCount})
        /\ \A S, i : Greatest(i, Present(S)) => prefixes'[i] = prefixes[i]
    BY <1>1, Appended DEF IInv
  <1>3. pfx' = [pfx EXCEPT !.group2 = b, !.offset_group2 = prefixCount,
                          !.effective_segment = b,
                          !.offset_segment = prefixCount,
                          !.offset_notrack = -1]
    BY DEF CollectSegment
  <1>4. pfx \in PrefixState /\ pfx' \in PrefixState
    BY <1>2, <1>3 DEF IInv, PrefixTypeOK, PrefixState, CollectSegment, Group2
  <1>5. PrefixTypeOK' /\ Counting' /\ RexIsLast'
    <2>1. attributes' \subseteq {"HAS_OPERANDSIZE", "HAS_ADDRESSSIZE",
                                 "HAS_REX"}
      BY DEF IInv, PrefixTypeOK, CollectSegment
    <2>2. ~IsRex(b) /\ InvalidateRex
      BY DEF IsRex, CollectSegment, LOCK, REPNE, REP, CS, SS, DS, ES, FS, GS, OSZ, ASZ, Group1,
                Group2, OldSegments, NewSegments
    <2> QED
      BY <1>1, <1>4, <2>1, <2>2, RecordStep
  <1>6. /\ b # 0
        /\ Present({LOCK})' = Present({LOCK})
        /\ Present(Group1)' = Present(Group1)
        /\ Present(Group2)' = Present(Group2) \cup {prefixCount}
        /\ Present({OSZ})' = Present({OSZ})
        /\ Present({ASZ})' = Present({ASZ})
        /\ Present(Group1 \cup {OSZ})' = Present(Group1 \cup {OSZ})
        /\ mode = "LONG_64" =>
             Present(NewSegments)' = Present(NewSegments) \cup {prefixCount}
    BY <1>2 DEF CollectSegment, LOCK, REPNE, REP, CS, SS, DS, ES, FS, GS, OSZ, ASZ, Group1,
                Group2, OldSegments, NewSegments
  <1>fields.
        /\ pfx'.has_lock = pfx.has_lock
        /\ pfx'.offset_lock = pfx.offset_lock
        /\ pfx'.group1 = pfx.group1
        /\ pfx'.offset_group1 = pfx.offset_group1
        /\ pfx'.group2 = b
        /\ pfx'.offset_group2 = prefixCount
        /\ pfx'.effective_segment = b
        /\ pfx'.offset_segment = prefixCount
        /\ pfx'.mandatory_candidate = pfx.mandatory_candidate
        /\ pfx'.offset_mandatory = pfx.offset_mandatory
        /\ pfx'.offset_osz_override = pfx.offset_osz_override
        /\ pfx'.offset_asz_override = pfx.offset_asz_override
    BY <1>3, <1>4 DEF PrefixState
  <1>7. LastOfGroupWins'
    <2>1. IF pfx'.has_lock THEN Greatest(pfx'.offset_lock, Present({LOCK})')
          ELSE Present({LOCK})' = {}
      BY <1>2, <1>6, <1>fields DEF IInv, LastOfGroupWins, Last
    <2>2. IF pfx'.group1 = 0 THEN Present(Group1)' = {}
          ELSE /\ Greatest(pfx'.offset_group1, Present(Group1)')
               /\ prefixes'[pfx'.offset_group1] = pfx'.group1
      BY <1>2, <1>6, <1>fields DEF IInv, LastOfGroupWins, Last
    <2>3. IF pfx'.group2 = 0 THEN Present(Group2)' = {}
          ELSE /\ Greatest(pfx'.offset_group2, Present(Group2)')
               /\ prefixes'[pfx'.offset_group2] = pfx'.group2
      BY <1>2, <1>6, <1>fields DEF IInv, LastOfGroupWins, Last
    <2>4. /\ Present({OSZ})' # {} =>
               Greatest(pfx'.offset_osz_override, Present({OSZ})')
          /\ Present({ASZ})' # {} =>
               Greatest(pfx'.offset_asz_override, Present({ASZ})')
      BY <1>2, <1>6, <1>fields DEF IInv, LastOfGroupWins, Last
    <2> QED
      BY <2>1, <2>2, <2>3, <2>4 DEF LastOfGroupWins, Last
  <1>8. MandatoryChoice'
    BY <1>2, <1>6, <1>fields DEF IInv, MandatoryChoice, Last, First
  <1>9. SegmentChoice'
    BY <1>2, <1>6, <1>fields DEF IInv, SegmentChoice, Last
  <1> QED
    BY <1>5, <1>7, <1>8, <1>9 DEF IInv

LEMMA OperandSizeStep ==
  ASSUME IInv, CollectOperandSize
  PROVE  IInv'
  <1>1. /\ OSZ \in Bytes /\ Record(OSZ) /\ PeekSucceeds
        /\ prefixCount < MaxLength
    BY DEF CollectOperandSize, PeekSucceeds, IInv, Counting
  <1>2. /\ mode' = mode /\ prefixCount \in Slots
        /\ prefixes'[prefixCount] = OSZ
        /\ \A S : Present(S)' = IF OSZ \in S THEN Present(S) \cup {prefixCount}
                                ELSE Present(S)
        /\ \A S : Greatest(prefixCount, Present(S) \cup {prefixCount})
        /\ \A S : Present(S) = {} =>
                    Least(prefixCount, Present(S) \cup {prefixCount})
        /\ \A S, i : Least(i, Present(S)) =>
                       Least(i, Present(S) \cup {prefixCount})
        /\ \A S, i : Greatest(i, Present(S)) => prefixes'[i] = prefixes[i]
    BY <1>1, Appended DEF IInv
  <1>3. pfx' = [pfx EXCEPT
                  !.offset_osz_override = prefixCount,
                  !.mandatory_candidate = IF @ = 0 THEN OSZ ELSE @,
                  !.offset_mandatory = IF pfx.mandatory_candidate = 0
                                       THEN prefixCount ELSE @]
    BY DEF CollectOperandSize
  <1>4. pfx \in PrefixState /\ pfx' \in PrefixState
    BY <1>2, <1>3 DEF IInv, PrefixTypeOK, PrefixState
  <1>5. PrefixTypeOK' /\ Counting' /\ RexIsLast'
    <2>1. attributes' \subseteq {"HAS_OPERANDSIZE", "HAS_ADDRESSSIZE",
                                 "HAS_REX"}
      BY DEF IInv, PrefixTypeOK, CollectOperandSize
    <2>2. ~IsRex(OSZ) /\ InvalidateRex
      BY DEF IsRex, OSZ, CollectOperandSize
    <2> QED
      BY <1>1, <1>4, <2>1, <2>2, RecordStep
  <1>6. /\ Present({LOCK})' = Present({LOCK})
        /\ Present(Group1)' = Present(Group1)
        /\ Present(Group2)' = Present(Group2)
        /\ Present(NewSegments)' = Present(NewSegments)
        /\ Present({OSZ})' = Present({OSZ}) \cup {prefixCount}
        /\ Present({ASZ})' = Present({ASZ})
        /\ Present(Group1 \cup {OSZ})' = Present(Group1 \cup {OSZ}) \cup {prefixCount}
    BY <1>2 DEF LOCK, REPNE, REP, CS, SS, DS, ES, FS, GS, OSZ, ASZ, Group1,
                Group2, OldSegments, NewSegments
  <1>fields.
        /\ pfx'.has_lock = pfx.has_lock
        /\ pfx'.offset_lock = pfx.offset_lock
        /\ pfx'.group1 = pfx.group1
        /\ pfx'.offset_group1 = pfx.offset_group1
        /\ pfx'.group2 = pfx.group2
        /\ pfx'.offset_group2 = pfx.offset_group2
        /\ pfx'.effective_segment = pfx.effective_segment
        /\ pfx'.offset_segment = pfx.offset_segment
        /\ pfx'.offset_osz_override = prefixCount
        /\ pfx'.offset_asz_override = pfx.offset_asz_override
    BY <1>3, <1>4 DEF PrefixState
  <1>7. LastOfGroupWins'
    <2>1. IF pfx'.has_lock THEN Greatest(pfx'.offset_lock, Present({LOCK})')
          ELSE Present({LOCK})' = {}
      BY <1>2, <1>6, <1>fields DEF IInv, LastOfGroupWins, Last
    <2>2. IF pfx'.group1 = 0 THEN Present(Group1)' = {}
          ELSE /\ Greatest(pfx'.offset_group1, Present(Group1)')
               /\ prefixes'[pfx'.offset_group1] = pfx'.group1
      BY <1>2, <1>6, <1>fields DEF IInv, LastOfGroupWins, Last
    <2>3. IF pfx'.group2 = 0 THEN Present(Group2)' = {}
          ELSE /\ Greatest(pfx'.offset_group2, Present(Group2)')
               /\ prefixes'[pfx'.offset_group2] = pfx'.group2
      BY <1>2, <1>6, <1>fields DEF IInv, LastOfGroupWins, Last
    <2>4. /\ Present({OSZ})' # {} =>
               Greatest(pfx'.offset_osz_override, Present({OSZ})')
          /\ Present({ASZ})' # {} =>
               Greatest(pfx'.offset_asz_override, Present({ASZ})')
      BY <1>2, <1>6, <1>fields DEF IInv, LastOfGroupWins, Last
    <2> QED
      BY <2>1, <2>2, <2>3, <2>4 DEF LastOfGroupWins, Last
  <1>8. MandatoryChoice'
    <2>1. OSZ \notin Group1 /\ OSZ # 0 /\ 0 \notin Group1
      BY DEF OSZ, Group1, REP, REPNE
    <2>2. CASE pfx.mandatory_candidate = 0
      <3>1. Present(Group1) = {} /\ Present({OSZ}) = {}
        BY <2>2 DEF IInv, MandatoryChoice, Present
      <3>2. /\ pfx'.mandatory_candidate = OSZ
            /\ pfx'.offset_mandatory = prefixCount
        BY <2>2, <1>3, <1>4 DEF PrefixState
      <3> QED
        BY <2>1, <3>1, <3>2, <1>2, <1>6 DEF MandatoryChoice, First
    <2>3. CASE pfx.mandatory_candidate # 0
      <3>1. /\ pfx'.mandatory_candidate = pfx.mandatory_candidate
            /\ pfx'.offset_mandatory = pfx.offset_mandatory
        BY <2>3, <1>3, <1>4 DEF PrefixState
      <3> QED
        BY <2>3, <3>1, <1>2, <1>6 DEF IInv, MandatoryChoice, Last, First
    <2> QED
      BY <2>2, <2>3
  <1>9. SegmentChoice'
    BY <1>2, <1>6, <1>fields DEF IInv, SegmentChoice, Last
  <1> QED
    BY <1>5, <1>7, <1>8, <1>9 DEF IInv

LEMMA AddressSizeStep ==
  ASSUME IInv, CollectAddressSize
  PROVE  IInv'
  <1>1. /\ ASZ \in Bytes /\ Record(ASZ) /\ PeekSucceeds
        /\ prefixCount < MaxLength
    BY DEF CollectAddressSize, PeekSucceeds, IInv, Counting
  <1>2. /\ mode' = mode /\ prefixCount \in Slots
        /\ prefixes'[prefixCount] = ASZ
        /\ \A S : Present(S)' = IF ASZ \in S THEN Present(S) \cup {prefixCount}
                                ELSE Present(S)
        /\ \A S : Greatest(prefixCount, Present(S) \cup {prefixCount})
        /\ \A S : Present(S) = {} =>
                    Least(prefixCount, Present(S) \cup {prefixCount})
        /\ \A S, i : Least(i, Present(S)) =>
                       Least(i, Present(S) \cup {prefixCount})
        /\ \A S, i : Greatest(i, Present(S)) => prefixes'[i] = prefixes[i]
    BY <1>1, Appended DEF IInv
  <1>3. pfx' = [pfx EXCEPT !.offset_asz_override = prefixCount]
    BY DEF CollectAddressSize
  <1>4. pfx \in PrefixState /\ pfx' \in PrefixState
    BY <1>2, <1>3 DEF IInv, PrefixTypeOK, PrefixState
  <1>5. PrefixTypeOK' /\ Counting' /\ RexIsLast'
    <2>1. attributes' \subseteq {"HAS_OPERANDSIZE", "HAS_ADDRESSSIZE",
                                 "HAS_REX"}
      BY DEF IInv, PrefixTypeOK, CollectAddressSize
    <2>2. ~IsRex(ASZ) /\ InvalidateRex
      BY DEF IsRex, ASZ, CollectAddressSize
    <2> QED
      BY <1>1, <1>4, <2>1, <2>2, RecordStep
  <1>6. /\ Present({LOCK})' = Present({LOCK})
        /\ Present(Group1)' = Present(Group1)
        /\ Present(Group2)' = Present(Group2)
        /\ Present(NewSegments)' = Present(NewSegments)
        /\ Present({OSZ})' = Present({OSZ})
        /\ Present({ASZ})' = Present({ASZ}) \cup {prefixCount}
        /\ Present(Group1 \cup {OSZ})' = Present(Group1 \cup {OSZ})
    BY <1>2 DEF LOCK, REPNE, REP, CS, SS, DS, ES, FS, GS, OSZ, ASZ, Group1,
                Group2, OldSegments, NewSegments
  <1>fields.
        /\ pfx'.has_lock = pfx.has_lock
        /\ pfx'.offset_lock = pfx.offset_lock
        /\ pfx'.group1 = pfx.group1
        /\ pfx'.offset_group1 = pfx.offset_group1
        /\ pfx'.group2 = pfx.group2
        /\ pfx'.offset_group2 = pfx.offset_group2
        /\ pfx'.effective_segment = pfx.effective_segment
        /\ pfx'.offset_segment = pfx.offset_segment
        /\ pfx'.mandatory_candidate = pfx.mandatory_candidate
        /\ pfx'.offset_mandatory = pfx.offset_mandatory
        /\ pfx'.offset_osz_override = pfx.offset_osz_override
        /\ pfx'.offset_asz_override = prefixCount
    BY <1>3, <1>4 DEF PrefixState
  <1>7. LastOfGroupWins'
    <2>1. IF pfx'.has_lock THEN Greatest(pfx'.offset_lock, Present({LOCK})')
          ELSE Present({LOCK})' = {}
      BY <1>2, <1>6, <1>fields DEF IInv, LastOfGroupWins, Last
    <2>2. IF pfx'.group1 = 0 THEN Present(Group1)' = {}
          ELSE /\ Greatest(pfx'.offset_group1, Present(Group1)')
               /\ prefixes'[pfx'.offset_group1] = pfx'.group1
      BY <1>2, <1>6, <1>fields DEF IInv, LastOfGroupWins, Last
    <2>3. IF pfx'.group2 = 0 THEN Present(Group2)' = {}
          ELSE /\ Greatest(pfx'.offset_group2, Present(Group2)')
               /\ prefixes'[pfx'.offset_group2] = pfx'.group2
      BY <1>2, <1>6, <1>fields DEF IInv, LastOfGroupWins, Last
    <2>4. /\ Present({OSZ})' # {} =>
               Greatest(pfx'.offset_osz_override, Present({OSZ})')
          /\ Present({ASZ})' # {} =>
               Greatest(pfx'.offset_asz_override, Present({ASZ})')
      BY <1>2, <1>6, <1>fields DEF IInv, LastOfGroupWins, Last
    <2> QED
      BY <2>1, <2>2, <2>3, <2>4 DEF LastOfGroupWins, Last
  <1>8. MandatoryChoice'
    BY <1>2, <1>6, <1>fields DEF IInv, MandatoryChoice, Last, First
  <1>9. SegmentChoice'
    BY <1>2, <1>6, <1>fields DEF IInv, SegmentChoice, Last
  <1> QED
    BY <1>5, <1>7, <1>8, <1>9 DEF IInv

LEMMA RexStep ==
  ASSUME IInv, NEW b \in Bytes, CollectRex(b)
  PROVE  IInv'
  <1>1. /\ b \in Bytes /\ Record(b) /\ PeekSucceeds
        /\ prefixCount < MaxLength
    BY DEF CollectRex, PeekSucceeds, IInv, Counting
  <1>2. /\ mode' = mode /\ prefixCount \in Slots
        /\ prefixes'[prefixCount] = b
        /\ \A S : Present(S)' = IF b \in S THEN Present(S) \cup {prefixCount}
                                ELSE Present(S)
        /\ \A S : Greatest(prefixCount, Present(S) \cup {prefixCount})
        /\ \A S : Present(S) = {} =>
                    Least(prefixCount, Present(S) \cup {prefixCount})
        /\ \A S, i : Least(i, Present(S)) =>
                       Least(i, Present(S) \cup {prefixCount})
        /\ \A S, i : Greatest(i, Present(S)) => prefixes'[i] = prefixes[i]
    BY <1>1, Appended DEF IInv
  <1>3. pfx' = pfx
    BY DEF CollectRex
  <1>4. pfx \in PrefixState /\ pfx' \in PrefixState
    BY <1>2, <1>3 DEF IInv, PrefixTypeOK, PrefixState
  <1>5. PrefixTypeOK' /\ Counting' /\ RexIsLast'
    <2>1. attributes' \subseteq {"HAS_OPERANDSIZE", "HAS_ADDRESSSIZE",
                                 "HAS_REX"}
      BY DEF IInv, PrefixTypeOK, CollectRex
    <2>2. IsRex(b) /\ rex' = b /\ rexOffset' = prefixCount
      BY DEF CollectRex
    <2> QED
      BY <1>1, <1>4, <2>1, <2>2, RecordStep
  <1>6. /\ Present({LOCK})' = Present({LOCK})
        /\ Present(Group1)' = Present(Group1)
        /\ Present(Group2)' = Present(Group2)
        /\ Present(NewSegments)' = Present(NewSegments)
        /\ Present({OSZ})' = Present({OSZ})
        /\ Present({ASZ})' = Present({ASZ})
        /\ Present(Group1 \cup {OSZ})' = Present(Group1 \cup {OSZ})
    <2>1. b \in 64 .. 79
      BY DEF CollectRex, IsRex
    <2> QED
      BY <1>2, <2>1 DEF LOCK, REPNE, REP, CS, SS, DS, ES, FS, GS, OSZ, ASZ, Group1,
                Group2, OldSegments, NewSegments
  <1>7. LastOfGroupWins'
    BY <1>2, <1>3, <1>6
    DEF IInv, LastOfGroupWins, Last
  <1>8. MandatoryChoice'
    BY <1>2, <1>3, <1>6 DEF IInv, MandatoryChoice, Last, First
  <1>9. SegmentChoice'
    BY <1>2, <1>3, <1>4, <1>6
    DEF IInv, SegmentChoice, Last, PrefixState
  <1> QED
    BY <1>5, <1>7, <1>8, <1>9 DEF IInv

(* The end of the loop marks prefixes and may move the no-track offset;    *)
(* what was found does not change.                                         *)
LEMMA DoneStep ==
  ASSUME IInv, NEW b \in Bytes, CollectDone(b)
  PROVE  IInv'
  <1>1. UNCHANGED <<mode, bufferLen, length, prefixes, prefixCount, rex,
                    rexOffset>>
        /\ ahead' = b /\ status' = "TREE"
    BY DEF CollectDone
  <1>2. \A S : Present(S)' = Present(S)
    BY <1>1 DEF Present
  <1>3. pfx \in PrefixState /\ pfx' \in PrefixState
    BY DEF IInv, PrefixTypeOK, PrefixState, CollectDone
  <1>4. /\ pfx'.has_lock = pfx.has_lock
        /\ pfx'.offset_lock = pfx.offset_lock
        /\ pfx'.group1 = pfx.group1
        /\ pfx'.offset_group1 = pfx.offset_group1
        /\ pfx'.group2 = pfx.group2
        /\ pfx'.offset_group2 = pfx.offset_group2
        /\ pfx'.effective_segment = pfx.effective_segment
        /\ pfx'.offset_segment = pfx.offset_segment
        /\ pfx'.mandatory_candidate = pfx.mandatory_candidate
        /\ pfx'.offset_mandatory = pfx.offset_mandatory
        /\ pfx'.offset_osz_override = pfx.offset_osz_override
        /\ pfx'.offset_asz_override = pfx.offset_asz_override
    BY <1>3 DEF CollectDone, PrefixState
  <1>5. types' \in [Slots -> PrefixTypes]
    BY DEF IInv, PrefixTypeOK, CollectDone, CollectedTypes, Slots, PrefixTypes
  <1>6. PrefixTypeOK'
    BY <1>1, <1>3, <1>5 DEF IInv, PrefixTypeOK, CollectDone
  <1>7. Counting'
    BY <1>1 DEF Counting
  <1>8. LastOfGroupWins'
    BY <1>1, <1>2, <1>4 DEF IInv, LastOfGroupWins, Last
  <1>9. MandatoryChoice'
    BY <1>1, <1>2, <1>4 DEF IInv, MandatoryChoice, Last, First
  <1>10. SegmentChoice'
    BY <1>1, <1>2, <1>4 DEF IInv, SegmentChoice, Last
  <1>11. RexIsLast'
    BY <1>1 DEF IInv, RexIsLast, IsRex
  <1> QED
    BY <1>6, <1>7, <1>8, <1>9, <1>10, <1>11 DEF IInv

(* A step that changes at most the status keeps the invariant.             *)
LEMMA QuietStep ==
  ASSUME IInv,
         UNCHANGED <<mode, bufferLen, ahead, length, prefixes, types,
                     prefixCount, pfx, attributes, rex, rexOffset>>,
         \/ status' \in {"NO_MORE_DATA", "INSTRUCTION_TOO_LONG"}
         \/ status' = status
  PROVE  IInv'
  <1>1. \A S : Present(S)' = Present(S)
    BY DEF Present
  <1>2. PrefixTypeOK' /\ Counting'
    BY DEF IInv, PrefixTypeOK, Counting
  <1>3. LastOfGroupWins' /\ MandatoryChoice' /\ SegmentChoice'
    BY <1>1
    DEF IInv, LastOfGroupWins, MandatoryChoice, SegmentChoice, Last, First
  <1>4. RexIsLast'
    BY DEF IInv, RexIsLast, IsRex
  <1> QED
    BY <1>2, <1>3, <1>4 DEF IInv

(* One step of the loop preserves it.                                      *)
LEMMA PrefixStep ==
  ASSUME IInv, [CollectOptionalPrefixes]_prefixVars
  PROVE  IInv'
  <1>1. CASE PeekTooLong
    BY <1>1, QuietStep DEF PeekTooLong
  <1>2. CASE PeekNoMoreData
    BY <1>2, QuietStep DEF PeekNoMoreData
  <1>3. CASE CollectLock
    BY <1>3, LockStep
  <1>4. CASE CollectOperandSize
    BY <1>4, OperandSizeStep
  <1>5. CASE CollectAddressSize
    BY <1>5, AddressSizeStep
  <1>6. ASSUME NEW b \in Bytes, CollectGroup1(b) PROVE IInv'
    BY <1>6, Group1Step
  <1>7. ASSUME NEW b \in Bytes, CollectOldSegment64(b) PROVE IInv'
    BY <1>7, OldSegmentStep
  <1>8. ASSUME NEW b \in Bytes, CollectSegment(b) PROVE IInv'
    BY <1>8, SegmentStep
  <1>9. ASSUME NEW b \in Bytes, CollectRex(b) PROVE IInv'
    BY <1>9, RexStep
  <1>10. ASSUME NEW b \in Bytes, CollectDone(b) PROVE IInv'
    BY <1>10, DoneStep
  <1>11. CASE UNCHANGED prefixVars
    BY <1>11, QuietStep DEF prefixVars
  <1> QED
    BY <1>1, <1>2, <1>3, <1>4, <1>5, <1>6, <1>7, <1>8, <1>9, <1>10, <1>11
    DEF CollectOptionalPrefixes

(* The invariant is inductive.                                             *)
THEOREM PrefixInductive == PrefixSpec => []IInv
  <1>1. IInv /\ [CollectOptionalPrefixes]_prefixVars => IInv'
    BY PrefixStep
  <1> QED
    BY <1>1, InitInv, PTL DEF PrefixSpec

(* Every recorded offset is an index of raw.prefixes, for every limit.     *)
THEOREM PrefixTypeCorrect == PrefixSpec => []PrefixTypeOK
  BY PrefixInductive, PTL DEF IInv

(* The prefix closest to the opcode is the effective one of its group.     *)
THEOREM LastWins == PrefixSpec => []LastOfGroupWins
  BY PrefixInductive, PTL DEF IInv

(* The mandatory candidate: the last F2 or F3, or else the first 66.       *)
THEOREM MandatoryChosen == PrefixSpec => []MandatoryChoice
  BY PrefixInductive, PTL DEF IInv

(* The segment override is the last prefix that can be one in this mode.   *)
THEOREM SegmentChosen == PrefixSpec => []SegmentChoice
  BY PrefixInductive, PTL DEF IInv

(* REX counts exactly when it is the last prefix.                          *)
THEOREM RexAdjacent == PrefixSpec => []RexIsLast
  BY PrefixInductive, PTL DEF IInv

-----------------------------------------------------------------------------
(* What the end of the loop concludes rests on what the loop keeps true:   *)
(* the attributes say which prefixes were met, and the no-track offset is  *)
(* the last 3E for as long as neither FS nor GS has been met.              *)

AttributesAgree ==
    status = "PREFIXES" =>
      /\ "HAS_OPERANDSIZE" \in attributes <=> Present({OSZ}) # {}
      /\ "HAS_ADDRESSSIZE" \in attributes <=> Present({ASZ}) # {}
      /\ "HAS_REX" \notin attributes

NotrackCandidate ==
    /\ Last(pfx.offset_notrack, {DS})
    /\ Present(NewSegments) = {}

NotrackSoFar ==
    status = "PREFIXES" =>
      /\ mode # "LONG_64" => pfx.offset_notrack = -1
      /\ mode = "LONG_64" /\ pfx.offset_notrack # -1 => NotrackCandidate
      /\ mode = "LONG_64" /\ pfx.offset_notrack = -1 =>
           Present({DS}) = {} \/ Present(NewSegments) # {}

EndInv == AttributesAgree /\ NotrackSoFar /\ NotrackChoice /\ CollectedMarks

(* A recorded prefix other than 66, 67 and a segment leaves everything.    *)
LEMMA IndifferentStep ==
  ASSUME IInv, EndInv, PeekSucceeds, NEW b \in Bytes, Record(b),
         b \notin {OSZ, ASZ} \cup NewSegments, b # DS \/ mode # "LONG_64",
         attributes' = attributes, pfx'.offset_notrack = pfx.offset_notrack
  PROVE  EndInv'
  <1>1. prefixCount < MaxLength /\ status' = "PREFIXES" /\ status = "PREFIXES"
    BY DEF PeekSucceeds, IInv, Counting, Record
  <1>2. /\ mode' = mode
        /\ \A S : Present(S)' = IF b \in S THEN Present(S) \cup {prefixCount}
                                ELSE Present(S)
        /\ \A S, i : Greatest(i, Present(S)) => prefixes'[i] = prefixes[i]
    BY <1>1, Appended DEF IInv
  <1>3. /\ Present({OSZ})' = Present({OSZ})
        /\ Present({ASZ})' = Present({ASZ})
        /\ Present(NewSegments)' = Present(NewSegments)
        /\ mode = "LONG_64" => Present({DS})' = Present({DS})
    BY <1>2
  <1>4. AttributesAgree'
    BY <1>1, <1>3 DEF EndInv, AttributesAgree
  <1>5. NotrackSoFar'
    BY <1>1, <1>2, <1>3 DEF EndInv, NotrackSoFar, NotrackCandidate, Last
  <1>6. NotrackChoice' /\ CollectedMarks'
    BY <1>1 DEF NotrackChoice, CollectedMarks
  <1> QED
    BY <1>4, <1>5, <1>6 DEF EndInv

(* A 3E in 64-bit mode, and every prefix that overrides the segment.       *)
LEMMA SegmentPrefixStep ==
  ASSUME IInv, EndInv, NEW b \in Bytes,
         \/ CollectOldSegment64(b) /\ b = DS
         \/ CollectSegment(b)
  PROVE  EndInv'
  <1>1. /\ PeekSucceeds /\ Record(b) /\ attributes' = attributes
        /\ b \notin {OSZ, ASZ}
    BY DEF CollectOldSegment64, CollectSegment, OldSegments, NewSegments, CS,
           SS, DS, ES, FS, GS, OSZ, ASZ
  <1>2. /\ prefixCount < MaxLength /\ status' = "PREFIXES" /\ status = "PREFIXES"
        /\ prefixCount \in Nat
    BY <1>1 DEF PeekSucceeds, IInv, Counting, Record, PrefixTypeOK
  <1>3. /\ mode' = mode /\ prefixCount \in Slots
        /\ \A S : Present(S)' = IF b \in S THEN Present(S) \cup {prefixCount}
                                ELSE Present(S)
        /\ \A S : Greatest(prefixCount, Present(S) \cup {prefixCount})
    BY <1>1, <1>2, Appended DEF IInv
  <1>4. AttributesAgree'
    <2>1. /\ Present({OSZ})' = Present({OSZ})
          /\ Present({ASZ})' = Present({ASZ})
      BY <1>1, <1>3
    <2> QED
      BY <1>1, <1>2, <2>1 DEF EndInv, AttributesAgree
  <1>5. pfx \in PrefixState
    BY DEF IInv, PrefixTypeOK
  <1>6. CASE CollectOldSegment64(b) /\ b = DS
    <2>1. mode = "LONG_64" /\ DS \notin NewSegments
      BY <1>6 DEF CollectOldSegment64, NewSegments, DS, FS, GS
    <2>2. /\ Present({DS})' = Present({DS}) \cup {prefixCount}
          /\ Present(NewSegments)' = Present(NewSegments)
      BY <1>3, <1>6, <2>1
    <2>3. pfx'.offset_notrack = IF pfx.effective_segment \notin NewSegments
                                THEN prefixCount ELSE pfx.offset_notrack
      BY <1>5, <1>6 DEF CollectOldSegment64, PrefixState
    <2>4. pfx.effective_segment \in NewSegments <=> Present(NewSegments) # {}
      <3>1. 0 \notin NewSegments
        BY DEF NewSegments, FS, GS
      <3>2. IF pfx.effective_segment = 0 THEN Present(NewSegments) = {}
            ELSE /\ Greatest(pfx.offset_segment, Present(NewSegments))
                 /\ prefixes[pfx.offset_segment] = pfx.effective_segment
        BY <2>1 DEF IInv, SegmentChoice, Last
      <3> QED
        BY <3>1, <3>2 DEF Greatest, Present
    <2>5. NotrackSoFar'
      <3>1. CASE pfx.effective_segment \in NewSegments
        BY <3>1, <1>2, <1>3, <2>1, <2>2, <2>3, <2>4
        DEF EndInv, NotrackSoFar, NotrackCandidate
      <3>2. CASE pfx.effective_segment \notin NewSegments
        <4>1. pfx'.offset_notrack = prefixCount /\ prefixCount # -1
          BY <3>2, <2>3, <1>2
        <4>2. Last(pfx.offset_notrack, {DS})' /\ Present(NewSegments)' = {}
          BY <4>1, <3>2, <1>3, <2>2, <2>4 DEF Last, Greatest
        <4> QED
          BY <4>1, <4>2, <1>3, <2>1 DEF NotrackSoFar, NotrackCandidate
      <3> QED
        BY <3>1, <3>2
    <2>6. NotrackChoice' /\ CollectedMarks'
      BY <1>2 DEF NotrackChoice, CollectedMarks
    <2> QED
      BY <1>4, <2>5, <2>6 DEF EndInv
  <1>7. CASE CollectSegment(b)
    <2>1. pfx'.offset_notrack = -1
      BY <1>5, <1>7 DEF CollectSegment, PrefixState
    <2>2. mode = "LONG_64" => Present(NewSegments)' # {}
      BY <1>3, <1>7 DEF CollectSegment
    <2>3. NotrackSoFar'
      BY <1>3, <2>1, <2>2 DEF NotrackSoFar
    <2>4. NotrackChoice' /\ CollectedMarks'
      BY <1>2 DEF NotrackChoice, CollectedMarks
    <2> QED
      BY <1>4, <2>3, <2>4 DEF EndInv
  <1> QED
    BY <1>6, <1>7

(* 66 and 67 set their attribute.                                          *)
LEMMA SizePrefixStep ==
  ASSUME IInv, EndInv, CollectOperandSize \/ CollectAddressSize
  PROVE  EndInv'
  <1> DEFINE b == IF CollectOperandSize THEN OSZ ELSE ASZ
             a == IF CollectOperandSize THEN "HAS_OPERANDSIZE"
                                        ELSE "HAS_ADDRESSSIZE"
  <1>1. /\ PeekSucceeds /\ b \in Bytes /\ Record(b)
        /\ attributes' = attributes \cup {a}
    BY DEF CollectOperandSize, CollectAddressSize
  <1>2. prefixCount < MaxLength /\ status' = "PREFIXES" /\ status = "PREFIXES"
    BY <1>1 DEF PeekSucceeds, IInv, Counting, Record
  <1>3. /\ mode' = mode
        /\ \A S : Present(S)' = IF b \in S THEN Present(S) \cup {prefixCount}
                                ELSE Present(S)
    BY <1>1, <1>2, Appended DEF IInv
  <1>4. /\ OSZ # ASZ /\ {OSZ, ASZ} \cap NewSegments = {}
        /\ DS \notin {OSZ, ASZ}
    BY DEF OSZ, ASZ, NewSegments, DS, FS, GS
  <1>5. /\ Present({DS})' = Present({DS})
        /\ Present(NewSegments)' = Present(NewSegments)
    BY <1>3, <1>4
  <1>6. pfx'.offset_notrack = pfx.offset_notrack
    BY DEF IInv, PrefixTypeOK, PrefixState, CollectOperandSize, CollectAddressSize
  <1>7. AttributesAgree'
    <2>1. /\ b = OSZ <=> a = "HAS_OPERANDSIZE"
          /\ b = ASZ <=> a = "HAS_ADDRESSSIZE"
          /\ a # "HAS_REX"
      BY <1>4
    <2>2. /\ Present({OSZ})' = IF b = OSZ THEN Present({OSZ}) \cup {prefixCount}
                              ELSE Present({OSZ})
          /\ Present({ASZ})' = IF b = ASZ THEN Present({ASZ}) \cup {prefixCount}
                              ELSE Present({ASZ})
      BY <1>3
    <2>3. /\ "HAS_OPERANDSIZE" \in attributes' <=> Present({OSZ})' # {}
          /\ "HAS_ADDRESSSIZE" \in attributes' <=> Present({ASZ})' # {}
          /\ "HAS_REX" \notin attributes'
      <3> HIDE DEF a, b
      <3> QED
        BY <1>1, <1>2, <2>1, <2>2 DEF EndInv, AttributesAgree
    <2> QED
      BY <2>3 DEF AttributesAgree
  <1>8. NotrackSoFar'
    BY <1>2, <1>3, <1>5, <1>6 DEF EndInv, NotrackSoFar, NotrackCandidate, Last
  <1>9. NotrackChoice' /\ CollectedMarks'
    BY <1>2 DEF NotrackChoice, CollectedMarks
  <1> QED
    BY <1>7, <1>8, <1>9 DEF EndInv

(* The end of the loop draws the conclusions.                              *)
LEMMA ConclusionStep ==
  ASSUME IInv, EndInv, NEW b \in Bytes, CollectDone(b)
  PROVE  EndInv'
  <1>1. /\ status = "PREFIXES" /\ status' = "TREE"
        /\ UNCHANGED <<mode, prefixes, prefixCount, rex, rexOffset>>
    BY DEF CollectDone, PeekSucceeds
  <1>2. \A S : Present(S)' = Present(S)
    BY <1>1 DEF Present
  <1>3. \A S, i : Last(i, S)' <=> Last(i, S)
    BY <1>2 DEF Last
  <1>4. pfx \in PrefixState /\ prefixCount \in 0 .. MaxLength
    BY DEF IInv, PrefixTypeOK
  <1>5. NotrackChoice'
    <2>1. CASE mode = "LONG_64"
      <3>1. pfx' = pfx
        BY <2>1 DEF CollectDone
      <3>2. CASE pfx.offset_notrack = -1
        <4>1. Present({DS}) = {} \/ Present(NewSegments) # {}
          BY <1>1, <2>1, <3>2 DEF EndInv, NotrackSoFar
        <4>2. \A i : ~(Last(i, {DS}) /\ Present(NewSegments) = {})
          BY <4>1 DEF Last, Greatest
        <4> QED
          BY <1>1, <1>2, <1>3, <2>1, <3>1, <3>2, <4>2 DEF NotrackChoice
      <3>3. CASE pfx.offset_notrack # -1
        BY <1>1, <1>2, <1>3, <2>1, <3>1, <3>3
        DEF EndInv, NotrackSoFar, NotrackCandidate, NotrackChoice
      <3> QED
        BY <3>2, <3>3
    <2>2. CASE mode # "LONG_64"
      <3>1. pfx.offset_notrack = -1
        BY <1>1, <2>2 DEF EndInv, NotrackSoFar
      <3>2. IF pfx.group2 = 0 THEN Present(Group2) = {}
            ELSE /\ Last(pfx.offset_group2, Group2)
                 /\ prefixes[pfx.offset_group2] = pfx.group2
        BY DEF IInv, LastOfGroupWins
      <3>3. \A i : Last(i, Group2) => i = pfx.offset_group2 /\ pfx.group2 # 0
        BY <1>4, <3>2 DEF Last, Greatest, Present
      <3>4. CASE pfx.group2 = DS
        <4>1. pfx'.offset_notrack = pfx.offset_group2
          BY <1>4, <2>2, <3>4 DEF CollectDone, PrefixState
        <4>2. /\ Last(pfx.offset_group2, Group2)
              /\ prefixes[pfx.offset_group2] = DS
          BY <3>2, <3>4 DEF DS
        <4>3. pfx.offset_group2 # -1
          BY <1>4 DEF PrefixState, Slots
        <4> QED
          BY <1>1, <1>3, <2>2, <4>1, <4>2, <4>3 DEF NotrackChoice
      <3>5. CASE pfx.group2 # DS
        <4>1. pfx' = pfx
          BY <2>2, <3>5 DEF CollectDone
        <4>2. \A i : ~(Last(i, Group2) /\ prefixes[i] = DS)
          BY <3>2, <3>3, <3>5
        <4> QED
          BY <1>1, <1>3, <2>2, <3>1, <4>1, <4>2 DEF NotrackChoice
      <3> QED
        BY <3>4, <3>5
    <2> QED
      BY <2>1, <2>2
  <1>6. CollectedMarks'
    <2>1. /\ "HAS_OPERANDSIZE" \in attributes <=> Present({OSZ}) # {}
          /\ "HAS_ADDRESSSIZE" \in attributes <=> Present({ASZ}) # {}
          /\ "HAS_REX" \notin attributes
      BY <1>1 DEF EndInv, AttributesAgree
    <2>2. types = [i \in Slots |-> "IGNORED"]
      BY <1>1 DEF IInv, Counting
    <2>3. /\ Present({OSZ}) # {} => Last(pfx.offset_osz_override, {OSZ})
          /\ Present({ASZ}) # {} => Last(pfx.offset_asz_override, {ASZ})
      BY DEF IInv, LastOfGroupWins
    <2>4. \A S, i, j : Last(i, S) /\ Last(j, S) => i = j
      BY DEF Last, Greatest, Present
    <2>5. \A S, i : Last(i, S) => Present(S) # {}
      BY DEF Last, Greatest
    <2>6. \A i \in Slots :
            (rex # 0 /\ i = rexOffset) <=> (i = prefixCount - 1 /\ IsRex(prefixes[i]))
      <3>1. ~IsRex(0)
        <4>1. 0 \div 16 # 4
          OBVIOUS
        <4> QED
          BY <4>1 DEF IsRex
      <3>2. IF prefixCount > 0 /\ IsRex(prefixes[prefixCount - 1])
            THEN rex = prefixes[prefixCount - 1] /\ rexOffset = prefixCount - 1
            ELSE rex = 0 /\ rexOffset = 0
        BY DEF IInv, RexIsLast
      <3>3. \A i \in Slots : i >= 0
        BY DEF Slots
      <3>4. CASE prefixCount > 0 /\ IsRex(prefixes[prefixCount - 1])
        <4>1. rex # 0
          <5>1. CASE rex = 0
            <6>1. prefixes[prefixCount - 1] = 0
              BY <5>1, <3>2, <3>4
            <6>2. IsRex(0)
              BY <6>1, <3>4 DEF IsRex
            <6> QED
              BY <6>2, <3>1
          <5> QED
            BY <5>1
        <4> QED
          BY <4>1, <3>2, <3>4
      <3>5. CASE ~(prefixCount > 0 /\ IsRex(prefixes[prefixCount - 1]))
        BY <1>4, <3>2, <3>3, <3>5
      <3> QED
        BY <3>4, <3>5
    <2>7. \A i \in Slots :
            types'[i] = IF \/ Last(i, {OSZ})
                           \/ Last(i, {ASZ})
                           \/ i = prefixCount - 1 /\ IsRex(prefixes[i])
                        THEN "EFFECTIVE" ELSE "IGNORED"
      <3>1. types' = CollectedTypes
        BY DEF CollectDone
      <3>2. \A i \in Slots :
              types'[i] = IF \/ "HAS_OPERANDSIZE" \in attributes
                                  /\ i = pfx.offset_osz_override
                             \/ "HAS_ADDRESSSIZE" \in attributes
                                  /\ i = pfx.offset_asz_override
                             \/ rex # 0 /\ i = rexOffset
                          THEN "EFFECTIVE" ELSE "IGNORED"
        BY <3>1, <2>2 DEF CollectedTypes, Slots
      <3>3. \A i : Last(i, {OSZ}) <=> "HAS_OPERANDSIZE" \in attributes
                                        /\ i = pfx.offset_osz_override
        BY <2>1, <2>3, <2>4, <2>5
      <3>4. \A i : Last(i, {ASZ}) <=> "HAS_ADDRESSSIZE" \in attributes
                                        /\ i = pfx.offset_asz_override
        BY <2>1, <2>3, <2>4, <2>5
      <3> QED
        BY <3>2, <3>3, <3>4, <2>6
    <2>8. /\ "HAS_OPERANDSIZE" \in attributes' <=> Present({OSZ}) # {}
          /\ "HAS_ADDRESSSIZE" \in attributes' <=> Present({ASZ}) # {}
          /\ "HAS_REX" \in attributes' <=> rex # 0
      BY <2>1 DEF CollectDone
    <2>9. rex # 0 <=> \E i \in 0 .. prefixCount - 1 :
                        i = prefixCount - 1 /\ IsRex(prefixes[i])
      <3>1. \A i \in 0 .. prefixCount - 1 : i \in Slots
        BY <1>4 DEF Slots
      <3>2. rexOffset \in Slots
        BY DEF IInv, PrefixTypeOK
      <3>3. \A i \in Slots : i = prefixCount - 1 => i \in 0 .. prefixCount - 1
        BY <1>4 DEF Slots
      <3> QED
        BY <2>6, <3>1, <3>2, <3>3
    <2>10. \A i : IsRex(prefixes[i])' <=> IsRex(prefixes[i])
      BY <1>1 DEF IsRex
    <2>11. \A i \in Slots :
             types'[i] = IF \/ Last(i, {OSZ})'
                            \/ Last(i, {ASZ})'
                            \/ i = prefixCount' - 1 /\ IsRex(prefixes[i])'
                         THEN "EFFECTIVE" ELSE "IGNORED"
      BY <1>1, <1>3, <2>7, <2>10
    <2>12. /\ "HAS_OPERANDSIZE" \in attributes' <=> Present({OSZ})' # {}
           /\ "HAS_ADDRESSSIZE" \in attributes' <=> Present({ASZ})' # {}
      BY <1>2, <2>8
    <2>13. "HAS_REX" \in attributes' <=>
             \E i \in 0 .. prefixCount' - 1 :
               i = prefixCount' - 1 /\ IsRex(prefixes[i])'
      BY <1>1, <2>8, <2>9, <2>10
    <2> QED
      BY <2>11, <2>12, <2>13 DEF CollectedMarks
  <1>7. AttributesAgree' /\ NotrackSoFar'
    BY <1>1 DEF AttributesAgree, NotrackSoFar
  <1> QED
    BY <1>5, <1>6, <1>7 DEF EndInv

(* A call that has ended the loop, or failed, changes nothing any more.    *)
LEMMA QuietEnd ==
  ASSUME EndInv,
         UNCHANGED <<mode, bufferLen, ahead, length, prefixes, types,
                     prefixCount, pfx, attributes, rex, rexOffset>>,
         \/ status' \in {"NO_MORE_DATA", "INSTRUCTION_TOO_LONG"}
         \/ status' = status
  PROVE  EndInv'
  <1>1. \A S : Present(S)' = Present(S)
    BY DEF Present
  <1>2. \A S, i : Last(i, S)' <=> Last(i, S)
    BY <1>1 DEF Last
  <1>3. AttributesAgree'
    BY <1>1 DEF EndInv, AttributesAgree
  <1>4. NotrackSoFar'
    BY <1>1 DEF EndInv, NotrackSoFar, NotrackCandidate, Last
  <1>5. NotrackChoice'
    BY <1>1, <1>2 DEF EndInv, NotrackChoice
  <1>6. CollectedMarks'
    BY <1>1, <1>2 DEF EndInv, CollectedMarks, IsRex
  <1> QED
    BY <1>3, <1>4, <1>5, <1>6 DEF EndInv

(* Nothing is marked at first.                                             *)
LEMMA InitEnd == InitPrefixes => EndInv
  <1> SUFFICES ASSUME InitPrefixes PROVE EndInv
    OBVIOUS
  <1>1. \A S : Present(S) = {}
    BY DEF InitPrefixes, Present
  <1> QED
    BY <1>1 DEF InitPrefixes, NoPrefixes, EndInv, AttributesAgree, NotrackSoFar,
                NotrackChoice, CollectedMarks

(* One step of the loop, its conclusion included, preserves what it keeps  *)
(* true.                                                                   *)
LEMMA EndStep ==
  ASSUME IInv, EndInv, [CollectOptionalPrefixes]_prefixVars
  PROVE  EndInv'
  <1>0. pfx \in PrefixState
    BY DEF IInv, PrefixTypeOK
  <1>1. CASE PeekTooLong
    BY <1>1, QuietEnd DEF PeekTooLong
  <1>2. CASE PeekNoMoreData
    BY <1>2, QuietEnd DEF PeekNoMoreData
  <1>3. CASE CollectLock
    <2>1. LOCK \notin {OSZ, ASZ} \cup NewSegments /\ LOCK # DS
      BY DEF LOCK, OSZ, ASZ, NewSegments, FS, GS, DS
    <2>2. /\ PeekSucceeds /\ LOCK \in Bytes /\ Record(LOCK)
          /\ attributes' = attributes
          /\ pfx'.offset_notrack = pfx.offset_notrack
      BY <1>0, <1>3 DEF CollectLock, PrefixState
    <2> QED
      BY <2>1, <2>2, IndifferentStep
  <1>4. CASE CollectOperandSize \/ CollectAddressSize
    BY <1>4, SizePrefixStep
  <1>5. ASSUME NEW b \in Bytes, CollectGroup1(b) PROVE EndInv'
    <2>1. b \notin {OSZ, ASZ} \cup NewSegments /\ b # DS
      BY <1>5 DEF CollectGroup1, Group1, REP, REPNE, OSZ, ASZ, NewSegments,
                  FS, GS, DS
    <2>2. /\ PeekSucceeds /\ Record(b) /\ attributes' = attributes
          /\ pfx'.offset_notrack = pfx.offset_notrack
      BY <1>0, <1>5 DEF CollectGroup1, PrefixState
    <2> QED
      BY <2>1, <2>2, IndifferentStep
  <1>6. ASSUME NEW b \in Bytes, CollectOldSegment64(b), b # DS PROVE EndInv'
    <2>1. b \notin {OSZ, ASZ} \cup NewSegments
      BY <1>6 DEF CollectOldSegment64, OldSegments, CS, SS, DS, ES, OSZ, ASZ,
                  NewSegments, FS, GS
    <2>2. /\ PeekSucceeds /\ Record(b) /\ attributes' = attributes
          /\ pfx'.offset_notrack = pfx.offset_notrack
      BY <1>0, <1>6 DEF CollectOldSegment64, PrefixState
    <2> QED
      BY <1>6, <2>1, <2>2, IndifferentStep
  <1>7. ASSUME NEW b \in Bytes,
               CollectSegment(b) \/ (CollectOldSegment64(b) /\ b = DS)
        PROVE  EndInv'
    BY <1>7, SegmentPrefixStep
  <1>8. ASSUME NEW b \in Bytes, CollectRex(b) PROVE EndInv'
    <2>1. b \notin {OSZ, ASZ} \cup NewSegments /\ b # DS
      <3>1. b \in 64 .. 79
        BY <1>8 DEF CollectRex, IsRex
      <3> QED
        BY <3>1 DEF OSZ, ASZ, NewSegments, FS, GS, DS
    <2>2. /\ PeekSucceeds /\ Record(b) /\ attributes' = attributes
          /\ pfx'.offset_notrack = pfx.offset_notrack
      BY <1>8 DEF CollectRex
    <2> QED
      BY <2>1, <2>2, IndifferentStep
  <1>9. ASSUME NEW b \in Bytes, CollectDone(b) PROVE EndInv'
    BY <1>9, ConclusionStep
  <1>10. CASE UNCHANGED prefixVars
    BY <1>10, QuietEnd DEF prefixVars
  <1> QED
    BY <1>1, <1>2, <1>3, <1>4, <1>5, <1>6, <1>7, <1>8, <1>9, <1>10
    DEF CollectOptionalPrefixes

(* What the loop keeps true of the marks, and what the conclusion of the   *)
(* collection makes of it, holds in every state.                           *)
THEOREM EndInductive == PrefixSpec => []EndInv
  <1>1. IInv /\ EndInv /\ [CollectOptionalPrefixes]_prefixVars => EndInv'
    BY EndStep
  <1> QED
    BY <1>1, InitEnd, PrefixInductive, PTL DEF PrefixSpec

(* A 3E is taken for a no-track prefix only where it may be one.           *)
THEOREM NotrackChosen == PrefixSpec => []NotrackChoice
  BY EndInductive, PTL DEF EndInv

(* The marks left on the prefixes are the last 66, the last 67 and an      *)
(* adjacent REX, and the attributes agree with them.                       *)
THEOREM MarksCollected == PrefixSpec => []CollectedMarks
  BY EndInductive, PTL DEF EndInv
=============================================================================
