--------------------------- MODULE EncoderCallsProofs ---------------------------
(***************************************************************************)
(* The candidates of a call of the encoder do not influence each other,    *)
(* proved for every set of rows and every request: the match that the loop *)
(* reuses keeps the fields of the structure, whatever a comparison leaves  *)
(* in them, and all of them are assigned before the next comparison.       *)
(***************************************************************************)
EXTENDS EncoderCalls, WellFoundedInduction, TLAPS

-----------------------------------------------------------------------------
(* ZydisEncoderInstructionMatch                                            *)

MatchFields == {"def", "ok", "easz", "eosz", "disp_size", "imm_size", "rex_type",
           "eosz64_forbidden", "has_rel_operand"}

IsMatch(m) == DOMAIN m = MatchFields /\ m = [f \in MatchFields |-> m[f]]

LEMMA NoMatchIsMatch == IsMatch(NoMatch)
BY DEF IsMatch, NoMatch, MatchFields

\* Assigning a field leaves a match.
LEMMA Assigned ==
  ASSUME NEW m, IsMatch(m), NEW v
  PROVE  /\ IsMatch([m EXCEPT !.def = v])
         /\ IsMatch([m EXCEPT !.ok = v])
         /\ IsMatch([m EXCEPT !.easz = v])
         /\ IsMatch([m EXCEPT !.eosz = v])
         /\ IsMatch([m EXCEPT !.disp_size = v])
         /\ IsMatch([m EXCEPT !.imm_size = v])
         /\ IsMatch([m EXCEPT !.rex_type = v])
         /\ IsMatch([m EXCEPT !.eosz64_forbidden = v])
         /\ IsMatch([m EXCEPT !.has_rel_operand = v])
BY DEF IsMatch

LEMMA RequireKeeps ==
  ASSUME NEW m, IsMatch(m), NEW condition
  PROVE  IsMatch(Require(m, condition)) /\ IsMatch(Fail(m))
BY Assigned DEF Require, Fail

-----------------------------------------------------------------------------
(* What one operand leaves is a match.                                     *)

LEMMA CheckOszKeeps ==
  ASSUME NEW m, IsMatch(m), NEW width
  PROVE  IsMatch(ZydisCheckOsz(m, width))
BY Assigned, RequireKeeps DEF ZydisCheckOsz

LEMMA CheckAszKeeps ==
  ASSUME NEW m, IsMatch(m), NEW request_, NEW width
  PROVE  IsMatch(ZydisCheckAsz(m, request_, width))
BY Assigned, RequireKeeps DEF ZydisCheckAsz

LEMMA RexTypeKeeps ==
  ASSUME NEW m, IsMatch(m), NEW reg, NEW addressing
  PROVE  IsMatch(ZydisValidateRexType(m, reg, addressing))
BY Assigned, RequireKeeps DEF ZydisValidateRexType

LEMMA AddressingClassKeeps ==
  ASSUME NEW m, IsMatch(m), NEW request_, NEW reg
  PROVE  IsMatch(ZydisIsValidAddressingClass(m, request_, reg))
BY RexTypeKeeps, RequireKeeps DEF ZydisIsValidAddressingClass

LEMMA CheckedKeeps ==
  ASSUME NEW m, IsMatch(m), NEW request_, NEW reg
  PROVE  IsMatch(Checked(m, request_, reg)) /\ IsMatch(RexChecked(m, request_, reg))
BY RexTypeKeeps, RequireKeeps DEF Checked, RexChecked

LEMMA ExplicitKeeps ==
  ASSUME NEW m, IsMatch(m), NEW request_, NEW reg, NEW def, NEW width
  PROVE  IsMatch(ExplicitRegister(m, request_, reg, def, width))
<1>1. IsMatch(Gpr32_32_64(m, reg)) /\ IsMatch(Gpr16_32_32(m, reg, width))
  BY Assigned, RequireKeeps, CheckOszKeeps DEF Gpr32_32_64, Gpr16_32_32
<1> QED BY <1>1, CheckOszKeeps, CheckAszKeeps, CheckedKeeps, RequireKeeps
        DEF ExplicitRegister

LEMMA RegisterKeeps ==
  ASSUME NEW m, IsMatch(m), NEW request_, NEW op, NEW def
  PROVE  IsMatch(ZydisIsRegisterOperandCompatible(m, request_, op, def))
<1>1. \A width : IsMatch(ImplicitRegister(m, request_, op.reg, def, width))
  BY RequireKeeps, CheckOszKeeps, CheckAszKeeps DEF ImplicitRegister
<1> QED BY <1>1, ExplicitKeeps, RequireKeeps DEF ZydisIsRegisterOperandCompatible

-----------------------------------------------------------------------------
(* A memory operand                                                        *)

LEMMA MemorySizeKeeps ==
  ASSUME NEW m, IsMatch(m), NEW request_, NEW op, NEW def
  PROVE  IsMatch(MemorySizeFits(m, request_, op, def))
<1>1. IsMatch(AgenSizeFits(m, op))
  BY Assigned, RequireKeeps DEF AgenSizeFits
<1>2. \A size : IsMatch(SizeFromElement(m, request_, op, size))
  BY Assigned, RequireKeeps DEF SizeFromElement
<1> QED BY <1>1, <1>2, Assigned, RequireKeeps DEF MemorySizeFits

LEMMA AddressRegistersKeep ==
  ASSUME NEW m, IsMatch(m), NEW request_, NEW op, NEW def
  PROVE  IsMatch(AddressRegistersFit(m, request_, op, def))
<1>1. IsMatch(VsibRegistersFit(m, request_, op, def))
  BY RequireKeeps DEF VsibRegistersFit
<1>2. IsMatch(GprAddressFits(m, request_, op))
  BY RequireKeeps, AddressingClassKeeps DEF GprAddressFits
<1> QED BY <1>1, <1>2 DEF AddressRegistersFit

LEMMA AddressedKeeps ==
  ASSUME NEW m, IsMatch(m), NEW request_, NEW a
  PROVE  IsMatch(Addressed(m, request_, a))
<1>1. PICK easz : easz = IF m.easz = 0 THEN a.easz ELSE m.easz
  OBVIOUS
<1>2. IsMatch([[m EXCEPT !.easz = easz] EXCEPT !.disp_size = a.disp_size])
  BY Assigned
<1> QED BY <1>1, <1>2, RequireKeeps DEF Addressed

LEMMA AddressSizeKeeps ==
  ASSUME NEW m, IsMatch(m), NEW request_, NEW op, NEW def
  PROVE  IsMatch(AddressSizeFits(m, request_, op, def))
BY AddressedKeeps DEF AddressSizeFits

LEMMA AddressedMemoryKeeps ==
  ASSUME NEW m, IsMatch(m), NEW request_, NEW op, NEW def
  PROVE  IsMatch(AddressedMemoryFits(m, request_, op, def))
BY MemorySizeKeeps, AddressRegistersKeep, AddressSizeKeeps, RequireKeeps
   DEF AddressedMemoryFits

\* The size of an immediate is found with a match.
LEMMA ScaledImmKeeps ==
  ASSUME NEW m, IsMatch(m), NEW request_, NEW size, NEW min_size
  PROVE  IsMatch(ZydisGetScaledImmSize(m, request_, size, min_size).match)
BY Assigned DEF ZydisGetScaledImmSize, Sized

LEMMA ImmSizeKeeps ==
  ASSUME NEW m, IsMatch(m), NEW request_, NEW imm, NEW def
  PROVE  IsMatch(ZydisGetEffectiveImmSize(m, request_, imm, def).match)
<1>1. \A size : Sized(m, size).match = m
  BY DEF Sized
<1>2. IsMatch(MoffsSize(m, request_, imm).match)
  BY Assigned DEF MoffsSize, Sized
<1> QED BY <1>1, <1>2, ScaledImmKeeps DEF ZydisGetEffectiveImmSize

LEMMA MoffsKeeps ==
  ASSUME NEW m, IsMatch(m), NEW request_, NEW op, NEW def
  PROVE  IsMatch(MoffsFits(m, request_, op, def))
<1>1. \A found : IsMatch(found.match) => IsMatch(MoffsFound(request_, op, found))
  BY Assigned, RequireKeeps DEF MoffsFound
<1>2. \A size : IsMatch(SizeFromElement(m, request_, op, size))
  BY Assigned, RequireKeeps DEF SizeFromElement
<1> QED BY <1>1, <1>2, RequireKeeps, ImmSizeKeeps DEF MoffsFits

-----------------------------------------------------------------------------
(* All operands                                                            *)

LEMMA OperandKeeps ==
  ASSUME NEW m, IsMatch(m), NEW request_, NEW op, NEW def
  PROVE  IsMatch(OperandFits(m, request_, op, def))
<1>1. IsMatch(ZydisIsMemoryOperandCompatible(m, request_, op, def))
  BY MoffsKeeps, AddressedMemoryKeeps DEF ZydisIsMemoryOperandCompatible
<1>2. IsMatch(ZydisIsPointerOperandCompatible(m, request_, op))
  <2>1. \A v, w, x : IsMatch([[[m EXCEPT !.eosz = v] EXCEPT !.disp_size = w]
                                EXCEPT !.imm_size = x])
    BY Assigned
  <2> QED BY <2>1, RequireKeeps DEF ZydisIsPointerOperandCompatible
<1>3. \A found : IsMatch(found.match) => IsMatch(ImmediateFound(def, found))
  <2> SUFFICES ASSUME NEW found, NEW f, f = found.match, IsMatch(f)
               PROVE  IsMatch(ImmediateFound(def, found))
    OBVIOUS
  <2>1. \A v, w, x : IsMatch([[[f EXCEPT !.disp_size = v] EXCEPT !.imm_size = w]
                                EXCEPT !.has_rel_operand = x])
    BY Assigned
  <2> QED BY <2>1, RequireKeeps DEF ImmediateFound
<1>4. IsMatch(ZydisIsImmediateOperandCompabile(m, request_, op, def))
  BY <1>3, Assigned, RequireKeeps, ImmSizeKeeps
     DEF ZydisIsImmediateOperandCompabile, ImmediateFits
<1> QED BY <1>1, <1>2, <1>4, RegisterKeeps DEF OperandFits

LEMMA NextKeeps ==
  ASSUME NEW m, IsMatch(m), NEW def, NEW request_, NEW n
  PROVE  IsMatch(NextFits(m, def, request_, n))
BY OperandKeeps DEF NextFits

LEMMA LessThan == \A x, y \in Nat : <<x, y>> \in OpToRel(<, Nat) <=> x < y
BY DEF OpToRel

\* Induction over the natural numbers, for a set of them.
LEMMA SetInduction ==
  ASSUME NEW S, 0 \in S, \A n \in Nat : n \in S => n + 1 \in S
  PROVE  \A n \in Nat : n \in S
<1> DEFINE T == Nat \ S
           R == OpToRel(<, Nat)
<1>1. IsWellFoundedOn(R, Nat)
  BY NatLessThanWellFounded
<1>2. \A x, y \in Nat : <<x, y>> \in R <=> x < y
  BY LessThan
<1> HIDE DEF R
<1>3. SUFFICES ASSUME T # {} PROVE FALSE
  OBVIOUS
<1>4. PICK x \in T : \A y \in T : ~ (<<y, x>> \in R)
  BY <1>1, <1>3, WFMin
<1>5. x \in Nat /\ x # 0 /\ x - 1 \in Nat /\ x - 1 < x /\ (x - 1) + 1 = x
  BY <1>4
<1> QED BY <1>2, <1>4, <1>5

\* One more operand, whatever has been made of those before it.
Fitted(f, m, request_, n) ==
  IF n = 0 THEN m ELSE NextFits(f[n - 1], m.def, request_, n)

LEMMA FittedExists ==
  ASSUME NEW m, NEW request_, NEW last \in Nat
  PROVE  \E f : f = [n \in 0 .. last |-> Fitted(f, m, request_, n)]
<1> DEFINE Reaching(k) == \E f : f = [n \in 0 .. k |-> Fitted(f, m, request_, n)]
           S == {k \in Nat : Reaching(k)}
<1>1. 0 \in S
  <2>1. PICK f : f = [n \in 0 .. 0 |-> m]
    OBVIOUS
  <2>2. f = [n \in 0 .. 0 |-> Fitted(f, m, request_, n)]
    BY <2>1 DEF Fitted
  <2> QED BY <2>2
<1>2. ASSUME NEW k \in Nat, k \in S PROVE k + 1 \in S
  <2>1. PICK f : f = [n \in 0 .. k |-> Fitted(f, m, request_, n)]
    BY <1>2
  <2>2. PICK g : g = [n \in 0 .. k + 1 |->
                        IF n = k + 1 THEN NextFits(f[k], m.def, request_, k + 1) ELSE f[n]]
    OBVIOUS
  <2>3. ASSUME NEW n \in 0 .. k + 1 PROVE g[n] = Fitted(g, m, request_, n)
    <3>1. CASE n = k + 1
      <4>1. n # 0 /\ n - 1 = k /\ k \in 0 .. k + 1 /\ k # k + 1
        BY <3>1
      <4>2. g[n - 1] = f[k]
        BY <2>2, <4>1
      <4>3. g[n] = NextFits(f[k], m.def, request_, k + 1)
        BY <2>2, <3>1
      <4> QED BY <3>1, <4>1, <4>2, <4>3 DEF Fitted
    <3>2. CASE n # k + 1
      <4>1. n \in 0 .. k /\ g[n] = f[n]
        BY <2>2, <3>2
      <4>2. n # 0 => n - 1 \in 0 .. k + 1 /\ n - 1 # k + 1
        BY <4>1
      <4>3. n # 0 => g[n - 1] = f[n - 1]
        BY <2>2, <4>2
      <4>4. f[n] = Fitted(f, m, request_, n)
        BY <2>1, <4>1
      <4> QED BY <4>1, <4>3, <4>4 DEF Fitted
    <3> QED BY <3>1, <3>2
  <2>4. g = [n \in 0 .. k + 1 |-> Fitted(g, m, request_, n)]
    BY <2>2, <2>3
  <2> QED BY <2>4
<1>3. \A k \in Nat : k \in S
  <2> HIDE DEF S
  <2> QED BY <1>1, <1>2, SetInduction
<1> QED BY <1>3

LEMMA OperandsKeep ==
  ASSUME NEW m, IsMatch(m), NEW request_, Len(request_.operands) \in Nat
  PROVE  IsMatch(OperandsFit(m, request_))
<1> DEFINE last == Len(request_.operands)
           f == CHOOSE g : g = [n \in 0 .. last |-> Fitted(g, m, request_, n)]
           S == {k \in Nat : k <= last => IsMatch(f[k])}
<1>1. f = [n \in 0 .. last |-> Fitted(f, m, request_, n)]
  BY FittedExists
<1>2. OperandsFit(m, request_) = f[last]
  BY DEF OperandsFit, Fitted
<1> HIDE DEF f
<1>3. 0 \in S
  BY <1>1 DEF Fitted
<1>4. ASSUME NEW k \in Nat, k \in S PROVE k + 1 \in S
  <2> SUFFICES ASSUME k + 1 <= last PROVE IsMatch(f[k + 1])
    OBVIOUS
  <2>1. k + 1 \in 0 .. last /\ k + 1 # 0 /\ (k + 1) - 1 = k /\ k <= last
    OBVIOUS
  <2>2. f[k + 1] = NextFits(f[k], m.def, request_, k + 1)
    BY <1>1, <2>1 DEF Fitted
  <2>3. IsMatch(f[k])
    BY <1>4, <2>1
  <2> QED BY <2>2, <2>3, NextKeeps
<1>5. last \in S
  <2> HIDE DEF S
  <2> QED BY <1>3, <1>4, SetInduction
<1> QED BY <1>2, <1>5

-----------------------------------------------------------------------------
(* A definition                                                            *)

\* All fields are assigned, so nothing is left of the match before.
AllFields(n, d, a, o) ==
  [n EXCEPT !.def = d, !.ok = TRUE, !.easz = a, !.eosz = o,
            !.disp_size = 0, !.imm_size = 0, !.rex_type = "UNKNOWN",
            !.eosz64_forbidden = FALSE, !.has_rel_operand = FALSE]

Says(k, d, a, o) ==
  /\ k.def = d /\ k.ok = TRUE /\ k.easz = a /\ k.eosz = o
  /\ k.disp_size = 0 /\ k.imm_size = 0 /\ k.rex_type = "UNKNOWN"
  /\ k.eosz64_forbidden = FALSE /\ k.has_rel_operand = FALSE

LEMMA AllAssigned ==
  ASSUME NEW n, IsMatch(n), NEW d, NEW a, NEW o
  PROVE  IsMatch(AllFields(n, d, a, o)) /\ Says(AllFields(n, d, a, o), d, a, o)
<1>1. PICK k1 : k1 = [n EXCEPT !.def = d]
  OBVIOUS
<1>2. PICK k2 : k2 = [k1 EXCEPT !.ok = TRUE]
  OBVIOUS
<1>3. PICK k3 : k3 = [k2 EXCEPT !.easz = a]
  OBVIOUS
<1>4. PICK k4 : k4 = [k3 EXCEPT !.eosz = o]
  OBVIOUS
<1>5. PICK k5 : k5 = [k4 EXCEPT !.disp_size = 0]
  OBVIOUS
<1>6. PICK k6 : k6 = [k5 EXCEPT !.imm_size = 0]
  OBVIOUS
<1>7. PICK k7 : k7 = [k6 EXCEPT !.rex_type = "UNKNOWN"]
  OBVIOUS
<1>8. PICK k8 : k8 = [k7 EXCEPT !.eosz64_forbidden = FALSE]
  OBVIOUS
<1>9. PICK k9 : k9 = [k8 EXCEPT !.has_rel_operand = FALSE]
  OBVIOUS
<1>10. /\ IsMatch(k1) /\ IsMatch(k2) /\ IsMatch(k3) /\ IsMatch(k4) /\ IsMatch(k5)
       /\ IsMatch(k6) /\ IsMatch(k7) /\ IsMatch(k8) /\ IsMatch(k9)
  BY Assigned, <1>1, <1>2, <1>3, <1>4, <1>5, <1>6, <1>7, <1>8, <1>9
<1>11. Says(k9, d, a, o)
  BY <1>10, <1>1, <1>2, <1>3, <1>4, <1>5, <1>6, <1>7, <1>8, <1>9
     DEF IsMatch, MatchFields, Says
<1>12. k9 = AllFields(n, d, a, o)
  BY <1>1, <1>2, <1>3, <1>4, <1>5, <1>6, <1>7, <1>8, <1>9 DEF AllFields
<1> QED BY <1>10, <1>11, <1>12

\* Two matches that say the same are the same.
LEMMA SameMatch ==
  ASSUME NEW j, NEW k, IsMatch(j), IsMatch(k), NEW d, NEW a, NEW o,
         Says(j, d, a, o), Says(k, d, a, o)
  PROVE  j = k
<1>1. \A f \in MatchFields : j[f] = k[f]
  BY DEF MatchFields, Says
<1> QED BY <1>1 DEF IsMatch

LEMMA ResetForgets ==
  ASSUME NEW m, IsMatch(m), NEW request_, NEW def
  PROVE  /\ IsMatch(Reset(m, request_, def))
         /\ Reset(m, request_, def) = Reset(NoMatch, request_, def)
<1>1. PICK easz : easz = IF def.accepts_hint = "ASZ" THEN request_.address_size_hint ELSE 0
  OBVIOUS
<1>2. PICK eosz : eosz = IF def.accepts_hint = "OSZ" THEN request_.operand_size_hint ELSE 0
  OBVIOUS
<1>3. ASSUME NEW n PROVE Reset(n, request_, def) = AllFields(n, def, easz, eosz)
  <2>1. Reset(n, request_, def) =
          AllFields(n, def,
                    IF def.accepts_hint = "ASZ" THEN request_.address_size_hint ELSE 0,
                    IF def.accepts_hint = "OSZ" THEN request_.operand_size_hint ELSE 0)
    BY DEF Reset, AllFields
  <2> QED BY <1>1, <1>2, <2>1
<1>4. IsMatch(NoMatch)
  BY NoMatchIsMatch
<1>5. /\ IsMatch(AllFields(m, def, easz, eosz))
      /\ IsMatch(AllFields(NoMatch, def, easz, eosz))
      /\ Says(AllFields(m, def, easz, eosz), def, easz, eosz)
      /\ Says(AllFields(NoMatch, def, easz, eosz), def, easz, eosz)
  BY <1>4, AllAssigned
<1>6. AllFields(m, def, easz, eosz) = AllFields(NoMatch, def, easz, eosz)
  BY <1>5, SameMatch
<1> QED BY <1>3, <1>5, <1>6

LEMMA DefinitionKeeps ==
  ASSUME NEW m, IsMatch(m), NEW request_, Len(request_.operands) \in Nat
  PROVE  IsMatch(ZydisIsDefinitionCompatible(m, request_))
<1>1. \A n : IsMatch(n) => IsMatch(BranchFits(n, request_))
  BY Assigned, RequireKeeps DEF BranchFits
<1>2. \A n : IsMatch(n) => IsMatch(ConstraintsFit(n, request_))
  BY RequireKeeps DEF ConstraintsFit
<1> QED BY <1>1, <1>2, OperandsKeep DEF ZydisIsDefinitionCompatible

LEMMA SwapKeeps ==
  ASSUME NEW m, IsMatch(m), NEW request_, NEW next
  PROVE  IsMatch(ZydisHandleSwappableDefinition(m, request_, next))
BY Assigned, RequireKeeps DEF ZydisHandleSwappableDefinition

LEMMA SizesKeep ==
  ASSUME NEW m, IsMatch(m), NEW request_
  PROVE  IsMatch(SizesSettled(m, request_))
<1>1. \A n : IsMatch(n) => IsMatch(AddressSizeSettled(n, request_))
  BY Assigned, RequireKeeps DEF AddressSizeSettled
<1>2. \A n : IsMatch(n) => IsMatch(OperandSizeSettled(n, request_))
  BY Assigned, RequireKeeps DEF OperandSizeSettled
<1> QED BY <1>1, <1>2 DEF SizesSettled

\* A comparison leaves a match, and the match before it does not matter.
LEMMA ComparedForgets ==
  ASSUME NEW m, IsMatch(m), NEW request_, Len(request_.operands) \in Nat,
         NEW def, NEW next
  PROVE  /\ IsMatch(Compared(m, request_, def, next))
         /\ Compared(m, request_, def, next) = Compared(NoMatch, request_, def, next)
<1> DEFINE start == Reset(m, request_, def)
<1>1. start = Reset(NoMatch, request_, def) /\ IsMatch(start)
  BY ResetForgets
<1>2. Compared(m, request_, def, next) = Compared(NoMatch, request_, def, next)
  BY <1>1 DEF Compared
<1>3. IsMatch(ZydisIsDefinitionCompatible(start, request_)) /\ IsMatch(Fail(start))
  BY <1>1, DefinitionKeeps, RequireKeeps
<1> HIDE DEF start
<1>4. IsMatch(SizesSettled(ZydisHandleSwappableDefinition(
                IF /\ start.eosz = 8 => def.operand_size_map = "BYTEOP"
                   /\ ZydisArePrefixesCompatible(def, request_.prefixes)
                THEN ZydisIsDefinitionCompatible(start, request_) ELSE Fail(start),
                request_, next), request_))
  BY <1>3, SwapKeeps, SizesKeep
<1> QED BY <1>2, <1>4 DEF Compared, start

-----------------------------------------------------------------------------
(* The calls                                                               *)

\* The match is that of the candidate compared last, as if it had been the
\* first; before the loop no candidate has been compared.
Independent ==
  /\ tried \in Nat
  /\ IsMatch(match)
  /\ pc \in {"CHECK", "ADJUST"} => tried = 0
  /\ CandidatesIndependent

\* A candidate has a definition, with as many operands as the request.
LEMMA CandidateOperands ==
  ASSUME tried \in Nat, NEW i \in Candidates
  PROVE  i \in Nat /\ i # 0 /\ Len(request.operands) \in Nat
<1>1. NextRow \in Nat /\ NextRow # 0
  BY DEF NextRow
<1>2. /\ i \in NextRow .. Len(RowsOf(request))
      /\ Viable(RowsOf(request)[i], request)
  BY DEF Candidates
<1>3. request.mnemonic \in DOMAIN Rows
  BY <1>1, <1>2 DEF RowsOf
<1>4. RowsOf(request) \in Seq(Definitions)
  BY <1>3, RowsAssumption DEF RowsOf
<1>5. PICK rows \in Seq(Definitions) : rows = RowsOf(request)
  BY <1>4
<1>6. Len(rows) \in Nat /\ i \in 1 .. Len(rows)
  BY <1>1, <1>2, <1>5
<1>7. rows[i] \in Definitions
  BY <1>5, <1>6
<1>8. Len(rows[i].operands) = Len(request.operands)
  BY <1>2, <1>5 DEF Viable
<1> QED BY <1>1, <1>6, <1>7, <1>8, RowsAssumption

\* A step that compares nothing.
LEMMA Quiet ==
  ASSUME Independent, UNCHANGED <<tried, match>>,
         tried = 0 \/ (pc \in {"FIND", "EMIT"} /\ request' = request)
                   \/ pc' \notin {"FIND", "EMIT"},
         pc' \in {"CHECK", "ADJUST"} => tried = 0
  PROVE  Independent'
<1>1. CandidatesIndependent'
  BY DEF Independent, CandidatesIndependent, Following, RowsOf
<1> QED BY <1>1 DEF Independent

LEMMA InitIndependent == Init => Independent
BY NoMatchIsMatch DEF Init, Independent, CandidatesIndependent

LEMMA CompareIndependent == Independent /\ Compare => Independent'
<1> SUFFICES ASSUME Independent, Compare PROVE Independent'
  OBVIOUS
<1>1. PICK i \in Candidates :
        /\ tried' = i
        /\ match' = Compared(match, request, RowsOf(request)[i], Following(request, i))
  BY DEF Compare
<1>2. tried \in Nat /\ IsMatch(match)
  BY DEF Independent
<1>3. i \in Nat /\ Len(request.operands) \in Nat
  BY <1>2, CandidateOperands
<1>4. IsMatch(match')
  BY <1>1, <1>2, <1>3, ComparedForgets
<1>5. match' = Compared(NoMatch, request, RowsOf(request)[i], Following(request, i))
  BY <1>1, <1>2, <1>3, ComparedForgets
<1>6. /\ pc' \notin {"CHECK", "ADJUST"}
      /\ UNCHANGED request
  BY DEF Compare
<1>7. CandidatesIndependent'
  BY <1>1, <1>5, <1>6 DEF CandidatesIndependent, Following, RowsOf
<1> QED BY <1>1, <1>3, <1>4, <1>6, <1>7 DEF Independent

\* The next call starts with a match that was never filled.
LEMMA AgainIndependent ==
  ASSUME NEW operation, NEW r, NEW runtime, Again(operation, r, runtime)
  PROVE  Independent'
BY NoMatchIsMatch DEF Again, Independent, CandidatesIndependent

LEMMA StepIndependent == Independent /\ [Next]_vars => Independent'
<1> SUFFICES ASSUME Independent, [Next]_vars PROVE Independent'
  OBVIOUS
<1>1. CASE Check
  <2>1. pc = "CHECK" /\ UNCHANGED <<request, tried, match>>
    BY <1>1 DEF Check
  <2>2. tried = 0
    BY <2>1 DEF Independent
  <2> QED BY <2>1, <2>2, Quiet
<1>2. CASE Adjust
  <2>1. pc = "ADJUST" /\ UNCHANGED <<tried, match>>
    BY <1>2 DEF Adjust
  <2>2. tried = 0
    BY <2>1 DEF Independent
  <2> QED BY <2>1, <2>2, Quiet
<1>3. CASE Compare
  BY <1>3, CompareIndependent
<1>4. CASE NoDefinition
  BY <1>4, Quiet DEF NoDefinition, Return
<1>5. CASE Emit
  <2>1. /\ pc' \in {"RETURNED", "PATCH"}
        /\ UNCHANGED <<tried, match>>
    BY <1>5 DEF Emit, Return
  <2> QED BY <2>1, Quiet
<1>6. CASE Patch
  <2>1. pc' = "RETURNED" /\ UNCHANGED <<tried, match>>
    BY <1>6 DEF Patch, Return
  <2> QED BY <2>1, Quiet
<1>7. CASE Decode
  BY <1>7, Quiet DEF Decode
<1>8. CASE ReEncode
  BY <1>8, AgainIndependent DEF ReEncode
<1>9. CASE Replay
  BY <1>9, AgainIndependent DEF Replay
<1>10. CASE ZydisReEncodeInstructionAbsolute
  BY <1>10, AgainIndependent DEF ZydisReEncodeInstructionAbsolute
<1>11. CASE Done \/ UNCHANGED vars
  <2>1. UNCHANGED <<request, pc, tried, match>>
    BY <1>11 DEF Done, vars
  <2>2. CandidatesIndependent' /\ tried' = tried /\ match' = match /\ pc' = pc
    BY <2>1 DEF Independent, CandidatesIndependent, Following, RowsOf
  <2> QED BY <2>2 DEF Independent
<1> QED BY <1>1, <1>2, <1>3, <1>4, <1>5, <1>6, <1>7, <1>8, <1>9, <1>10, <1>11 DEF Next

\* Comparing a definition does not depend on the definitions compared before
\* it, whose match the loop reuses (ZydisFindMatchingDefinition): for every
\* set of rows, request and sequence of calls the match is the one a fresh
\* structure would have given.
THEOREM MatchesAreIndependent == Spec => []CandidatesIndependent
<1>1. Independent => CandidatesIndependent
  BY DEF Independent
<1> QED BY <1>1, InitIndependent, StepIndependent, PTL DEF Spec

=============================================================================
