--------------------------- MODULE VerifierProofs ---------------------------
(***************************************************************************)
(* Proofs about Verifier, for every set of candidate programs of any       *)
(* length: the scan decides Accepts, and an error blames the first         *)
(* instruction that fails a check.                                         *)
(***************************************************************************)
EXTENDS Verifier, TLAPS

(* Zenon first: in large contexts it is much the faster of the two.        *)
USE ZenonT(5), SMTT(60)

(* The slots behind insn_ptr hold what Accepts asks for, and what lies     *)
(* directly behind it is a whole instruction or the second half of one:    *)
(* no lddw is left open, so a fault found now is a fault of this slot.     *)
SlotAccepted(p, i) ==
    \/ check_insn(p, i) = "none"
    \/ i > 0 /\ p.text[i].op = "ZERO" /\ Width(p, i - 1) = 2
             /\ check_insn(p, i - 1) = "none"

Scanning ==
    /\ tail = 0 /\ program.n > 0
    /\ insn_ptr \in 0..program.n
    /\ \A i \in 0..insn_ptr-1 : SlotAccepted(program, i)
    /\ insn_ptr > 0 => Width(program, insn_ptr - 1) = 1
    /\ \A k \in scanned : k \in 0..insn_ptr-1 /\ check_insn(program, k) = "none"

Blame ==
    \E i \in scanned :
        /\ check_insn(program, i) # "none"
        /\ verdict.at \in i..i + 1
        /\ \A k \in scanned \ {i} : k < i /\ check_insn(program, k) = "none"

ScanInv ==
    /\ program \in Candidates /\ tail \in Tails
    /\ scanned \subseteq Nat
    /\ verdict = Pending => Scanning
    /\ verdict = Accepted => tail = 0 /\ program.n > 0 /\ Accepts(program)
    /\ verdict \notin {Pending, Accepted} =>
           /\ ~(tail = 0 /\ program.n > 0 /\ Accepts(program))
           /\ scanned # {} => Blame

-----------------------------------------------------------------------------
(* No check returns what stands for a scan that is still going on.         *)
LEMMA CheckPending ==
    ASSUME NEW p, NEW i
    PROVE  check_opcode(p, i) # "pending" /\ check_registers(p, p.text[i]) # "pending"
<1>1. check_opcode(p, i) # "pending"
    BY DEF check_opcode, check_load_dw, check_imm_nonzero, check_imm_shift,
           check_imm_endian, check_imm_aligned, check_jmp_offset, check_callx_register
<1>2. check_registers(p, p.text[i]) # "pending"
    BY DEF check_registers
<1> QED BY <1>1, <1>2

(* A lddw that passes its checks has a second slot, which is not a lddw.   *)
LEMMA PassedLoadDoubleWord ==
    ASSUME NEW p, p.n \in Nat, NEW i \in Nat,
           check_opcode(p, i) = "none", Width(p, i) = 2
    PROVE  /\ i + 1 < p.n
           /\ p.text[i + 1].op = "ZERO"
           /\ Width(p, i + 1) = 1
<1>1. p.text[i].op = "LD_DW_IMM" /\ ~DisableLddw(p.version)
    BY DEF Width
<1>2. check_load_dw(p, i) = "none"
    BY <1>1 DEF check_opcode
<1>3. i + 1 < p.n /\ p.text[i + 1].op = "ZERO"
    BY <1>2 DEF check_load_dw
<1> QED BY <1>3 DEF Width

LEMMA WidthOneOrTwo == ASSUME NEW p, NEW i PROVE Width(p, i) \in {1, 2}
BY DEF Width

LEMMA SlotsBelow ==
    ASSUME NEW a \in Nat, NEW b \in Nat, a < b
    PROVE  a \in 0..b-1 /\ 0..a-1 \subseteq 0..b-1
OBVIOUS

LEMMA AcceptsSlots ==
    ASSUME NEW p PROVE Accepts(p) <=> \A i \in 0..p.n-1 : SlotAccepted(p, i)
BY DEF Accepts, SlotAccepted

-----------------------------------------------------------------------------
LEMMA ScanInvInit == Init => ScanInv
<1> SUFFICES ASSUME Init PROVE ScanInv
    OBVIOUS
<1>1. program \in Candidates /\ tail \in Tails /\ scanned = {} /\ insn_ptr = 0
    BY DEF Init
<1>2. program.n \in Nat /\ tail \in Nat
    BY <1>1, CandidatesAssumption, ConfigAssumption
<1>3. CASE check_prog_len(program, tail) = "none"
    <2>1. verdict = Pending /\ tail = 0 /\ program.n > 0
        BY <1>2, <1>3 DEF Init, check_prog_len
    <2>2. Scanning
        BY <1>1, <1>2, <2>1 DEF Scanning
    <2> QED BY <1>1, <2>1, <2>2 DEF ScanInv, Pending, Accepted, Verdict
<1>4. CASE check_prog_len(program, tail) # "none"
    <2>1. verdict = Verdict(check_prog_len(program, tail), 0)
        BY <1>4 DEF Init
    <2>2. ~(tail = 0 /\ program.n > 0) /\ check_prog_len(program, tail) # "pending"
        BY <1>2, <1>4 DEF check_prog_len
    <2>3. verdict # Pending /\ verdict # Accepted
        BY <1>4, <2>1, <2>2 DEF Pending, Accepted, Verdict
    <2> QED BY <1>1, <2>2, <2>3 DEF ScanInv
<1> QED BY <1>3, <1>4

LEMMA ScanInvScan == ASSUME ScanInv, Scan PROVE ScanInv'
<1> DEFINE last == insn_ptr + Width(program, insn_ptr) - 1
           opcode == check_opcode(program, insn_ptr)
           registers == check_registers(program, program.text[insn_ptr])
<1>1. /\ program \in Candidates /\ tail \in Tails /\ verdict = Pending
      /\ program' = program /\ tail' = tail
      /\ scanned' = scanned \cup {insn_ptr} /\ insn_ptr + 1 <= program.n
    BY DEF ScanInv, Scan
<1>2. Scanning /\ scanned \subseteq Nat
    BY <1>1 DEF ScanInv
<1>3. program.n \in Nat /\ insn_ptr \in 0..program.n-1 /\ insn_ptr \in Nat
    BY <1>1, <1>2, CandidatesAssumption DEF Scanning
<1>4. check_insn(program, insn_ptr) = IF opcode # "none" THEN opcode ELSE registers
    BY DEF check_insn
<1>5. opcode # "pending" /\ registers # "pending"
    BY CheckPending
<1>6. CASE check_insn(program, insn_ptr) # "none"
    <2>1. ~SlotAccepted(program, insn_ptr)
        BY <1>2, <1>3, <1>6 DEF SlotAccepted, Scanning
    <2>2. ~Accepts(program)
        BY <1>3, <2>1, AcceptsSlots
    <2>3. last \in insn_ptr..insn_ptr + 1
        BY <1>3, WidthOneOrTwo
    <2>4. \E e, at : /\ verdict' = Verdict(e, at) /\ e \notin {"none", "pending"}
                     /\ at \in insn_ptr..insn_ptr + 1
        <3>1. CASE opcode # "none"
            BY <1>3, <1>5, <3>1 DEF Scan
        <3>2. CASE opcode = "none"
            BY <1>4, <1>5, <1>6, <2>3, <3>2 DEF Scan
        <3> QED BY <3>1, <3>2
    <2>5. verdict' \notin {Pending, Accepted} /\ verdict'.at \in insn_ptr..insn_ptr + 1
        BY <2>4 DEF Verdict, Pending, Accepted
    <2>6. \A k \in scanned' \ {insn_ptr} : k < insn_ptr /\ check_insn(program, k) = "none"
        BY <1>1, <1>2, <1>3 DEF Scanning
    <2>7. Blame'
        BY <1>1, <1>6, <2>5, <2>6 DEF Blame
    <2> QED BY <1>1, <1>2, <1>3, <2>2, <2>5, <2>7 DEF ScanInv
<1>7. CASE check_insn(program, insn_ptr) = "none"
    <2>1. opcode = "none" /\ registers = "none"
        BY <1>4, <1>7
    <2>2. insn_ptr' = last + 1 /\ verdict' = Pending
        BY <1>1, <2>1 DEF Scan
    <2>3. \A i \in 0..insn_ptr : SlotAccepted(program, i)
        BY <1>2, <1>3, <1>7 DEF Scanning, SlotAccepted
    <2>4. /\ insn_ptr' \in 0..program.n
          /\ \A i \in 0..insn_ptr'-1 : SlotAccepted(program, i)
          /\ Width(program, insn_ptr' - 1) = 1
        <3>1. CASE Width(program, insn_ptr) = 1
            <4>1. insn_ptr' = insn_ptr + 1 /\ insn_ptr' - 1 = insn_ptr
                BY <1>3, <2>2, <3>1
            <4> QED BY <1>3, <2>3, <3>1, <4>1
        <3>2. CASE Width(program, insn_ptr) = 2
            <4>1. insn_ptr' = insn_ptr + 2 /\ insn_ptr' - 1 = insn_ptr + 1
                BY <1>3, <2>2, <3>2
            <4>2. /\ insn_ptr + 1 < program.n
                  /\ program.text[insn_ptr + 1].op = "ZERO"
                  /\ Width(program, insn_ptr + 1) = 1
                BY <1>3, <2>1, <3>2, PassedLoadDoubleWord
            <4>3. (insn_ptr + 1) - 1 = insn_ptr /\ insn_ptr + 1 > 0
                BY <1>3
            <4>4. SlotAccepted(program, insn_ptr + 1)
                BY <1>7, <3>2, <4>2, <4>3 DEF SlotAccepted
            <4> QED BY <1>3, <2>3, <4>1, <4>2, <4>4
        <3> QED BY <3>1, <3>2, WidthOneOrTwo
    <2>5. insn_ptr' \in Nat /\ insn_ptr < insn_ptr'
        BY <1>3, <2>2, WidthOneOrTwo
    <2>6. \A k \in scanned' : k \in 0..insn_ptr'-1 /\ check_insn(program, k) = "none"
        <3>1. insn_ptr \in 0..insn_ptr'-1
            BY <1>3, <2>5, SlotsBelow
        <3>2. \A k \in scanned : k \in 0..insn_ptr-1 /\ check_insn(program, k) = "none"
            BY <1>2 DEF Scanning
        <3>3. \A k \in scanned : k \in 0..insn_ptr'-1
            BY <1>3, <2>5, <3>2, SlotsBelow
        <3> QED BY <1>1, <1>7, <3>1, <3>2, <3>3
    <2>7. Scanning'
        BY <1>1, <1>2, <2>4, <2>6 DEF Scanning
    <2> QED BY <1>1, <1>2, <1>3, <2>2, <2>7 DEF ScanInv, Pending, Accepted, Verdict
<1> QED BY <1>6, <1>7

LEMMA ScanInvConclude == ASSUME ScanInv, Conclude PROVE ScanInv'
<1>1. /\ program \in Candidates /\ verdict = Pending /\ Scanning
      /\ insn_ptr + 1 > program.n /\ UNCHANGED <<program, tail, insn_ptr, scanned>>
    BY DEF ScanInv, Conclude
<1>2. program.n \in Nat /\ insn_ptr = program.n
    BY <1>1, CandidatesAssumption DEF Scanning
<1>3. verdict' = Accepted
    BY <1>2 DEF Conclude
<1>4. Accepts(program)
    BY <1>1, <1>2, AcceptsSlots DEF Scanning
<1> QED BY <1>1, <1>3, <1>4 DEF ScanInv, Scanning, Pending, Accepted, Verdict

LEMMA ScanInvImplies == ASSUME ScanInv PROVE DecidesAccepts /\ BlamesFirstFault
<1>1. verdict = Pending /\ insn_ptr + 1 > program.n => insn_ptr = program.n
    BY CandidatesAssumption DEF ScanInv, Scanning
<1>2. verdict # Pending =>
          (verdict = Accepted <=> tail = 0 /\ program.n > 0 /\ Accepts(program))
    BY DEF ScanInv
<1>3. BlamesFirstFault
    BY DEF ScanInv, BlamesFirstFault, Blame
<1> QED BY <1>1, <1>2, <1>3 DEF DecidesAccepts

LEMMA ScanInvariant == Spec => []ScanInv
<1>1. ScanInv /\ [Next]_vars => ScanInv'
    <2> SUFFICES ASSUME ScanInv, [Next]_vars PROVE ScanInv'
        OBVIOUS
    <2>1. CASE Scan      BY <2>1, ScanInvScan
    <2>2. CASE Conclude  BY <2>2, ScanInvConclude
    <2>3. CASE UNCHANGED vars
        BY <2>3 DEF vars, ScanInv, Scanning, Blame
    <2> QED BY <2>1, <2>2, <2>3 DEF Next
<1> QED BY <1>1, ScanInvInit, PTL DEF Spec

-----------------------------------------------------------------------------
(* The scan of RequisiteVerifier::verify, which skips the second slot of a *)
(* lddw, accepts a program just if every slot holds a valid instruction or *)
(* the second half of one, and the check behind its loop never fails.      *)
THEOREM VerifierDecides == Spec => []DecidesAccepts
BY ScanInvariant, ScanInvImplies, PTL

(* An error of RequisiteVerifier::verify names the first instruction that  *)
(* fails a check, or the second slot of that instruction.                  *)
THEOREM VerifierBlames == Spec => []BlamesFirstFault
BY ScanInvariant, ScanInvImplies, PTL

=============================================================================
