------------------------------ MODULE Verifier ------------------------------
(***************************************************************************)
(* RequisiteVerifier::verify (verifier.rs): the scan over the instructions *)
(* of a program.  VerifierRules states what one instruction must satisfy,  *)
(* and Accepts what a program must; this module shows that the scan, which *)
(* skips the second slot of a lddw as it goes, decides exactly that.       *)
(***************************************************************************)
EXTENDS VerifierRules

CONSTANTS
    Candidates,     \* the programs the verifier may be given
    Tails           \* how many bytes may follow the last whole instruction

ASSUME CandidatesAssumption ==
    /\ \A p \in Candidates : /\ p.version \in Versions /\ p.n \in Nat
                             /\ DOMAIN p.text = 0..p.n-1
                             /\ \A i \in 0..p.n-1 : IsInsn(p.text[i])
    /\ Tails \subseteq 0..InsnSize-1

VARIABLES
    program, tail,  \* prog: whole instructions and what is left of its bytes
    insn_ptr,
    verdict,        \* what verify returned
    scanned         \* the values insn_ptr had at the head of the loop

vars == <<program, tail, insn_ptr, verdict, scanned>>

Verdict(e, at) == [error |-> e, at |-> at]
Pending == Verdict("pending", 0)
Accepted == Verdict("none", 0)

check_prog_len(p, t) ==
    IF t # 0 THEN "ProgramLengthNotMultiple"
    ELSE IF p.n = 0 THEN "NoProgram"
    ELSE "none"

Init ==
    /\ program \in Candidates
    /\ tail \in Tails
    /\ insn_ptr = 0 /\ scanned = {}
    /\ verdict = IF check_prog_len(program, tail) = "none" THEN Pending
                 ELSE Verdict(check_prog_len(program, tail), 0)

(* Mutants of the loop: slot 0 is blamed; the registers of a lddw are not  *)
(* checked.                                                                *)
ScanBlamesFirst ==
    /\ verdict = Pending
    /\ insn_ptr + 1 <= program.n
    /\ scanned' = scanned \cup {insn_ptr}
    /\ IF check_insn(program, insn_ptr) # "none"
       THEN /\ verdict' = Verdict(check_insn(program, insn_ptr), 0)
            /\ UNCHANGED insn_ptr
       ELSE insn_ptr' = insn_ptr + Width(program, insn_ptr) /\ UNCHANGED verdict
    /\ UNCHANGED <<program, tail>>

ScanSkipsRegisters ==
    /\ verdict = Pending
    /\ insn_ptr + 1 <= program.n
    /\ scanned' = scanned \cup {insn_ptr}
    /\ LET opcode == check_opcode(program, insn_ptr)
           width == Width(program, insn_ptr)
           registers == IF width = 2 THEN "none"
                        ELSE check_registers(program, program.text[insn_ptr])
           error == IF opcode # "none" THEN opcode ELSE registers
       IN  IF error # "none"
           THEN verdict' = Verdict(error, insn_ptr) /\ UNCHANGED insn_ptr
           ELSE insn_ptr' = insn_ptr + width /\ UNCHANGED verdict
    /\ UNCHANGED <<program, tail>>

(* One turn of the loop.  The arm of lddw moves insn_ptr to the second     *)
(* slot before check_registers runs, which then blames that slot.          *)
Scan ==
    /\ verdict = Pending
    /\ insn_ptr + 1 <= program.n
    /\ scanned' = scanned \cup {insn_ptr}
    /\ LET last == insn_ptr + Width(program, insn_ptr) - 1
           opcode == check_opcode(program, insn_ptr)
           registers == check_registers(program, program.text[insn_ptr])
       IN  IF opcode # "none"
           THEN verdict' = Verdict(opcode, insn_ptr) /\ UNCHANGED insn_ptr
           ELSE IF registers # "none"
           THEN verdict' = Verdict(registers, last) /\ insn_ptr' = last
           ELSE insn_ptr' = last + 1 /\ UNCHANGED verdict
    /\ UNCHANGED <<program, tail>>

(* Behind the loop.                                                        *)
Conclude ==
    /\ verdict = Pending
    /\ insn_ptr + 1 > program.n
    /\ verdict' = IF insn_ptr # program.n THEN Verdict("JumpOutOfCode", insn_ptr)
                  ELSE Accepted
    /\ UNCHANGED <<program, tail, insn_ptr, scanned>>

Next == Scan \/ Conclude

Spec == Init /\ [][Next]_vars

-----------------------------------------------------------------------------
(* The scan of verify accepts the programs every slot of which holds a     *)
(* valid instruction or the second half of one, and no others.  The check  *)
(* behind the loop never fails: a lddw that would carry insn_ptr past the  *)
(* end has been refused before.                                            *)
DecidesAccepts ==
    /\ verdict # Pending =>
           (verdict = Accepted <=> tail = 0 /\ program.n > 0 /\ Accepts(program))
    /\ verdict = Pending /\ insn_ptr + 1 > program.n => insn_ptr = program.n

(* An error blames the first instruction that fails a check.               *)
BlamesFirstFault ==
    verdict \notin {Pending, Accepted} /\ scanned # {} =>
        \E i \in scanned :
            /\ check_insn(program, i) # "none"
            /\ verdict.at \in i..i + 1
            /\ \A k \in scanned \ {i} : k < i /\ check_insn(program, k) = "none"

=============================================================================
