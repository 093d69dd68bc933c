------------------------------ MODULE Debugger ------------------------------
(***************************************************************************)
(* debugger.rs: the interpreter under the control of a remote debugger.    *)
(* `execute' is one loop over the state of the gdbstub session; the client *)
(* gives its commands while the session is idle and can only interrupt it  *)
(* while it runs.  One call of Interpreter::step and the report that       *)
(* follows it are two steps here, which nothing comes between.             *)
(*                                                                         *)
(* The session (gdbstub) is external: a stop that says that the program    *)
(* has ended disconnects the client, any other makes the session idle;     *)
(* while it runs every byte but Ctrl-C is dropped; an error of a handler   *)
(* is handed to the `unwrap' in the loop.                                  *)
(***************************************************************************)
EXTENDS Interpreter

CONSTANTS
    TextSectionOffset,      \* executable.get_text_section_offset()
    BytecodeStart,          \* ebpf::MM_BYTECODE_START
    ExitCodes,              \* number of values of an exit code (u8)
    ClientValues,           \* what the client writes to a register
    ClientAddresses,        \* where it sets breakpoints and reads memory
    MaxCommands             \* bound on what the client sends

VARIABLES
    dbg,            \* the session, or where the loop is
    debug_state,    \* DebugState
    breakpoints,
    reported,       \* the last stop reason
    reply,          \* what the last command read
    commands,       \* how many commands and bytes the client has sent
    \* history
    fresh,          \* no step since the client resumed the program
    disturbed,      \* the client changed an execution or left it
    detached,       \* the client left this execution before its end
    hidden          \* a breakpoint hid an end of this execution

sessionVars == <<debug_state, breakpoints, reported, reply, commands>>
historyVars == <<fresh, disturbed, detached, hidden>>
debugVars == <<vars, dbg, sessionVars, historyVars>>

Reason(tag)  == [tag |-> tag, code |-> 0]
Exited(code) == [tag |-> "Exited", code |-> code]
EndReasons   == {"Exited", "Terminated"}

(* Interpreter::get_dbg_pc                                                 *)
get_dbg_pc == pc * InsnSize + TextSectionOffset

Hits(addr) == \E i \in 1..Len(breakpoints) : breakpoints[i] = addr

DebugInit ==
    /\ Init
    /\ dbg = "off" /\ debug_state = "Continue" /\ breakpoints = << >>
    /\ reported = Reason("none") /\ reply = << >> /\ commands = 0
    /\ fresh = FALSE /\ disturbed = FALSE /\ detached = FALSE /\ hidden = FALSE

(* execute_program of a VM with a debug_port, up to the connected client:  *)
(* every execution has an Interpreter, and so breakpoints, of its own.     *)
Attach(budget) ==
    /\ dbg = "off"
    /\ ExecuteProgram(budget)
    /\ dbg' = "idle" /\ debug_state' = "Continue" /\ breakpoints' = << >>
    /\ detached' = FALSE /\ hidden' = FALSE
    /\ UNCHANGED <<reported, reply, commands, fresh, disturbed>>

-----------------------------------------------------------------------------
(* What the client may ask for while the session is idle.                  *)

Command ==
    /\ dbg = "idle"
    /\ commands < MaxCommands /\ commands' = commands + 1

Answer(r) == reply' = r /\ UNCHANGED <<vars, debug_state, breakpoints, reported, historyVars>>

(* Mutant: the count is settled so that the client reads the true one.     *)
read_registers_settling ==
    /\ Command /\ reply' = <<reg, get_dbg_pc, SaturatingSub(remaining, due_insn_count)>>
    /\ remaining' = SaturatingSub(remaining, due_insn_count)
    /\ UNCHANGED <<program, phase, runs, previous_instruction_meter, due_insn_count,
                   frameVars, registers, registers11, program_result, register_trace,
                   mem, reg, pc, returnVars, dbg, debug_state, breakpoints, reported,
                   historyVars>>

(* read_registers and read_register; `remaining' is what the context       *)
(* object says, which does not know of due_insn_count.                     *)
read_registers ==
    /\ Command /\ Answer(<<reg, get_dbg_pc, remaining>>)
    /\ UNCHANGED dbg

(* get_host_ptr and read_addrs: an address that cannot be read is skipped. *)
get_host_ptr(addr) ==
    IF ~EnableLowerRodataVaddr(program.version) /\ addr < BytecodeStart
    THEN addr + BytecodeStart ELSE addr

read_addrs(addr) ==
    /\ Command
    /\ Answer(IF get_host_ptr(addr) \in Readable THEN <<mem>> ELSE << >>)
    /\ UNCHANGED dbg

Written ==
    /\ reply' = << >> /\ disturbed' = TRUE
    /\ UNCHANGED <<program, phase, runs, meterVars, frameVars, registers, registers11,
                   program_result, register_trace, mem, returnVars,
                   dbg, debug_state, breakpoints, reported, fresh, detached, hidden>>

(* write_register: a general purpose register or sp, and pc, which is not  *)
(* translated back.  Writing the instruction count does nothing.           *)
write_register(r, v) == Command /\ reg' = [reg EXCEPT ![r] = v] /\ Written /\ UNCHANGED pc
write_pc(v)          == Command /\ pc' = v /\ Written /\ UNCHANGED reg

(* write_registers, with what read_registers returned.                     *)
write_registers == Command /\ pc' = get_dbg_pc /\ Written /\ UNCHANGED reg

add_sw_breakpoint(addr) ==
    /\ Command
    /\ breakpoints' = Append(breakpoints, addr)
    /\ reply' = << >>
    /\ UNCHANGED <<vars, dbg, debug_state, reported, historyVars>>

(* The first of the breakpoints at this address, if there is one.          *)
remove_sw_breakpoint(addr) ==
    /\ Command /\ Hits(addr)
    /\ LET pos == CHOOSE i \in 1..Len(breakpoints) :
                     /\ breakpoints[i] = addr
                     /\ \A k \in 1..i-1 : breakpoints[k] # addr
       IN  breakpoints' = SubSeq(breakpoints, 1, pos - 1)
                            \o SubSeq(breakpoints, pos + 1, Len(breakpoints))
    /\ reply' = << >>
    /\ UNCHANGED <<vars, dbg, debug_state, reported, historyVars>>

(* resume and step                                                         *)
resume(mode) ==
    /\ Command
    /\ debug_state' = mode
    /\ dbg' = "running" /\ fresh' = TRUE
    /\ reply' = << >>
    /\ UNCHANGED <<vars, breakpoints, reported, disturbed, detached, hidden>>

(* A request with a signal is an error, and a broken connection is one:    *)
(* both end in `unwrap'.                                                   *)
SessionFails ==
    /\ Command
    /\ dbg' = "panicked" /\ reply' = << >>
    /\ UNCHANGED <<vars, debug_state, breakpoints, reported, historyVars>>

Detach ==
    /\ Command
    /\ dbg' = "disconnected" /\ detached' = TRUE /\ disturbed' = TRUE
    /\ reply' = << >>
    /\ UNCHANGED <<vars, debug_state, breakpoints, reported, fresh, hidden>>

Client ==
    \/ read_registers \/ write_registers \/ SessionFails \/ Detach
    \/ \E addr \in ClientAddresses :
          read_addrs(addr) \/ add_sw_breakpoint(addr) \/ remove_sw_breakpoint(addr)
    \/ \E v \in ClientValues : write_pc(v) \/ \E r \in Registers : write_register(r, v)
    \/ \E mode \in {"Continue", "Step"} : resume(mode)

-----------------------------------------------------------------------------
(* The loop of `execute', while the session runs.                          *)

(* Continue looks for a byte before every step.                            *)
PeekByte(byte) ==
    /\ dbg = "running" /\ debug_state = "Continue"
    /\ commands < MaxCommands /\ commands' = commands + 1
    /\ dbg' = IF byte = "CtrlC" THEN "interrupted" ELSE "running"
    /\ UNCHANGED <<vars, debug_state, breakpoints, reported, reply, historyVars>>

InterruptHandled ==
    /\ dbg = "interrupted"
    /\ reported' = Reason("SIGINT") /\ dbg' = "idle"
    /\ UNCHANGED <<vars, debug_state, breakpoints, reply, commands, historyVars>>

StepOnce ==
    /\ dbg = "running"
    /\ Step
    /\ dbg' = IF phase' = "panicked" THEN "panicked" ELSE "stepped"
    /\ fresh' = FALSE
    /\ UNCHANGED <<sessionVars, disturbed, detached, hidden>>

ExitCode(v) == v % ExitCodes

(* Mutants: breakpoints are looked at in single steps only; every end is   *)
(* an exit; Continue goes on after an error.                               *)
StopReasonStepsOnly ==
    IF phase = "stopped" THEN IF program_result.tag = "Ok"
                              THEN Exited(ExitCode(program_result.value))
                              ELSE Reason("Terminated")
    ELSE IF debug_state = "Step" THEN IF Hits(get_dbg_pc) THEN Reason("SwBreak")
                                      ELSE Reason("DoneStep")
    ELSE Reason("none")

StopReasonAlwaysExit ==
    IF phase = "stopped" /\ (debug_state = "Continue" \/ ~Hits(get_dbg_pc))
    THEN Exited(ExitCode(program_result.value))
    ELSE IF Hits(get_dbg_pc) THEN Reason("SwBreak")
    ELSE IF debug_state = "Step" THEN Reason("DoneStep")
    ELSE Reason("none")

StopReasonIgnoresErrors ==
    IF phase = "stopped" /\ program_result.tag = "Ok"
    THEN Exited(ExitCode(program_result.value))
    ELSE IF Hits(get_dbg_pc) THEN Reason("SwBreak")
    ELSE IF debug_state = "Step" THEN Reason("DoneStep")
    ELSE Reason("none")

(* Why the program stops after a step, or "none" if Continue goes on.  In  *)
(* single steps a breakpoint hides that the program has ended.             *)
StopReason ==
    IF phase = "stopped" /\ (debug_state = "Continue" \/ ~Hits(get_dbg_pc))
    THEN IF program_result.tag = "Ok" THEN Exited(ExitCode(program_result.value))
         ELSE Reason("Terminated")
    ELSE IF Hits(get_dbg_pc) THEN Reason("SwBreak")
    ELSE IF debug_state = "Step" THEN Reason("DoneStep")
    ELSE Reason("none")

(* report_stop.  A program whose end is hidden is still there to be        *)
(* stepped: nothing remembers that step returned false.                    *)
ReportStop ==
    /\ dbg = "stepped"
    /\ LET reason == StopReason
           hides == phase = "stopped" /\ reason.tag \notin EndReasons
       IN  /\ dbg' = CASE reason.tag = "none" -> "running"
                       [] reason.tag \in EndReasons -> "disconnected"
                       [] OTHER -> "idle"
           /\ reported' = IF reason.tag = "none" THEN reported ELSE reason
           /\ phase' = IF hides THEN "running" ELSE phase
           /\ hidden' = (hidden \/ hides)
    /\ UNCHANGED <<program, runs, meterVars, frameVars, registers, registers11,
                   program_result, register_trace, mem, reg, pc, returnVars,
                   debug_state, breakpoints, reply, commands, fresh, disturbed, detached>>

(* "Client disconnected": the loop ends, wherever the program is.          *)
LeaveLoop ==
    /\ dbg = "disconnected"
    /\ dbg' = "off" /\ phase' = "stopped"
    /\ UNCHANGED <<program, runs, meterVars, frameVars, registers, registers11,
                   program_result, register_trace, mem, reg, pc, returnVars,
                   sessionVars, historyVars>>

FinishDebugged ==
    /\ dbg = "off" /\ Finish
    /\ UNCHANGED <<dbg, sessionVars, historyVars>>

DebugLoop == \/ InterruptHandled \/ StepOnce \/ ReportStop
             \/ LeaveLoop \/ FinishDebugged

DebugNext ==
    \/ \E budget \in Budgets : Attach(budget)
    \/ Client
    \/ \E byte \in {"CtrlC", "other"} : PeekByte(byte)
    \/ DebugLoop

(* The thread of the VM keeps running; the client need not answer.         *)
DebugSpec == DebugInit /\ [][DebugNext]_debugVars /\ WF_debugVars(DebugLoop)

-----------------------------------------------------------------------------
(* Properties.                                                             *)

(* "Continue execution till the end or till a breakpoint is hit": once     *)
(* resumed in Continue, no instruction at a breakpoint is executed but the *)
(* one the client resumed at.                                              *)
BreakpointsStop ==
    [][StepOnce /\ debug_state = "Continue" /\ ~fresh => ~Hits(get_dbg_pc)]_debugVars

(* An execution that ends without the client leaving first was reported to *)
(* it for what it is: the exit code of the result, or an error.  So an end *)
(* that a breakpoint hid is not the last the client hears of.              *)
EndReported ==
    phase = "done" /\ ~detached =>
        IF result.tag = "Ok" THEN reported = Exited(ExitCode(result.value))
        ELSE reported.tag = "Terminated"

(* The report that hides an end from a client that steps.                  *)
EndHidden == ReportStop /\ phase = "stopped" /\ phase' = "running"

(* A client that only looks, sets breakpoints, steps and interrupts        *)
(* changes the execution in one way: a breakpoint where the program ends,  *)
(* met in a single step, sets the program going again as if it had not     *)
(* ended, and a call may then find no frame.  But for that, costs,         *)
(* registers, memory and result are those of the abstract machine, before  *)
(* and after an end that was hidden, as they are without a debugger.       *)
Undisturbed ==
    [][~disturbed' =>
          \/ Machine!Next \/ UNCHANGED Machine!vars
          \/ EndHidden
          \/ BeginsWithCalls
          \/ FindsNoFrame /\ (hidden \/ leftover = MaxCallDepth)]_debugVars

(* A client that resumes the program gets the control back, or the program *)
(* ends, for the budget bounds what runs between two stops.                *)
ControlReturns == dbg = "running" ~> dbg \in {"idle", "off", "panicked"}

=============================================================================
