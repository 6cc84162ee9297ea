------------------------------ MODULE GdbSession ------------------------------
(***************************************************************************)
(* A debugging session: a GDB client, the stub that serves it              *)
(* (crates/reargo-emulator/src/gdbserver.rs: serve, serve_stream,          *)
(* read_packet, GdbStub::handle_packet), the emulated program behind it    *)
(* (EmulatorTarget in crates/reargo-cli/src/main.rs) and the client's      *)
(* framing of the answers (GdbConnection in network.rs).                   *)
(*                                                                         *)
(* The client may send requests without waiting, an interrupt byte at any  *)
(* moment, and may vanish.  The stub is one thread: while the program runs *)
(* nothing is read.  The two directions of the connection are FIFO.        *)
(***************************************************************************)
EXTENDS Naturals, Sequences

CONSTANTS
    N,          \* the program is at addresses 1..N
    Cell,       \* memory cells outside the program
    Byte,       \* what a cell or a register holds
    Image,      \* the cells as the binary's image holds them
    Programs,   \* the programs debugged
    Messages,   \* messages the client sends
    MaxSteps,   \* EmulatorTarget::MAX_CONTINUE_STEPS
    MaxSent     \* bound on the messages the client sends

Addr == 1..N
PC == 0..(N + 1)
NoPC == N + 2           \* a register block that ends before rip
Kinds == {"?", "g", "G", "m", "M", "c", "s", "Z", "z", "q", "bad", "",
          "k", "D", "int"}
InstrOps == {"next", "jump", "ret", "fault", "undef"}

\* A jump stands for branches and calls; an instruction may write memory first.
Instr == [op : InstrOps, to : PC, stores : BOOLEAN]
Msg ==   [op : Kinds \ {"G", "m", "M", "Z", "z"}, at : {0}, val : {0}]
    \cup [op : {"Z", "z"}, at : Addr, val : {0}]
    \cup [op : {"m"}, at : Cell, val : {0}]
    \cup [op : {"M"}, at : Cell, val : Byte]
    \cup [op : {"G"}, at : PC \cup {NoPC}, val : Byte]

ASSUME GdbConstants ==
    /\ N \in Nat \ {0} /\ MaxSteps \in Nat \ {0} /\ MaxSent \in Nat
    /\ 0 \in Byte /\ Image \in [Cell -> Byte]
    /\ Programs \subseteq [Addr -> Instr] /\ Messages \subseteq Msg

VARIABLES
    code,       \* code[a]: the instruction at a (the lifter reads `memory`)
    ram,        \* emu.state: the cells as the program and `M` leave them
    reg,        \* a general register of emu.state
    regpc,      \* rip in emu.state, which steps do not keep
    pc,         \* pc
    breakpoints,\* breakpoints
    exited,     \* exited
    server,     \* where serve is: "accept", "read", "run" or "done"
    ran,        \* iterations of resume so far
    limit,      \* how many resume may do
    toServer,   \* messages on their way to the stub
    toClient,   \* tokens on their way to the client
    rx,         \* GdbConnection::rx_buffer, in tokens
    awaiting,   \* messages the client has no answer to yet, oldest first
    sent,       \* how many messages the client has sent
    closed      \* has the client closed the connection?

target == <<code, ram, reg, regpc, pc, breakpoints, exited>>
client == <<rx, awaiting, sent, closed>>
vars == <<code, ram, reg, regpc, pc, breakpoints, exited, server, ran,
          limit, toServer, toClient, rx, awaiting, sent, closed>>

Eof == [op |-> "eof", at |-> 0, val |-> 0]

\* Answers: a stop reply ("S05", "S04", "S0b", "W00"), data, or a fixed text.
Stop == {"S05", "S04", "S0b", "W00"}
Answer ==   [is : {"stop"}, why : Stop]
       \cup [is : {"regs"}, pc : PC, val : Byte]
       \cup [is : {"byte"}, val : Byte]
       \cup [is : {"OK", "E01", "text"}]
NoAnswer == [is |-> "none"]

Init ==
    /\ code \in Programs
    /\ ram = Image
    /\ reg = 0 /\ regpc = 0
    /\ pc = 1
    /\ breakpoints = {}
    /\ exited = FALSE
    /\ server = "accept"
    /\ ran = 0 /\ limit = 0
    /\ toServer = <<>> /\ toClient = <<>>
    /\ rx = <<>>
    /\ awaiting = <<>>
    /\ sent = 0
    /\ closed = FALSE

-----------------------------------------------------------------------------
(***************************************************************************)
(* The client.                                                             *)
(***************************************************************************)
\* A kill and an empty packet are not answered.
Answered(m) == m.op \notin {"k", "", "eof"}

Send(m) ==
    /\ ~closed /\ sent < MaxSent
    /\ sent' = sent + 1
    /\ toServer' = Append(toServer, m)
    /\ awaiting' = IF Answered(m) THEN Append(awaiting, m) ELSE awaiting
    /\ UNCHANGED <<target, server, ran, limit, toClient, rx, closed>>

\* Between two packets or within one, read_packet sees the end of the stream.
Close ==
    /\ ~closed
    /\ closed' = TRUE
    /\ toServer' = Append(toServer, Eof)
    /\ UNCHANGED <<target, server, ran, limit, toClient, rx, awaiting, sent>>

\* receive_data: the stream may be cut into pieces anywhere.
Deliver ==
    /\ ~closed /\ toClient # <<>>
    /\ rx' = Append(rx, Head(toClient))
    /\ toClient' = Tail(toClient)
    /\ UNCHANGED <<target, server, ran, limit, toServer, awaiting, sent, closed>>

\* try_parse_response: the first packet of the buffer, once its checksum is
\* there; what precedes it (acknowledgements) is dropped with it.
Parse ==
    LET bodies == {i \in DOMAIN rx : rx[i].token = "body"}
        from == CHOOSE i \in bodies : \A j \in bodies : i <= j
    IN  /\ ~closed /\ awaiting # <<>>
        /\ bodies # {} /\ from + 1 <= Len(rx)
        /\ awaiting' = Tail(awaiting)
        /\ rx' = SubSeq(rx, from + 2, Len(rx))
        /\ UNCHANGED <<target, server, ran, limit, toServer, toClient, sent, closed>>

-----------------------------------------------------------------------------
(***************************************************************************)
(* serve and serve_stream.                                                 *)
(***************************************************************************)
Accept ==
    /\ server = "accept"
    /\ server' = "read"
    /\ UNCHANGED <<target, ran, limit, toServer, toClient, client>>

Token(t, d) == [token |-> t, data |-> d]
Ack == <<Token("+", NoAnswer)>>
\* encode_packet: "$" to "#", and the checksum, which may come later.
Packet(a) == <<Token("body", a), Token("sum", NoAnswer)>>

\* A write to a client that is gone may fail, which ends serve.
WriteThen(tokens, next) ==
    \/ /\ toClient' = toClient \o tokens
       /\ server' = next
    \/ /\ closed
       /\ server' = "done"
       /\ UNCHANGED toClient

\* read_packet returns the message m: a packet is acknowledged at once.
Read(m) ==
    /\ server = "read" /\ toServer # <<>> /\ m = Head(toServer)
    /\ toServer' = Tail(toServer)

\* Mutant: the interrupt is handled as a packet too.
InterruptTwice ==
    LET m == Head(toServer) IN
    /\ Read(m) /\ m.op = "int"
    /\ WriteThen(Packet([is |-> "stop", why |-> "S05"])
                   \o Packet([is |-> "text"]), "read")
    /\ UNCHANGED <<target, ran, limit, client>>

\* An interrupt is neither acknowledged nor passed on: one stop reply.
Interrupt ==
    LET m == Head(toServer) IN
    /\ Read(m) /\ m.op = "int"
    /\ WriteThen(Packet([is |-> "stop", why |-> "S05"]), "read")
    /\ UNCHANGED <<target, ran, limit, client>>

EndOfStream ==
    /\ Read(Eof)
    /\ server' = "done"
    /\ UNCHANGED <<target, ran, limit, toClient, client>>

\* What handle_packet answers at once, and where serve_stream goes then.
Reply(m) ==
    CASE m.op = "?" -> [is |-> "stop", why |-> "S05"]
      [] m.op = "g" -> [is |-> "regs", pc |-> pc, val |-> reg]
      [] m.op = "m" -> [is |-> "byte", val |-> Image[m.at]]
      [] m.op \in {"G", "M", "Z", "z", "D"} -> [is |-> "OK"]
      [] m.op = "bad" -> [is |-> "E01"]
      [] m.op = "q" -> [is |-> "text"]

\* Queries, the halt reason, reads, malformed packets and detach.
Inspect ==
    LET m == Head(toServer) IN
    /\ Read(m) /\ m.op \in {"?", "g", "m", "bad", "q", "D"}
    /\ WriteThen(Ack \o Packet(Reply(m)), IF m.op = "D" THEN "done" ELSE "read")
    /\ UNCHANGED <<target, ran, limit, client>>

\* write_registers: the block fills emu.state, and pc is read back from there.
WriteRegisters ==
    LET m == Head(toServer) IN
    /\ Read(m) /\ m.op = "G"
    /\ reg' = m.val
    /\ regpc' = IF m.at = NoPC THEN regpc ELSE m.at
    /\ pc' = regpc'
    /\ WriteThen(Ack \o Packet(Reply(m)), "read")
    /\ UNCHANGED <<code, ram, breakpoints, exited, ran, limit, client>>

\* write_memory
WriteMemory ==
    LET m == Head(toServer) IN
    /\ Read(m) /\ m.op = "M"
    /\ ram' = [ram EXCEPT ![m.at] = m.val]
    /\ WriteThen(Ack \o Packet(Reply(m)), "read")
    /\ UNCHANGED <<code, reg, regpc, pc, breakpoints, exited, ran, limit,
                   client>>

\* handle_breakpoint
Breakpoint ==
    LET m == Head(toServer) IN
    /\ Read(m) /\ m.op \in {"Z", "z"}
    /\ breakpoints' = IF m.op = "Z" THEN breakpoints \cup {m.at}
                                    ELSE breakpoints \ {m.at}
    /\ WriteThen(Ack \o Packet(Reply(m)), "read")
    /\ UNCHANGED <<code, ram, reg, regpc, pc, exited, ran, limit, client>>

\* Mutant: a kill is only acknowledged.
UnansweredKill ==
    LET m == Head(toServer) IN
    /\ Read(m) /\ m.op \in {"", "k"}
    /\ WriteThen(Ack, "read")
    /\ UNCHANGED <<target, ran, limit, client>>

\* Packets without an answer: an empty one is skipped, a kill ends serve.
Unanswered ==
    LET m == Head(toServer) IN
    /\ Read(m) /\ m.op \in {"", "k"}
    /\ WriteThen(Ack, IF m.op = "k" THEN "done" ELSE "read")
    /\ UNCHANGED <<target, ran, limit, client>>

\* `c`, `s` and vCont: resume begins.
Resume ==
    LET m == Head(toServer) IN
    /\ Read(m) /\ m.op \in {"c", "s"}
    /\ WriteThen(Ack, "run")
    /\ ran' = 0
    /\ limit' = IF m.op = "s" THEN 1 ELSE MaxSteps
    /\ UNCHANGED <<target, client>>

-----------------------------------------------------------------------------
(***************************************************************************)
(* step_one and resume.  The operations of an instruction that precede a   *)
(* branch, a return or an error have taken effect.                         *)
(***************************************************************************)
Lifts(a) == a \in Addr /\ code[a].op # "undef"

\* Mutant: a program that has ended is run again.
ReasonRerun ==
    CASE ~Lifts(pc) -> "S04"
      [] Lifts(pc) -> CASE code[pc].op = "ret" -> "W00"
                        [] code[pc].op = "fault" -> "S0b"
                        [] OTHER -> "S05"

\* Why step_one stops.
Reason ==
    CASE exited -> "W00"
      [] ~exited /\ ~Lifts(pc) -> "S04"
      [] ~exited /\ Lifts(pc) -> CASE code[pc].op = "ret" -> "W00"
                                   [] code[pc].op = "fault" -> "S0b"
                                   [] OTHER -> "S05"

\* Mutant: a breakpoint holds the program that is resumed at it.
TargetHeld ==
    IF Reason # "S05" \/ pc \in breakpoints THEN pc
    ELSE IF code[pc].op = "jump" THEN code[pc].to ELSE pc + 1

Target ==
    IF Reason # "S05" THEN pc
    ELSE IF code[pc].op = "jump" THEN code[pc].to ELSE pc + 1

\* Does resume return after this step?
StopsHere == \/ Reason # "S05" \/ Target \in breakpoints \/ ran + 1 = limit

\* Mutant: the iterations are not counted.
RunStepUncounted ==
    /\ server = "run"
    /\ ram' = IF ~exited /\ Lifts(pc) /\ code[pc].stores
                THEN [x \in Cell |-> reg] ELSE ram
    /\ exited' = (Reason # "S05")
    /\ pc' = Target
    /\ \/ /\ StopsHere
          /\ WriteThen(Packet([is |-> "stop", why |-> Reason]), "read")
          /\ ran' = 0 /\ limit' = 0
       \/ /\ ~StopsHere
          /\ UNCHANGED <<ran, server, limit, toClient>>
    /\ UNCHANGED <<code, reg, regpc, breakpoints, toServer, client>>

\* One iteration of resume.
RunStep ==
    /\ server = "run"
    /\ ram' = IF ~exited /\ Lifts(pc) /\ code[pc].stores
                THEN [x \in Cell |-> reg] ELSE ram
    /\ exited' = (Reason # "S05")
    /\ pc' = Target
    /\ \/ /\ StopsHere
          /\ WriteThen(Packet([is |-> "stop", why |-> Reason]), "read")
          /\ ran' = 0 /\ limit' = 0
       \/ /\ ~StopsHere
          /\ ran' = ran + 1
          /\ UNCHANGED <<server, limit, toClient>>
    /\ UNCHANGED <<code, reg, regpc, breakpoints, toServer, client>>

Serve == \/ Accept \/ Interrupt \/ EndOfStream \/ Inspect \/ WriteRegisters
         \/ WriteMemory \/ Breakpoint \/ Unanswered \/ Resume \/ RunStep

Next == Serve \/ Deliver \/ Parse \/ Close \/ \E m \in Messages : Send(m)

\* The stub's thread and the client's reader go on; nobody has to send.
Spec == Init /\ [][Next]_vars /\ WF_vars(Serve) /\ WF_vars(Deliver) /\ WF_vars(Parse)
-----------------------------------------------------------------------------
Token_ == [token : {"+", "body", "sum"}, data : Answer \cup {NoAnswer}]

\* The types of the session's state.
TypeOK ==
    /\ code \in Programs
    /\ ram \in [Cell -> Byte]
    /\ reg \in Byte /\ regpc \in PC /\ pc \in PC
    /\ breakpoints \subseteq Addr
    /\ exited \in BOOLEAN
    /\ server \in {"accept", "read", "run", "done"}
    /\ limit \in 0..MaxSteps /\ ran \in 0..MaxSteps
    /\ server = "run" => ran < limit
    /\ toServer \in Seq(Msg \cup {Eof}) /\ awaiting \in Seq(Msg)
    /\ toClient \in Seq(Token_) /\ rx \in Seq(Token_)
    /\ sent \in 0..MaxSent /\ closed \in BOOLEAN

\* Is a an answer to m?
Fits(m, a) ==
    CASE m.op \in {"?", "c", "s", "int"} -> a.is = "stop"
      [] m.op = "g" -> a.is = "regs"
      [] m.op = "m" -> a.is = "byte"
      [] m.op \in {"G", "M", "Z", "z", "D"} -> a.is = "OK"
      [] m.op = "bad" -> a.is = "E01"
      [] m.op = "q" -> a.is = "text"

\* The elements of s that are in S, in order: SelectSeq, by a set.
Only(s, S) ==
    LET upTo[n \in 0..Len(s)] ==
          IF n = 0 THEN <<>>
          ELSE IF s[n] \in S THEN Append(upTo[n - 1], s[n]) ELSE upTo[n - 1]
    IN  upTo[Len(s)]

Bodies == {t \in Token_ : t.token = "body"}
Asked == {m \in Msg : Answered(m)}
Replies == Only(rx \o toClient, Bodies)
Unread == Only(toServer, Asked)
Running == IF server = "run" THEN 1 ELSE 0

(***************************************************************************)
(* The conversation stays in step: the answers on their way, whole or in   *)
(* pieces, are those to the oldest messages the client still waits for, in *)
(* order, an interrupt being a message of its own; behind them comes the   *)
(* resume that is running, then what the stub has not read yet. The state  *)
(* keeps its types.                                                        *)
(***************************************************************************)
InStep ==
    /\ TypeOK
    /\ ~closed =>
         /\ Len(Replies) <= Len(awaiting)
         /\ \A i \in DOMAIN Replies : Fits(awaiting[i], Replies[i].data)
    /\ server # "done" =>
         awaiting = SubSeq(awaiting, 1, Len(Replies) + Running) \o Unread

\* The instruction at a is run: it stores, and it ends the program or leads on.
Executes(a) ==
    /\ code[a].stores => \A x \in Cell : ram'[x] = reg
    /\ \/ code[a].op \in {"ret", "fault"} /\ exited'
       \/ code[a].op = "jump" /\ pc' = code[a].to
       \/ code[a].op = "next" /\ pc' = a + 1

(***************************************************************************)
(* resume makes progress and stops where it must: each step of it runs the *)
(* instruction at the pc, the first one even at a breakpoint; no later one *)
(* is run at a breakpoint; and a program that has not ended stops only at  *)
(* one or at the step limit.                                               *)
(***************************************************************************)
StopsAtBreakpoints ==
    [][server = "run" /\ <<pc, ran, server>>' # <<pc, ran, server>> =>
          /\ ~exited /\ Lifts(pc) => Executes(pc)
          /\ ran > 0 => pc \notin breakpoints
          /\ server' # "run" /\ ~exited' =>
                /\ pc' \in breakpoints \/ ran + 1 = limit
                /\ Lifts(pc)]_vars

(***************************************************************************)
(* A program that has ended stays so: no resume runs it again, whatever    *)
(* registers the client writes.                                            *)
(***************************************************************************)
EndedStaysEnded ==
    [][exited => exited' /\ (server = "run" => UNCHANGED <<pc, ram, reg>>)]_vars

(***************************************************************************)
(* serve returns once the client has closed the connection, detached or    *)
(* killed, even when the program is running then.                          *)
(***************************************************************************)
ServeReturns ==
    (\E i \in DOMAIN toServer : toServer[i].op \in {"D", "k", "eof"})
        ~> server = "done"

(***************************************************************************)
(* Every message that wants an answer gets one while the session lasts: a  *)
(* program that never stops by itself is stopped by the step limit.        *)
(***************************************************************************)
AllAnswered ==
    awaiting # <<>> ~> awaiting = <<>> \/ server = "done" \/ closed
===============================================================================
