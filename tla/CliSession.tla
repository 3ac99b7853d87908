----------------------------- MODULE CliSession -----------------------------
(***************************************************************************)
(* The command line (golden-cli/src/main.rs) over the files it reads and   *)
(* writes.  Several processes run one command each.  A command reads one   *)
(* file at once and decides everything from what it read; only create      *)
(* writes, and fs::write first truncates the file and then fills it, in    *)
(* view of the others and possibly killed in between.                      *)
(*                                                                         *)
(*   request  [command, files, ids]   the arguments: the word, the paths   *)
(*                                    and the participant of recover       *)
(*   process  [step, output, text, request, answer]                        *)
(***************************************************************************)
EXTENDS FixtureFile

CONSTANTS Paths,      \* the files there may be
          Texts,      \* what is in a file before the first command
          Requests,   \* the argument lists
          Procs       \* the processes, each of which runs once

VARIABLES files,      \* per existing path its lines
          proc,       \* per process where it is
          made        \* per path the last create on it, kept to state the
                      \* properties: its text and none, writing, torn or whole

vars == <<files, proc, made>>

ParseCommand(request) ==
  LET Shape(command, paths, ids) == /\ request.command = command
                                    /\ Len(request.files) = paths
                                    /\ Len(request.ids) = ids
  IN  IF Shape("", 0, 0) THEN Ok("status")
      ELSE IF Shape("create", 2, 0) \/ Shape("post", 1, 0) \/ Shape("verify", 1, 0)
      THEN Ok(request.command)
      ELSE IF Shape("recover", 1, 1)
      THEN IF request.ids[1] \in 1 .. MaxId THEN Ok("recover") ELSE Err("InvalidParticipant")
      ELSE Err("Usage")

(* What several steps read is a singleton that they bind: a result is made once. *)

\* load_session, and the first half of create.
Load(text) ==
  {IF fixture.ok THEN RunFixture(fixture.value) ELSE fixture : fixture \in {Parse(text)}}

\* A slip of the next definition: the key is not compared with the secret, nor
\* made at all.
ValidateSecretOnly(simulation) ==
  {IF secret.ok THEN NoError ELSE "VerificationFailed" : secret \in {AggregateSecret(simulation)}}

\* The error, or none.
ValidateSimulation(simulation) ==
  LET secret == AggregateSecret(simulation) IN
  IF ~secret.ok THEN {"VerificationFailed"}
  ELSE {IF ~key.ok THEN "SimulationError"
        ELSE IF key.value # GeneratorMul(secret.value) THEN "VerificationFailed"
        ELSE NoError : key \in {SimulationPublicKey(simulation)}}

\* What was loaded, if it is valid.
Validated(loaded) ==
  IF ~loaded.ok THEN {loaded}
  ELSE {IF error = NoError THEN loaded ELSE Err(error) :
          error \in ValidateSimulation(loaded.value)}

Counts(simulation) ==
  [session |-> simulation.session, participants |-> Len(simulation.participants),
   dealers |-> Len(simulation.dealers), transcripts |-> Len(simulation.transcripts)]

\* The answers: post does not validate what it loaded.
PostSession(loaded) ==
  {IF loaded.ok THEN Ok(Counts(loaded.value)) ELSE loaded}

VerifySession(loaded) == UNION {PostSession(valid) : valid \in Validated(loaded)}

RecoverShareBackup(loaded, id) ==
  UNION {IF ~valid.ok THEN {valid}
         ELSE {IF ~share.ok THEN share
               ELSE IF ~key.ok THEN key
               ELSE Ok([session |-> valid.value.session, share |-> share.value,
                        key |-> key.value]) :
                 share \in {RecoverFromTranscripts(valid.value, id, valid.value.transcripts)},
                 key \in {SimulationPublicKey(valid.value)}} :
           valid \in Validated(loaded)}

----------------------------------------------------------------------------

NotYet == [notYet |-> TRUE]
NoText == <<>>

Init ==
  /\ \E present \in SUBSET Paths : files \in [present -> Texts]
  /\ proc = [p \in Procs |-> [step |-> "idle", request |-> NotYet, text |-> NoText,
                              answer |-> NotYet]]
  /\ made = [path \in Paths |-> [text |-> NoText, state |-> "none"]]

Answer(p, request, text, result) ==
  /\ proc' = [proc EXCEPT ![p] = [step |-> "done", request |-> request, text |-> text,
                                  answer |-> result]]
  /\ UNCHANGED <<files, made>>

\* What the arguments alone decide.
AnswerAtOnce(p, request) ==
  LET command == ParseCommand(request) IN
  /\ proc[p].step = "idle"
  /\ \/ ~command.ok /\ Answer(p, request, NoText, command)
     \/ command = Ok("status") /\ Answer(p, request, NoText, Ok("status"))
     \/ /\ command.ok /\ command.value # "status"
        /\ request.files[1] \notin DOMAIN files
        /\ Answer(p, request, NoText, Err("Io"))

ReadSession(p, request) ==
  LET command == ParseCommand(request)
      text == files[request.files[1]]
  IN  /\ proc[p].step = "idle"
      /\ command.ok /\ command.value \in {"post", "verify", "recover"}
      /\ request.files[1] \in DOMAIN files
      /\ \E loaded \in Load(text) :
           \E result \in CASE command.value = "post" -> PostSession(loaded)
                          [] command.value = "verify" -> VerifySession(loaded)
                          [] command.value = "recover" ->
                               RecoverShareBackup(loaded, request.ids[1]) :
             Answer(p, request, text, result)

\* create up to the write.
ReadFixture(p, request) ==
  LET text == files[request.files[1]] IN
  /\ proc[p].step = "idle"
  /\ ParseCommand(request) = Ok("create")
  /\ request.files[1] \in DOMAIN files
  /\ \E loaded \in Load(text) : \E valid \in Validated(loaded) :
       IF valid.ok
       THEN /\ proc' = [proc EXCEPT ![p] = [step |-> "write", request |-> request,
                                            text |-> text, answer |-> NotYet]]
            /\ UNCHANGED <<files, made>>
       ELSE Answer(p, request, text, valid)

Output(p) == proc[p].request.files[2]
Put(path, text) == [q \in DOMAIN files \cup {path} |-> IF q = path THEN text ELSE files[q]]

\* The truncating half of fs::write.  Whoever uses the files runs one create per
\* output at a time: two at once would write over each other.
Truncate(p) ==
  /\ proc[p].step = "write"
  /\ made[Output(p)].state # "writing"
  /\ files' = Put(Output(p), NoText)
  /\ made' = [made EXCEPT ![Output(p)] = [text |-> proc[p].text, state |-> "writing"]]
  /\ proc' = [proc EXCEPT ![p].step = "fill"]

\* A write call may take some of the bytes only.
Fill(p) ==
  /\ proc[p].step = "fill"
  /\ \/ /\ files' = Put(Output(p), proc[p].text)
        /\ made' = [made EXCEPT ![Output(p)].state = "whole"]
        /\ proc' = [proc EXCEPT ![p].step = "done", ![p].answer = Ok("created")]
     \/ /\ files[Output(p)] = NoText
        /\ \E cut \in Cuts(proc[p].text) : files' = Put(Output(p), cut)
        /\ UNCHANGED <<proc, made>>

\* The process is killed, or the disk is full, before all is written.
Interrupt(p) ==
  /\ proc[p].step = "fill"
  /\ made' = [made EXCEPT ![Output(p)].state = "torn"]
  /\ proc' = [proc EXCEPT ![p].step = "done", ![p].answer = Err("Io")]
  /\ UNCHANGED files

Next ==
  \E p \in Procs :
    \/ \E request \in Requests :
         AnswerAtOnce(p, request) \/ ReadSession(p, request) \/ ReadFixture(p, request)
    \/ Truncate(p)
    \/ Fill(p)
    \/ Interrupt(p)

Spec == Init /\ [][Next]_vars

----------------------------------------------------------------------------
(* Properties *)

\* A session whose create was not interrupted stays one that verifies and from
\* which every participant recovers a share of one key, whatever other creates,
\* killed ones included, did to other files and to its own fixture, even if
\* create wrote over the fixture it had read (create_session, main.rs:77).
CreatedIsUsable ==
  \A path \in Paths :
    made[path].state = "whole" =>
      \E loaded \in Load(files[path]) :
        LET Share(id) == CHOOSE backup \in RecoverShareBackup(loaded, id) : TRUE
            config == loaded.value.config
        IN  /\ \A result \in VerifySession(loaded) : result.ok
            /\ \A id \in ToSet(config.participants) : Share(id).ok
            /\ InterpolateAtZero([k \in 1 .. config.threshold |->
                 <<FromU64(config.participants[k]),
                   Share(config.participants[k]).value.share.value>>])
               = {AggregateSecret(loaded.value).value}

LastKey(text) == Last(SelectSeq(text, LAMBDA line : line.key \in Keys)).key

\* A read of a file that a create is writing, or was killed writing, either fails
\* or differs from the session meant only in what its last line says; what does
\* not parse is never taken for a smaller session.  The files name a key once
\* (parse, simulation.rs:94, on what fs::write, main.rs:81, leaves).
TornReadsAsPrefix ==
  \A path \in Paths :
    (made[path].state \in {"writing", "torn"} /\ \E loaded \in Load(files[path]) : loaded.ok) =>
      LET left == Parse(files[path]).value
          meant == Parse(made[path].text).value
      IN  \A key \in (Keys \ {"version"}) \ {LastKey(made[path].text)} : left[key] = meant[key]

=============================================================================
