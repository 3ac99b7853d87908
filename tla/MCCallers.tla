------------------------------ MODULE MCCallers ------------------------------
(***************************************************************************)
(* The programs that use the library, in one run.  A behaviour is about    *)
(* one of them, named by caller:                                           *)
(*   "frost"        participants that adapt their shares for FROST         *)
(*   "aggregation"  a caller of verify_transcript and aggregate_share      *)
(*   "session"      a caller with a ProofedDkgSimulation                   *)
(*   "cli"          processes of the command line                          *)
(* The others stay in their initial states, the command line Unused.       *)
(***************************************************************************)
EXTENDS FrostAdapter, VerifiedAggregation, ProofedSession, TLC

Unused == "unused"

----------------------------------------------------------------------------
(* The field has eleven elements. *)

MCOddPoints == {1, 3, 4, 6, 9}

----------------------------------------------------------------------------
(* aggregation *)

MCConfig == NewConfig(2, <<1, 2, 4>>).value

Coefficients == [d \in 10 .. 12 |-> <<<<3, 5>>, <<6, 2>>, <<0, 1>>>>[d - 9]]
MCMasks == [d \in 10 .. 12 |-> [p \in {1, 2, 4} |-> (d * p + 3) % 11]]

Sent(d) ==
  [BuildTranscript(d, Coefficients[d], <<1, 2, 4>>, MCMasks[d]).value
     EXCEPT !.status = "Verified"]

\* Three dealers; one of them also as it may arrive: a value changed, a share
\* missing or there twice, the proof rejected.
MCReceived ==
  {Sent(d) : d \in 10 .. 12}
    \cup {[Sent(11) EXCEPT !.shares[2].value = Add(@, 1)],
          [Sent(11) EXCEPT !.shares = Tail(@)],
          [Sent(11) EXCEPT !.shares = Append(@, @[1])],
          [Sent(11) EXCEPT !.status = "Rejected"]}

----------------------------------------------------------------------------
(* session: three dealers, one of them a participant too. *)

Dealer(id, secret, coefficients) ==
  [id |-> id, secret |-> secret, coefficients |-> coefficients]

MCFixture ==
  [threshold |-> 2, session |-> 9,
   participants |-> <<[id |-> 1, secret |-> 2], [id |-> 2, secret |-> 5],
                      [id |-> 4, secret |-> 3]>>,
   dealers |-> <<Dealer(10, 4, <<3, 5>>), Dealer(11, 6, <<6, 2>>), Dealer(2, 1, <<0, 1>>)>>]

MCRun == RunFixture(MCFixture)
MCSimulation == MCRun.value

----------------------------------------------------------------------------
(* cli: a fixture and an output file. *)

CONSTANT Procs

VARIABLES files, proc, made

cliVars == <<files, proc, made>>

Symmetry == Permutations(Procs)

NaN == -1
Version == [key |-> "version", version |-> "0"]
Threshold(n) == [key |-> "threshold", threshold |-> n]
SessionLine(n) == [key |-> "session", session |-> n]
Comment == [key |-> ""]

People == [key |-> "participants",
           participants |-> <<[id |-> 1, secret |-> 2], [id |-> 2, secret |-> 15]>>]
Dealers(list) == [key |-> "dealers", dealers |-> list]

Dealer1 == Dealer(10, 4, <<3, 5>>)
Dealer2 == Dealer(11, 6, <<6, 12>>)
Two == Dealers(<<Dealer1, Dealer2>>)

\* The order of the document, the dealers last; the session last, two-digit, under
\* a comment, with a constant polynomial; a threshold of two and one dealer only,
\* which no create accepts.
MCTexts ==
  {<<Comment, Version, Threshold(2), SessionLine(9), People, Two>>,
   <<Version, Threshold(1), People, Dealers(<<Dealer(10, 4, <<3>>)>>), SessionLine(12),
     Comment>>,
   <<Version, Threshold(2), SessionLine(9), People, Dealers(<<Dealer1>>)>>}
    \* texts that do not parse, or whose numbers do not make a fixture
    \cup {<<Version, [key |-> "no ="]>>, <<Threshold(2)>>,
          <<Version, Threshold(NaN), SessionLine(9), People, Two>>,
          <<Version, Threshold(3), SessionLine(9), People, Two>>}

Request(command, paths, ids) == [command |-> command, files |-> paths, ids |-> ids]

MCRequests ==
  {Request("", <<>>, <<>>), Request("status", <<>>, <<>>),
   Request("create", <<"in", "out">>, <<>>), Request("create", <<"out", "out">>, <<>>)}
    \cup {Request(command, <<"out">>, <<>>) : command \in {"post", "verify"}}
    \cup {Request("recover", <<"out">>, <<id>>) : id \in {0, 1, 3}}

Cli == INSTANCE CliSession WITH
  P <- 7, Generator <- 3, Q <- 11, HelperGenerator <- 2,
  Paths <- {"in", "out"}, Texts <- MCTexts, Requests <- MCRequests

----------------------------------------------------------------------------

VARIABLE caller

\* Participants that adapt nothing.
FrostUnused == share = [id \in Ids |-> 0] /\ groupPublic = 0 /\ package = [id \in Ids |-> NoPackage]
CliUnused == files = Unused /\ proc = Unused /\ made = Unused

CallersInit ==
  \/ caller = "frost" /\ Init /\ AggregationInit /\ SessionInit /\ CliUnused
  \/ caller = "aggregation" /\ AggregationInit /\ FrostUnused /\ SessionInit /\ CliUnused
  \/ caller = "session" /\ SessionInit /\ FrostUnused /\ AggregationInit /\ CliUnused
  \/ caller = "cli" /\ Cli!Init /\ FrostUnused /\ AggregationInit /\ SessionInit

CallersNext ==
  /\ \/ caller = "frost" /\ Next /\ UNCHANGED <<aggregationVars, sessionVars, cliVars>>
     \/ caller = "aggregation" /\ AggregationNext /\ UNCHANGED <<vars, sessionVars, cliVars>>
     \/ caller = "session" /\ SessionNext /\ UNCHANGED <<vars, aggregationVars, cliVars>>
     \/ caller = "cli" /\ Cli!Next /\ UNCHANGED <<vars, aggregationVars, sessionVars>>
  /\ UNCHANGED caller

CallersSpec ==
  CallersInit /\ [][CallersNext]_<<vars, aggregationVars, sessionVars, cliVars, caller>>

----------------------------------------------------------------------------
(* Properties of the command line; each is explained where CliSession has  *)
(* it.  Those of the modules that this one extends are checked as they     *)
(* stand.                                                                  *)

\* Command line: what create wrote stays usable (main.rs:77).
CreatedIsUsable == caller = "cli" => Cli!CreatedIsUsable

\* Command line: a torn file is an error or the session up to its last line
\* (simulation.rs:94, main.rs:81).
TornReadsAsPrefix == caller = "cli" => Cli!TornReadsAsPrefix

=============================================================================
