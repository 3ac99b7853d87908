----------------------------- MODULE FixtureFile -----------------------------
(***************************************************************************)
(* The line-oriented text of a DKG fixture, which is also the session file *)
(* of the command line (golden-pallas/src/simulation.rs, parse).           *)
(*                                                                         *)
(* A file is a sequence of lines.  A line has a key, and under that name   *)
(* its value: [key |-> "threshold", threshold |-> 2].  A blank or comment  *)
(* line has the key "", one without an equals sign "no =".  A list is a    *)
(* sequence of items; an item without its separator is Broken.  A number   *)
(* is a natural, or NaN if its text is not one that fits u64.  A session   *)
(* name is written like a number, 0 being the empty one.                   *)
(***************************************************************************)
EXTENDS DkgSimulation

NaN == -1
Broken == [broken |-> TRUE]
IsBroken(item) == "broken" \in DOMAIN item

Keys == {"version", "threshold", "session", "participants", "dealers"}

MaxId == 65535

ParticipantError(item) ==
  IF IsBroken(item) THEN "InvalidParticipant"
  ELSE IF NaN \in {item.id, item.secret} THEN "InvalidNumber"
  ELSE IF item.id \notin 1 .. MaxId THEN "InvalidParticipant"
  ELSE NoError

DealerError(item) ==
  IF IsBroken(item) THEN "InvalidDealer"
  ELSE IF NaN \in {item.id, item.secret} \cup ToSet(item.coefficients) THEN "InvalidNumber"
  ELSE IF item.id \notin 1 .. MaxId THEN "InvalidDealer"
  ELSE NoError

\* The first error of a list of them.
FirstError(errors) ==
  LET k == SelectInSeq(errors, LAMBDA e : e # NoError)
  IN  IF k = 0 THEN NoError ELSE errors[k]

LineError(line) ==
  CASE line.key = "no =" -> "InvalidFixtureLine"
    [] line.key \notin Keys \cup {"", "no ="} -> "UnknownFixtureKey"
    [] line.key = "threshold" ->
         IF line.threshold = NaN THEN "InvalidNumber" ELSE NoError
    [] line.key = "participants" ->
         FirstError([k \in DOMAIN line.participants |-> ParticipantError(line.participants[k])])
    [] line.key = "dealers" ->
         FirstError([k \in DOMAIN line.dealers |-> DealerError(line.dealers[k])])
    [] OTHER -> NoError

\* The line that decides about a key is the last one.
Deciding(file, key) == SelectLastInSeq(file, LAMBDA line : line.key = key)

\* from_u64 reduces the numbers.
ParsedDealer(item) ==
  [id |-> item.id, secret |-> item.secret % Q,
   coefficients |-> [k \in DOMAIN item.coefficients |-> FromU64(item.coefficients[k])]]

\* A slip of the next definition: without a dealers line there are no dealers.
ParseDefaultingDealers(file) ==
  LET errors == [k \in DOMAIN file |-> LineError(file[k])]
      Line(key) == file[Deciding(file, key)]
  IN  IF FirstError(errors) # NoError THEN Err(FirstError(errors))
      ELSE IF Deciding(file, "version") = 0 THEN Err("UnsupportedFixtureVersion")
      ELSE IF \E key \in Keys \ {"dealers"} : Deciding(file, key) = 0
      THEN Err("MissingFixtureKey")
      ELSE Ok([threshold    |-> Line("threshold").threshold,
               session      |-> Line("session").session,
               participants |-> Line("participants").participants,
               dealers      |-> IF Deciding(file, "dealers") = 0 THEN <<>>
                                ELSE [k \in DOMAIN Line("dealers").dealers |->
                                        ParsedDealer(Line("dealers").dealers[k])]])

Parse(file) ==
  LET errors == [k \in DOMAIN file |-> LineError(file[k])]
      Line(key) == file[Deciding(file, key)]
  IN  IF FirstError(errors) # NoError THEN Err(FirstError(errors))
      ELSE IF Deciding(file, "version") = 0 THEN Err("UnsupportedFixtureVersion")
      ELSE IF Line("version").version # "0" THEN Err("UnsupportedFixtureVersion")
      ELSE IF \E key \in Keys : Deciding(file, key) = 0 THEN Err("MissingFixtureKey")
      ELSE Ok([threshold    |-> Line("threshold").threshold,
               session      |-> Line("session").session,
               participants |-> [k \in DOMAIN Line("participants").participants |->
                                   LET item == Line("participants").participants[k] IN
                                   [id |-> item.id, secret |-> item.secret % Q]],
               dealers      |-> [k \in DOMAIN Line("dealers").dealers |->
                                   ParsedDealer(Line("dealers").dealers[k])]])

----------------------------------------------------------------------------
(* What is left of a file whose end is missing *)

\* The digits of a number that are left: some, or none.
CutNumbers(n) == {n \div 10 ^ k : k \in {k \in 1 .. 4 : 10 ^ k <= n}} \cup {NaN}

CutParticipants(item) ==
  {Broken} \cup {[item EXCEPT !.secret = n] : n \in CutNumbers(item.secret)}

CutDealers(item) ==
  {Broken} \cup UNION {{[item EXCEPT !.coefficients = Append(SubSeq(@, 1, m - 1), n)] :
                          n \in {item.coefficients[m]} \cup CutNumbers(item.coefficients[m])} :
                   m \in DOMAIN item.coefficients}

CutLists(items, cuts) ==
  {SubSeq(items, 1, m) : m \in 0 .. Len(items)}
    \cup UNION {{Append(SubSeq(items, 1, m - 1), item) : item \in cuts[m]} : m \in DOMAIN items}

CutLines(line) ==
  {line, [key |-> "no ="]} \cup
  CASE line.key = "version" -> {[line EXCEPT !.version = ""]}
    [] line.key = "threshold" -> {[line EXCEPT !.threshold = n] : n \in CutNumbers(line.threshold)}
    [] line.key = "session" ->
         {[line EXCEPT !.session = n] : n \in (CutNumbers(line.session) \ {NaN}) \cup {0}}
    [] line.key = "participants" ->
         {[line EXCEPT !.participants = items] :
            items \in CutLists(line.participants,
                               [m \in DOMAIN line.participants |->
                                  CutParticipants(line.participants[m])])}
    [] line.key = "dealers" ->
         {[line EXCEPT !.dealers = items] :
            items \in CutLists(line.dealers,
                               [m \in DOMAIN line.dealers |-> CutDealers(line.dealers[m])])}
    [] OTHER -> {}

Cuts(file) ==
  {SubSeq(file, 1, n) : n \in 0 .. Len(file)}
    \cup UNION {{Append(SubSeq(file, 1, n - 1), line) : line \in CutLines(file[n])} :
           n \in DOMAIN file}

=============================================================================
