------------------------------- MODULE Redaction -------------------------------
(***************************************************************************)
(* The redaction policy: what Parse makes of the policy file, which        *)
(* transform it prescribes for a key of a payload, and how the live policy *)
(* follows the file.  Reload reads the file first and takes the lock only  *)
(* to swap the policy, several reloads may be under way, and the file may  *)
(* be read while somebody is still writing it.                             *)
(*                                                                         *)
(* A policy file is a sequence of lines; a key is whatever spelling of a   *)
(* field name, and Lower its spelling in lower case.                       *)
(***************************************************************************)
EXTENDS Sequences, SequencesExt, Naturals

CONSTANTS Services, Actions,  \* of the events
          Keys, Lower,        \* spellings of field names, and the lower-case one
          Documents,          \* what a policy file may be meant to say
          Reloaders,          \* concurrent requests to reload
          None,               \* no reload under way
          MaxSaves            \* bound: times the file is written anew

ASSUME RedactionAssumption ==
    /\ Lower \in [Keys -> Keys] /\ \A k \in Keys : Lower[Lower[k]] = Lower[k]
    /\ "*" \notin Services \cup Actions /\ "" \notin Services \cup Actions
    /\ MaxSaves \in Nat

Transforms == {"none", "hash", "mask", "drop"}
Line == [kind : {"service"}, text : Services \cup {"*"}]
            \cup [kind : {"action"}, text : Actions \cup {"*"}]
            \cup [kind : {"field"}, key : Keys, text : Transforms]
            \cup [kind : {"comment"}]   \* also a blank line, "rules:" and "fields:"

ASSUME DocumentsAssumption == Documents \subseteq Seq(Line)

-------------------------------------------------------------------------------
\* A rule with the service line read so far.  Its action is empty, which no
\* event's action is, until there is an action line.
NewRule(service) == [service |-> service, action |-> "", fields |-> <<>>]

\* Faulty variant of AddField: the last of two lines for a field counts.
AddLastField(fields, key, transform) ==
    [k \in DOMAIN fields \cup {key} |-> IF k = key THEN transform ELSE fields[k]]

\* The first line that names a field counts.
AddField(fields, key, transform) ==
    IF key \in DOMAIN fields THEN fields
    ELSE [k \in DOMAIN fields \cup {key} |-> IF k = key THEN transform ELSE fields[k]]

\* One round of the loop over the lines: a service line begins a rule, and the
\* others add to the last one, or to nothing.
ParseLine(rules, line) ==
    CASE line.kind = "service" -> Append(rules, NewRule(line.text))
      [] line.kind = "action" /\ rules # <<>> ->
            [rules EXCEPT ![Len(rules)].action = line.text]
      [] line.kind = "field" /\ rules # <<>> ->
            [rules EXCEPT ![Len(rules)].fields = AddField(@, line.key, line.text)]
      [] line.kind # "service" /\ (line.kind = "comment" \/ rules = <<>>) -> rules

\* The rules after each round.
Rounds(lines) ==
    LET rules[n \in 0..Len(lines)] ==
          IF n = 0 THEN <<>> ELSE ParseLine(rules[n - 1], lines[n])
    IN  rules
Parse(lines) == Rounds(lines)[Len(lines)]

\* The places in the policy of the rules for an event that name a field.
Naming(policy, e, field) ==
    {i \in 1..Len(policy) : /\ policy[i].service \in {"*", e.service}
                            /\ policy[i].action \in {"*", e.action}
                            /\ field \in DOMAIN policy[i].fields}

\* What the first of those rules says of the field.
FirstSays(policy, e, field) ==
    LET naming == Naming(policy, e, field)
    IN  IF naming = {} THEN "pass" ELSE policy[Min(naming)].fields[field]

\* Faulty variant of Decision: the key is looked up as it is spelled.
DecisionAsSpelled(policy, e, key) == FirstSays(policy, e, key)

\* What becomes of a key of the payload: it is looked up in lower case.
Decision(policy, e, key) == FirstSays(policy, e, Lower[key])

-------------------------------------------------------------------------------
VARIABLES file,      \* the policy file: what it is to say, the lines written so far,
                     \* and how often the file has changed
          live,      \* the file as it was when the live policy was read from it
          reload     \* per reload under way: the file as read, and how old the live
                     \* policy was when the reload began

redactionVars == <<file, live, reload>>

\* A line that is itself cut short counts for nothing, like the line not yet
\* written: a service or action line as the last one gives a rule without fields,
\* a field line cut before its colon is skipped, and an unknown transform leaves
\* the value as it is.
Text(f) == SubSeq(f.doc, 1, f.lines)
LivePolicy == Parse(Text(live))

\* NewReloader reads the file; a missing one is an empty policy.
RedactionInit ==
    /\ \E d \in Documents \cup {<<>>} : file = [doc |-> d, lines |-> Len(d), age |-> 0]
    /\ live = file
    /\ reload = [r \in Reloaders |-> None]

\* The operator replaces the file at once, or empties it and writes it anew.
Save(d) ==
    /\ file.lines = Len(file.doc) /\ file.age < MaxSaves
    /\ \E n \in {0, Len(d)} : file' = [doc |-> d, lines |-> n, age |-> file.age + 1]
    /\ UNCHANGED <<live, reload>>

WriteLine ==
    /\ file.lines < Len(file.doc)
    /\ file' = [file EXCEPT !.lines = @ + 1]
    /\ UNCHANGED <<live, reload>>

\* LoadFile, which comes before the lock.  If it fails Reload returns the error and
\* nothing has changed.
BeginReload(r) ==
    /\ reload[r] = None
    /\ reload' = [reload EXCEPT ![r] = [text |-> file, since |-> live]]
    /\ UNCHANGED <<file, live>>

\* Faulty variant of EndReload: the policy read is kept and swapped in again later.
SwapAgain(r) ==
    /\ reload[r] # None
    /\ live' = reload[r].text
    /\ UNCHANGED <<file, reload>>

\* The swap, under the lock.
EndReload(r) ==
    /\ reload[r] # None
    /\ live' = reload[r].text
    /\ reload' = [reload EXCEPT ![r] = None]
    /\ UNCHANGED file

RedactionNext ==
    \/ \E d \in Documents \cup {<<>>} : Save(d)
    \/ WriteLine
    \/ \E r \in Reloaders : BeginReload(r) \/ EndReload(r)

RedactionSpec == RedactionInit /\ [][RedactionNext]_redactionVars

-------------------------------------------------------------------------------
Version(doc) == [doc : {doc}, lines : 0..Len(doc), age : 0..MaxSaves]
Files == UNION {Version(doc) : doc \in Documents \cup {<<>>}}
AsOld(f, g) == f.age < g.age \/ (f.age = g.age /\ f.lines <= g.lines)

\* Type invariant; nothing is younger than the file, and a reload under way
\* brings a policy no older than the one that was live when it began.
RedactionTypeOK ==
    /\ file \in Files /\ live \in Files
    /\ AsOld(live, file)
    /\ reload \in [Reloaders -> [text : Files, since : Files] \cup {None}]
    /\ \A r \in Reloaders : reload[r] # None =>
          /\ AsOld(reload[r].since, reload[r].text) /\ AsOld(reload[r].text, file)

\* Reloads are not ordered, so a policy can be replaced by an older one; but only
\* by a reload that began before the newer one was live.
OlderPolicyOnlyFromOverlap ==
    [][~AsOld(live, live') =>
         \E r \in Reloaders :
             /\ reload[r] # None /\ reload'[r] = None /\ live' = reload[r].text
             /\ AsOld(reload[r].since, live') /\ reload[r].since # live]_redactionVars

Requests == [service : Services, action : Actions]

\* The second of two action lines in a rule would undo the first, and then a part
\* of the file can do what the whole does not.
OneActionPerRule(lines) ==
    \A i, j \in 1..Len(lines) :
        i < j /\ lines[i].kind = "action" /\ lines[j].kind = "action" =>
            \E m \in i..j : lines[m].kind = "service"

\* Parse takes any part of a file for a policy.  A policy read while the file was
\* being written leaves keys in clear that the whole file redacts, but treats none
\* in another way than the whole file does.
HalfWrittenRedactsLess ==
    OneActionPerRule(live.doc) =>
        LET whole == Parse(live.doc)
            part == LivePolicy
        IN  \A e \in Requests, k \in Keys : Decision(part, e, k) \in {"pass", Decision(whole, e, k)}

\* A line that names a field in another than lower-case spelling has no effect: it
\* may as well be commented out.  The spelling in the payload has none either.
IsNamedInLowerCase(line) == line.kind = "field" => Lower[line.key] = line.key
CommentedOut(lines) ==
    [i \in 1..Len(lines) |-> IF IsNamedInLowerCase(lines[i]) THEN lines[i] ELSE [kind |-> "comment"]]

OnlyLowerCaseNamesCount ==
    LET policy == LivePolicy
        inLowerCase == Parse(CommentedOut(Text(live)))
    IN  \A e \in Requests, k \in Keys :
          /\ Decision(policy, e, k) = Decision(policy, e, Lower[k])
          /\ Decision(policy, e, k) = Decision(inLowerCase, e, k)
===============================================================================
