------------------------------- MODULE Policy -------------------------------
(***************************************************************************)
(* wsl-policy: what an access policy file means and how a request is       *)
(* decided.                                                                *)
(*                                                                         *)
(* A file is a record with the fields name, groups, users, resources,      *)
(* device, duration and connect. Lists are sets: the code only asks        *)
(* whether some or all of their members have a property. The device block  *)
(* may be missing, so it is a set with at most one block in it; a flag in  *)
(* the block is "yes", "no" or "unset".                                    *)
(***************************************************************************)
EXTENDS Integers

Units == {"h", "m", "s"}

\* parse_duration, of a text such as 90m
Seconds(text) ==
  CASE text.unit = "h" -> 3600 * text.n
    [] text.unit = "m" -> 60 * text.n
    [] text.unit = "s" -> text.n

\* Mutant: whole minutes are written as hours.
TextInHours(secs) ==
  IF secs % 60 = 0 THEN [n |-> secs \div 3600, unit |-> "h"]
  ELSE [n |-> secs, unit |-> "s"]

\* humantime_serde_compat::serialize
Text(secs) ==
  IF secs % 3600 = 0 THEN [n |-> secs \div 3600, unit |-> "h"]
  ELSE IF secs % 60 = 0 THEN [n |-> secs \div 60, unit |-> "m"]
  ELSE [n |-> secs, unit |-> "s"]

\* DeviceRequirements::default, for a file with no device block. In a block that
\* is there, a flag that is not mentioned is unset.
DefaultDevice == [managed |-> "unset", compliant |-> "yes", required |-> {}]

Requirements(file) ==
  IF file.device = {} THEN DefaultDevice ELSE CHOOSE d \in file.device : TRUE

\* parse_policy_yaml, of a file it accepts
Parse(file) ==
  [name |-> file.name, groups |-> file.groups, users |-> file.users,
   resources |-> file.resources, device |-> Requirements(file),
   duration |-> Seconds(file.duration), connect |-> file.connect]

\* The document as the JSON column keeps it, and as load_active_policies reads
\* it back: durations are text there.
Stored(doc) == [doc EXCEPT !.duration = Text(@)]
Loaded(row) == [row EXCEPT !.duration = Seconds(@)]

-----------------------------------------------------------------------------
(* A request has the fields user, groups, resource and posture, the set of *)
(* signals the device reported.                                            *)

MatchesSubjects(doc, in) ==
  doc.groups \intersect in.groups # {} \/ in.user \in doc.users

MatchesResource(doc, in) == in.resource \in doc.resources \/ "*" \in doc.resources

Passes(signal, in) == [name |-> signal, result |-> "pass"] \in in.posture

\* device_reports_managed
DeviceReportsManaged(in) == Passes("device_management", in)

\* Named signals replace the blanket check, and a device that reports nothing
\* satisfies nothing.
DeviceOk(doc, in) ==
  LET device == doc.device IN
  /\ device.managed = "yes" => DeviceReportsManaged(in)
  /\ IF device.required # {}
     THEN \A signal \in device.required : Passes(signal, in)
     ELSE device.compliant = "yes" =>
            /\ in.posture # {}
            /\ \A s \in in.posture : s.result \in {"pass", "unsupported"}

Applies(doc, in) == MatchesSubjects(doc, in) /\ MatchesResource(doc, in)

\* evaluate: the loop over docs stops at number i.
FirstMatch(docs, in, i) ==
  /\ i \in DOMAIN docs /\ Applies(docs[i], in)
  /\ \A j \in DOMAIN docs : j < i => ~Applies(docs[j], in)

\* evaluate: what is returned there. A policy that applies and is not met
\* denies; the policies after it are not looked at.
Allows(doc, in) == DeviceOk(doc, in) /\ doc.connect
=============================================================================
