--------------------------- MODULE ValidatorEvidence ---------------------------
(***************************************************************************)
(* What a validation rests on                                              *)
(* (control-gateway/src/validator-closure.js).  A caller puts a request    *)
(* together, artifact by artifact and item of evidence by item; the gate   *)
(* grants it if every artifact has evidence of every family that it        *)
(* declares.  The recovery around it is in ChatRecovery.                   *)
(*                                                                         *)
(* An item of evidence is known by its family, its own id, the artifact    *)
(* and the digest of it that it speaks of, and the ids that it refers to:  *)
(* the schemas and routes of a contract, the receipt of a dependency.      *)
(* Evidence that did not pass is refused on its own, whatever it is about, *)
(* and is left out, like the form of its fields.                           *)
(***************************************************************************)
EXTENDS Naturals, FiniteSets

CONSTANTS
  Paths,        \* paths of artifacts, in the durable scope or not
  Scope,        \* the paths in scope
  Digests,
  Ids,          \* ids of evidence
  Earned,       \* receipts of success in the packet that others may depend on
  Kinds,        \* the kinds of artifacts that are tried
  MaxItems,     \* bound on the items of evidence
  MaxArtifacts  \* bound on the artifacts

Families == {"CODE", "ROUTING", "SCHEMA", "CONTRACT", "DEPENDENCY"}

\* KIND_MINIMUMS
KindMinimum(kind) ==
  CASE kind = "CODE" -> {"CODE"} [] kind = "WORKFLOW" -> {"CODE", "ROUTING"}
    [] kind = "SCHEMA" -> {"SCHEMA", "CONTRACT"} [] kind = "CONTRACT" -> {"CONTRACT"}
    [] OTHER -> {"DEPENDENCY"}

VARIABLES
  artifacts, evidence,   \* the request
  granted                \* whether the gate has granted it

evidenceVars == <<artifacts, evidence, granted>>

EvidenceInit == artifacts = {} /\ evidence = {} /\ granted = FALSE

\* validateArtifact and the duplicate check
WellFormed(a) ==
  KindMinimum(a.kind) \subseteq a.families /\ \A b \in artifacts : a.path # b.path

Declare(a) ==
  /\ ~granted /\ Cardinality(artifacts) < MaxArtifacts /\ WellFormed(a)
  /\ artifacts' = artifacts \union {a}
  /\ UNCHANGED <<evidence, granted>>

\* What evidence of a family may refer to: a contract to schemas and routes, that of a
\* dependency to the one receipt that it is.  Evidence that refers otherwise is refused on
\* its own.
References(family) ==
  CASE family = "CONTRACT" -> SUBSET ({"SCHEMA", "ROUTING"} \X Ids)
    [] family = "DEPENDENCY" -> {{<<"RECEIPT", id>>} : id \in Ids}
    [] OTHER -> {{}}

Attach(e) ==
  /\ ~granted /\ Cardinality(evidence) < MaxItems
  /\ evidence' = evidence \union {e}
  /\ UNCHANGED <<artifacts, granted>>

About(a, family) == {e \in evidence : e.family = family /\ e.path = a.path}

\* Every family that an artifact declares has evidence; but for dependencies all of it
\* speaks of the artifact as it is.
FullyCovered ==
  \A a \in artifacts :
    /\ a.path \in Scope
    /\ \A family \in a.families :
         /\ About(a, family) # {}
         /\ family # "DEPENDENCY" => \A e \in About(a, family) : e.digest = a.digest

\* No evidence is about something else, and no id is used twice in a family; of code
\* there may be several items.
NoOrphans ==
  /\ \A e \in evidence : \E a \in artifacts : a.path = e.path
  /\ \A e, f \in evidence : e.family = f.family /\ e.id = f.id /\ e.family # "CODE" => e = f

\* Faulty: what a contract refers to need only be of some family.
FaultyResolved(e) ==
  \A x \in e.refers : x[1] = "RECEIPT" \/ \E f \in evidence : f.id = x[2]

\* Schemas and routes of a contract are in the request, receipts in the packet.
Resolved(e) ==
  \A x \in e.refers :
    IF x[1] = "RECEIPT" THEN x[2] \in Earned
    ELSE \E f \in evidence : f.family = x[1] /\ f.id = x[2]

\* ValidatorClosureGate.validate, the predecessor being earned as well
Validate ==
  /\ ~granted /\ artifacts # {} /\ FullyCovered /\ NoOrphans
  /\ \A e \in evidence : Resolved(e)
  /\ granted' = TRUE
  /\ UNCHANGED <<artifacts, evidence>>

EvidenceNext ==
  \/ \E p \in Paths, d \in Digests, k \in Kinds, more \in SUBSET Families :
       Declare([path |-> p, digest |-> d, kind |-> k, families |-> more])
  \/ \E f \in Families, i \in Ids, p \in Paths, d \in Digests : \E refers \in References(f) :
       Attach([family |-> f, id |-> i, path |-> p, digest |-> d, refers |-> refers])
  \/ Validate

EvidenceSpec == EvidenceInit /\ [][EvidenceNext]_evidenceVars

-----------------------------------------------------------------------------
(* Properties                                                              *)

\* A workflow that is granted has the route it takes and its code shown of the bytes
\* it has, whatever families its author declared.
WorkflowsShowTheirRoute ==
  granted =>
    \A a \in artifacts :
      a.kind = "WORKFLOW" =>
        \A family \in {"CODE", "ROUTING"} :
          \E e \in evidence : e.family = family /\ e.path = a.path /\ e.digest = a.digest

\* Following the references of what is granted never leads out of it: a contract to
\* schemas and routes of the request, each of an artifact of the request, a
\* dependency to a receipt of success.
GrantsAreClosed ==
  granted =>
    \A e \in evidence : \A x \in e.refers :
      IF x[1] = "RECEIPT" THEN x[2] \in Earned
      ELSE \E f \in evidence, a \in artifacts :
             f.family = x[1] /\ f.id = x[2] /\ f.path = a.path

\* Validator closure: a workflow that is granted has its route and its code shown of the
\* bytes it has, whatever families its author declared, and following the references of
\* what is granted never leads out of the request.
GrantsAreShown == WorkflowsShowTheirRoute /\ GrantsAreClosed

=============================================================================
