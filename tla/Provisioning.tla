----------------------------- MODULE Provisioning -----------------------------
(***************************************************************************)
(* Onboarding an Owner and adding a Companion under an operation id of the  *)
(* caller (the two PUT routes of api/workspace_authority.py and the commands*)
(* of services/owner_workspace.py they call).  Every id is derived from the *)
(* operation id and the request's fingerprint is kept in the Companion, so  *)
(* that a request sent again is recognized from the rows it made.           *)
(***************************************************************************)
EXTENDS OwnerWorkspace

CONSTANTS
  Operation,    \* operation ids
  Request,      \* the requests a caller may send; its fingerprint stands for it
  Ids           \* _onboarding_ids and _provision_ids of each operation

Derived == [owner : Owner, companion : Companion, realm : Realm,
            added : Companion, addedRealm : Realm]

\* The ids of two operations, and the two kinds of one operation, are apart.
ASSUME IdsAssumption ==
  /\ Ids \in [Operation -> Derived]
  /\ \A op, other \in Operation :
       /\ Ids[op].companion # Ids[other].added /\ Ids[op].realm # Ids[other].addedRealm
       /\ op # other => /\ Ids[op].owner # Ids[other].owner
                        /\ Ids[op].companion # Ids[other].companion
                        /\ Ids[op].added # Ids[other].added
                        /\ Ids[op].realm # Ids[other].realm
                        /\ Ids[op].addedRealm # Ids[other].addedRealm

VARIABLES
  provenance,   \* the operation and request each Companion was made for, or None
  answer        \* what the last operation was told, or None

provisionVars == <<owners, companions, realms, bindings, facts, provenance, answer>>

Kinds == {"onboard", "provision"}
Mark(by, op, request) == [by |-> by, operation |-> op, request |-> request]
Provenance == [by : Kinds, operation : Operation, request : Request]
\* Whether a refusal is a 404, a 409 or a 400 is left out.
Outcome == {"created", "replayed", "refused"}
Answer == [outcome : Outcome, by : Kinds, operation : Operation, owner : Owner,
           request : Request \cup {None}]

\* SQL NULL is no request, no provenance and no answer.
ASSUME NoneIsApart == None \notin Request \cup Provenance \cup Answer

Made(by, op) == IF by = "onboard" THEN Ids[op].companion ELSE Ids[op].added
Tell(outcome, by, op, o, request) ==
  answer' = [outcome |-> outcome, by |-> by, operation |-> op, owner |-> o, request |-> request]
Remember(c, mark) == provenance' = [provenance EXCEPT ![c] = mark]

\* Was c made by this operation for this request?  None asks for no request.
MadeFor(c, by, op, request) ==
  /\ companions[c].state # "absent"
  /\ provenance[c] # None
  /\ provenance[c].by = by /\ provenance[c].operation = op
  /\ request \in {None, provenance[c].request}

-----------------------------------------------------------------------------
(* initialize_owner_workspace and get_owner_workspace_initialization. *)

\* Faulty: the pointer the Owner may move must still be where it was.
StillDefault(op, request) ==
  LET id == Ids[op]
  IN  /\ MadeFor(id.companion, "onboard", op, request)
      /\ owners[id.owner].default = id.companion
\* _load_onboarding_result: the rows are there and belong together, wherever the
\* Owner's pointers point by now.
Onboarded(op, request) ==
  LET id == Ids[op]
  IN  /\ MadeFor(id.companion, "onboard", op, request)
      /\ Owned(id.owner, id.companion)
      /\ realms[id.realm].owner = id.owner

\* Without a request it is a GET.
Onboard(op, n, request) ==
  LET id == Ids[op]
  IN  \/ /\ request # None
         /\ InitializeOwnerWorkspace(id.owner, n, id.companion, id.realm)
         /\ Remember(id.companion, Mark("onboard", op, request))
         /\ Tell("created", "onboard", op, id.owner, request)
      \/ /\ Exists(id.owner)
         /\ NoChange /\ UNCHANGED provenance
         /\ IF Onboarded(op, request)
              THEN Tell("replayed", "onboard", op, id.owner,
                        IF request = None THEN provenance[id.companion].request ELSE request)
              ELSE Tell("refused", "onboard", op, id.owner, request)

-----------------------------------------------------------------------------
(* provision_companion. *)

\* Faulty: the stored fingerprint is not compared.
AnyRequest(op, o, request) ==
  /\ MadeFor(Ids[op].added, "provision", op, None)
  /\ companions[Ids[op].added].owner = o
  /\ ActiveRealms(o) # {}
\* _load_provision_result.
Provisioned(op, o, request) ==
  /\ MadeFor(Ids[op].added, "provision", op, request)
  /\ companions[Ids[op].added].owner = o
  /\ ActiveRealms(o) # {}

\* A Realm this operation once cataloged keeps its id taken, and so refuses the
\* operation after its Companion was deleted.
Provision(op, o, k, request) ==
  LET c == Ids[op].added
  IN  \/ /\ ProvisionWorkspace(o, c, k, Ids[op].addedRealm)
         /\ Remember(c, Mark("provision", op, request))
         /\ Tell("created", "provision", op, o, request)
      \/ /\ companions[c].state = "absent"
         /\ owners[o].status # "active" \/ realms[Ids[op].addedRealm].status # "absent"
         /\ NoChange /\ UNCHANGED provenance
         /\ Tell("refused", "provision", op, o, request)
      \/ /\ companions[c].state # "absent"
         /\ NoChange /\ UNCHANGED provenance
         /\ IF Provisioned(op, o, request)
              THEN Tell("replayed", "provision", op, o, request)
              ELSE Tell("refused", "provision", op, o, request)

-----------------------------------------------------------------------------
(* The commands that draw other ids. *)

OtherOwner == Owner \ {Ids[op].owner : op \in Operation}
OtherCompanion == Companion \ {Made(by, op) : by \in Kinds, op \in Operation}
OtherRealm ==
  Realm \ ({Ids[op].realm : op \in Operation} \cup {Ids[op].addedRealm : op \in Operation})

\* A revision a caller names only refuses; here it names none.
OtherCommand ==
  \/ \E o \in Owner, n \in Name : UpdateOwner(o, n) \/ RenameOwner(o, n)
  \/ \E o \in OtherOwner, n \in Name : CreateOwner(o, n)
  \/ \E o \in Owner : ArchiveOwner(o) \/ DeleteOwner(o)
  \/ \E o \in Owner, id \in OtherRealm :
       \/ \E c \in OtherCompanion, k \in Kind : ProvisionWorkspace(o, c, k, id)
       \/ \E c \in Companion, r \in RealmFor(o, id) :
            EnsureCompanionRealm(o, c, r) \/ SetDefaultCompanion(o, c, None, r)
  \/ \E o \in Owner, c \in Companion :
       \/ \E x \in Companion : BeginRetirement(o, c, None, x) \/ PutAwayCompanion(o, c, None, x)
       \/ ArchiveCompanion(o, c, None) \/ RestoreCompanion(o, c, None)
       \/ \E allow \in BOOLEAN : DeleteCompanion(o, c, allow)

Keep(c) == IF companions'[c].state = "absent" THEN None ELSE provenance[c]
Command ==
  /\ OtherCommand
  /\ provenance' = [c \in Companion |-> Keep(c)]
  /\ answer' = None

-----------------------------------------------------------------------------
ProvisioningInit ==
  /\ Init
  /\ provenance = [c \in Companion |-> None]
  /\ answer = None

ProvisioningNext ==
  \/ Command
  \/ \E op \in Operation, n \in Name, request \in Request \cup {None} : Onboard(op, n, request)
  \/ \E op \in Operation, o \in Owner, k \in Kind, request \in Request : Provision(op, o, k, request)

ProvisioningSpec == ProvisioningInit /\ [][ProvisioningNext]_provisionVars

-----------------------------------------------------------------------------
ProvisioningTypeOK ==
  /\ TypeOK
  /\ provenance \in [Companion -> Provenance \cup {None}]
  /\ answer \in Answer \cup {None}

\* "A retry that cannot create a second Companion": each operation implements the
\* abstract one, through retirement, archive, deletion and a caller that sends
\* another request under the id.
DoneBy(by) == [op \in Operation |->
  LET mark == provenance[Made(by, op)]
  IN  IF mark = None THEN None ELSE mark.request]
AnsweredBy(by) ==
  IF answer # None /\ answer.by = by /\ answer.outcome # "refused"
    THEN <<answer.operation, answer.request>> ELSE None
Onboarding == INSTANCE Operations WITH
  Nothing <- None, done <- DoneBy("onboard"), answered <- AnsweredBy("onboard")
Adding == INSTANCE Operations WITH
  Nothing <- None, done <- DoneBy("provision"), answered <- AnsweredBy("provision")
DoneOnce == Onboarding!Spec /\ Adding!Spec

\* A caller that lost its answer gets it, wherever the Owner's pointers moved:
\* onboarding as long as the first Companion is there, adding as long as its
\* Companion is and the Owner is active.  (An Owner that is archived has no Realm
\* in use, and the retry of an addition is refused.)
RetryIsAnsweredStep ==
  answer' # None /\ answer'.outcome = "refused" =>
    LET c == Made(answer'.by, answer'.operation)
    IN  \/ ~MadeFor(c, answer'.by, answer'.operation, answer'.request)
        \/ companions[c].owner # answer'.owner
        \/ answer'.by = "provision" /\ owners[answer'.owner].status # "active"
RetryIsAnswered == [][RetryIsAnsweredStep]_provisionVars
=============================================================================
