----------------------------- MODULE AzureVersions -----------------------------
(***************************************************************************)
(* The versions of one Azure Key Vault secret as azure.rs reads them: the  *)
(* list of versions page by page, the newest one by the second it was      *)
(* created in, and the value of one version.  Before each page and value   *)
(* the Azure CLI runs to hand out a token.                                 *)
(*                                                                         *)
(* The vault lists versions in the order of their identifiers, which says  *)
(* nothing about their age.  While the list is read, versions are added,   *)
(* enabled and disabled.  A page's link names the identifier the next page *)
(* starts after; it may lead back, or to another host, but it skips none.  *)
(***************************************************************************)
EXTENDS Naturals, FiniteSets

CONSTANTS
    MaxId,      \* bound: identifiers, in the order of the list
    MaxSecond,  \* bound: seconds in which a version was created
    PageSize,   \* versions of a page
    MAX_PAGES   \* pages get_version reads

ASSUME PagesAssumption ==
    /\ MaxId \in Nat /\ MaxSecond \in Nat
    /\ PageSize \in Nat \ {0} /\ MAX_PAGES \in Nat \ {0}

Ids == 1..MaxId

VARIABLES
    created,    \* the second each version was created in, 0 if there is none
    enabled,    \* the versions that are enabled
    phase,      \* "rest", "token" or "get"
    asked,      \* the version whose value is asked for, or 0 for the list
    cursor,     \* the identifier the page to read starts after
    seen,       \* the cursors of the pages read
    latest,     \* the newest version seen, its flag and whether it has a twin
    child,      \* the token command: "none", "running", "done" or "failed"
    output,     \* what the thread that reads its output has sent
    late,       \* the deadline of the token command has passed
    reply,      \* what the last step told its caller
    newest      \* history: the newest versions when get_version began

service   == <<created, enabled>>
command   == <<child, output, late>>
azureVars == <<service, phase, asked, cursor, seen, latest, command, reply, newest>>

Nothing == [id |-> 0, enabled |-> FALSE, ambiguous |-> FALSE]
NoReply == [kind |-> "none", id |-> 0]
Error   == [kind |-> "error", id |-> 0]

Existing   == {i \in Ids : created[i] # 0}
NewestOnes == {i \in Existing : \A j \in Existing : created[j] <= created[i]}

AzureInit ==
    /\ created = [i \in Ids |-> IF i = 1 THEN 1 ELSE 0]
    /\ enabled = {1}
    /\ phase = "rest" /\ asked = 0
    /\ cursor = 0 /\ seen = {} /\ latest = Nothing
    /\ child = "none" /\ output = "none" /\ late = FALSE
    /\ reply = NoReply
    /\ newest = {}

-----------------------------------------------------------------------------
(* Plausible bugs: each replaces the definition it names, to show that the *)
(* properties notice.                                                      *)

TakesTheFirst(best, i) ==                                       \* Take
    IF best.id # 0 /\ created[i] <= created[best.id]
    THEN best
    ELSE [id |-> i, enabled |-> i \in enabled, ambiguous |-> FALSE]

-----------------------------------------------------------------------------
(* A call begins and ends.                                                 *)

Begin(version) ==
    /\ phase = "rest" /\ phase' = "token"
    /\ asked' = version
    /\ reply' = NoReply
    /\ UNCHANGED <<service, cursor, seen, latest, command>>

Finish(r) ==
    /\ reply' = r
    /\ phase' = "rest" /\ asked' = 0
    /\ cursor' = 0 /\ seen' = {} /\ latest' = Nothing
    /\ child' = "none" /\ output' = "none" /\ late' = FALSE
    /\ UNCHANGED newest

GetVersion ==
    /\ Begin(0)
    /\ newest' = NewestOnes

GetValue ==
    /\ \E v \in Existing : Begin(v)
    /\ newest' = {}

-----------------------------------------------------------------------------
(* cli_token: the command, a thread that reads its output, and a deadline. *)

Spawn ==
    /\ phase = "token" /\ child = "none"
    /\ \/ child' = "running" /\ UNCHANGED <<phase, asked, cursor, seen, latest, output, late, reply, newest>>
       \/ Finish(Error)
    /\ UNCHANGED service

ChildEnds ==
    /\ child = "running"
    /\ child' \in {"done", "failed"}
    /\ UNCHANGED <<service, phase, asked, cursor, seen, latest, output, late, reply, newest>>

\* read_bounded: the whole output, or more than a token can be.
OutputRead ==
    /\ child # "none" /\ output = "none"
    /\ output' \in {"token", "unfit"}
    /\ UNCHANGED <<service, phase, asked, cursor, seen, latest, child, late, reply, newest>>

DeadlinePasses ==
    /\ child # "none" /\ ~late
    /\ late' = TRUE
    /\ UNCHANGED <<service, phase, asked, cursor, seen, latest, child, output, reply, newest>>

TokenTaken ==
    /\ phase = "token" /\ child = "done" /\ output = "token"
    /\ phase' = "get"
    /\ child' = "none" /\ output' = "none" /\ late' = FALSE
    /\ UNCHANGED <<service, asked, cursor, seen, latest, reply, newest>>

\* A command that is still running is killed; the thread's answer goes nowhere.
NoToken ==
    /\ phase = "token"
    /\ \/ child = "failed"
       \/ child = "done" /\ output = "unfit"
       \/ child = "done" /\ output = "none" /\ late
       \/ child = "running" /\ late
    /\ Finish(Error)
    /\ UNCHANGED service

-----------------------------------------------------------------------------
(* get_version: one page after the other.                                  *)

Page  == {i \in Existing : i > cursor
            /\ Cardinality({j \in Existing : cursor < j /\ j <= i}) <= PageSize}
Ended(page) == \A i \in Existing : i <= cursor \/ i \in page

\* A version takes the place of an older one; another one of the same second
\* makes the choice ambiguous.
Take(best, i) ==
    CASE best.id # 0 /\ created[i] < created[best.id] -> best
      [] best.id # 0 /\ created[i] = created[best.id] ->
             [best EXCEPT !.ambiguous = @ \/ i # best.id]
      [] OTHER -> [id |-> i, enabled |-> i \in enabled, ambiguous |-> FALSE]

\* A page is read in its order; what is not on it changes nothing.
Taken(page) ==
    LET best[i \in 0..MaxId] ==
            IF i = 0 THEN latest
            ELSE IF i \in page THEN Take(best[i - 1], i) ELSE best[i - 1]
    IN  best[MaxId]

\* The dates of a version may forbid its use whatever its flag says.
Answers(best) ==
    {Error} \cup IF best.id # 0 /\ ~best.ambiguous /\ best.enabled
                 THEN {[kind |-> "version", id |-> best.id]} ELSE {}

\* The link to the next page leads on, back, or nowhere this client goes.
ReadPage ==
    /\ phase = "get" /\ asked = 0
    /\ \/ /\ ~Ended(Page) /\ Cardinality(seen) + 1 < MAX_PAGES
          /\ cursor' \in Existing \ (seen \cup {cursor})
          /\ \A i \in Existing : i <= cursor' => i <= cursor \/ i \in Page
          /\ seen' = seen \cup {cursor}
          /\ latest' = Taken(Page)
          /\ phase' = "token"
          /\ UNCHANGED <<asked, command, reply, newest>>
       \/ ~Ended(Page) /\ Finish(Error)
       \/ Ended(Page) /\ \E r \in Answers(Taken(Page)) : Finish(r)
    /\ UNCHANGED service

\* get_value: the answer must name the version that was asked for.
ReadValue ==
    /\ phase = "get" /\ asked # 0
    /\ \E named \in Existing :
          \/ named = asked /\ named \in enabled
             /\ Finish([kind |-> "value", id |-> named])
          \/ Finish(Error)
    /\ UNCHANGED service

\* The request fails, is refused or answered with something else.
RequestFails ==
    /\ phase = "get"
    /\ Finish(Error)
    /\ UNCHANGED service

-----------------------------------------------------------------------------
(* The vault.                                                              *)

AddVersion ==
    /\ \E i \in Ids \ Existing, now \in 1..MaxSecond :
          /\ \A j \in Existing : created[j] <= now
          /\ created' = [created EXCEPT ![i] = now]
          /\ enabled' = enabled \cup {i}
    /\ UNCHANGED <<phase, asked, cursor, seen, latest, command, reply, newest>>

SwitchVersion ==
    /\ \E i \in Existing :
          enabled' = IF i \in enabled THEN enabled \ {i} ELSE enabled \cup {i}
    /\ UNCHANGED <<created, phase, asked, cursor, seen, latest, command, reply, newest>>

-----------------------------------------------------------------------------
AzureNext ==
    \/ GetVersion \/ GetValue
    \/ Spawn \/ ChildEnds \/ OutputRead \/ DeadlinePasses \/ TokenTaken \/ NoToken
    \/ ReadPage \/ ReadValue \/ RequestFails
    \/ AddVersion \/ SwitchVersion

AzureSpec == AzureInit /\ [][AzureNext]_azureVars

-----------------------------------------------------------------------------
(* Properties.                                                             *)

\* get_version never answers with a version that was superseded when it began: not
\* when the newest is disabled or on another page, and when two were created in
\* the newest second it answers with neither, unless a newer one appears.
VersionIsNewest ==
    reply.kind = "version" =>
        \A i \in newest : created[i] < created[reply.id] \/ newest = {reply.id}
=============================================================================
