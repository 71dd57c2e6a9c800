--------------------------- MODULE EvidenceSession ---------------------------
(***************************************************************************)
(* EvidenceToolSession (application/rca/evidence_tools.py): the tools a      *)
(* specialist agent calls, with the collection of McpSpecialist behind them  *)
(* (agents/specialists/base.py).                                            *)
(*                                                                         *)
(* The model may call both tools at once, again, and in a second turn after *)
(* a correction; a lock puts the calls one after the other.  They share a    *)
(* budget, a deadline, and what the first collection came to.                *)
(***************************************************************************)
EXTENDS Integers

CONSTANTS
  Calls,         \* tool calls of the agent
  Collects,      \* those of collect_evidence; the others read a chunk
  NoCall,
  MaxToolCalls,  \* specialist_max_tool_calls
  LastTool       \* approved MCP tools, five at most

ASSUME SessionAssumption ==
  /\ Collects \subseteq Calls
  /\ NoCall \notin Calls
  /\ MaxToolCalls \in Nat \ {0}
  /\ LastTool \in Nat \ {0}

VARIABLES
  request,   \* what _approved_tools makes of the request
  expired,   \* the deadline has passed
  open,      \* the analysis of the agent goes on
  table,     \* committed evidence of the specialist run
  used,      \* _tool_calls
  receipt,   \* _receipt
  error,     \* _terminal_error_code
  holder,    \* call that holds the lock
  pc,        \* where a call is
  result,    \* what a call came to
  next,      \* tool that the collection is at
  drafts,    \* drafts of the tools before
  asked      \* history: how often a tool was called

session == <<receipt, error, used>>
work    == <<next, drafts, asked>>
vars    == <<request, expired, open, table, session, holder, pc, result, work>>

-----------------------------------------------------------------------------
Tools     == 1..LastTool
\* Evidence is named after the tool; 0 is what another attempt has stored.
Elsewhere == 0
Ids       == Tools \cup {Elsewhere}
NoCode    == "NONE"
Codes     == {"ANALYSIS_TIMEOUT", "ANALYSIS_FAILED", "ANALYSIS_UNKNOWN_EVIDENCE",
              "MCP_TRANSPORT", "MCP_PAYLOAD_TOO_LARGE", "MCP_RESULT_INVALID"}
Requests  == {"SAFE", "UNSAFE", "MALFORMED"}
Place     == {"idle", "waiting", "list", "tools", "persist", "relist", "read", "done"}
Inside    == {"list", "tools", "persist", "relist", "read"}
Results   == {NoCode, "RECEIPT", "CHUNK", "CANCELLED"} \cup Codes

Init ==
  /\ request \in Requests
  /\ expired = FALSE
  /\ open = TRUE
  /\ table \in {{}, {Elsewhere}}
  /\ used = 0
  /\ receipt = [made |-> FALSE, refs |-> {}]
  /\ error = NoCode
  /\ holder = NoCall
  /\ pc = [c \in Calls |-> "idle"]
  /\ result = [c \in Calls |-> NoCode]
  /\ next = 1
  /\ drafts = {}
  /\ asked = [t \in Tools |-> 0]

-----------------------------------------------------------------------------
(* The ends of a call.                                                      *)

\* Faulty variant: an error return that forgets the lock.
Unlock_Never(c) == UNCHANGED holder

Unlock(c) == holder' = NoCall

Answer(c, r) ==
  /\ result' = [result EXCEPT ![c] = r]
  /\ pc' = [pc EXCEPT ![c] = "done"]
  /\ Unlock(c)

\* Faulty variant: the error goes to the caller only.
Fail_Once(c, code) ==
  /\ Answer(c, code)
  /\ UNCHANGED <<receipt, error>>

\* An error inside the collection ends the collection for good.
Fail(c, code) ==
  /\ Answer(c, code)
  /\ error' = code
  /\ UNCHANGED receipt

\* The receipt is made, unless the deadline passes before it is.
Receive(c, refs) ==
  IF expired
    THEN Fail(c, "ANALYSIS_TIMEOUT")
    ELSE /\ Answer(c, "RECEIPT")
         /\ receipt' = [made |-> TRUE, refs |-> refs]
         /\ UNCHANGED error

MoveTo(c, place) ==
  /\ pc' = [pc EXCEPT ![c] = place]
  /\ UNCHANGED <<holder, result, receipt, error>>

\* What the awaits may raise.  A timeout need not be the one of the deadline.
DatabaseRaises == {"ANALYSIS_TIMEOUT", "ANALYSIS_FAILED"}
ToolRaises     == {"ANALYSIS_TIMEOUT", "ANALYSIS_FAILED", "MCP_TRANSPORT",
                   "MCP_PAYLOAD_TOO_LARGE", "MCP_RESULT_INVALID"}

-----------------------------------------------------------------------------
(* A call is made, waits for the lock, and is admitted or not.              *)

Call(c) ==
  /\ open
  /\ pc[c] = "idle"
  /\ pc' = [pc EXCEPT ![c] = "waiting"]
  /\ UNCHANGED <<request, expired, open, table, session, holder, result, work>>

\* Faulty variant: no lock.
MayEnter_Always(c) == pc[c] = "waiting"

MayEnter(c) ==
  /\ pc[c] = "waiting"
  /\ holder = NoCall

Spent == used >= MaxToolCalls

\* A refusal leaves no trace in the session.
Refuse(c) ==
  /\ MayEnter(c)
  /\ expired \/ Spent
  /\ Answer(c, IF expired THEN "ANALYSIS_TIMEOUT" ELSE "ANALYSIS_FAILED")
  /\ UNCHANGED <<request, expired, open, table, session, work>>

Admitted(c) ==
  /\ MayEnter(c)
  /\ ~expired
  /\ ~Spent
  /\ used' = used + 1

\* collect_evidence, as far as it goes without waiting.
EnterCollect(c) ==
  /\ c \in Collects
  /\ Admitted(c)
  /\ \/ /\ error # NoCode
        /\ Answer(c, error)
        /\ UNCHANGED <<receipt, error>>
     \/ /\ error = NoCode
        /\ receipt.made
        /\ Answer(c, "RECEIPT")
        /\ UNCHANGED <<receipt, error>>
     \/ /\ error = NoCode
        /\ ~receipt.made
        /\ \/ request = "UNSAFE" /\ Receive(c, {})
           \/ request = "MALFORMED" /\ Fail(c, "ANALYSIS_FAILED")
           \/ /\ request = "SAFE"
              /\ pc' = [pc EXCEPT ![c] = "list"]
              /\ holder' = c
              /\ UNCHANGED <<result, receipt, error>>
  /\ UNCHANGED <<request, expired, open, table, work>>

\* read_evidence_chunk: identifiers that are none are refused at once.
EnterRead(c) ==
  /\ c \notin Collects
  /\ Admitted(c)
  /\ \/ Answer(c, "ANALYSIS_UNKNOWN_EVIDENCE")
     \/ /\ pc' = [pc EXCEPT ![c] = "read"]
        /\ holder' = c
        /\ UNCHANGED result
  /\ UNCHANGED <<request, expired, open, table, receipt, error, work>>

\* A chunk of committed evidence, or an error; either leaves no trace.
ReadChunk(c) ==
  /\ pc[c] = "read"
  /\ \/ table # {} /\ ~expired /\ Answer(c, "CHUNK")
     \/ \E code \in DatabaseRaises \cup {"ANALYSIS_UNKNOWN_EVIDENCE"} : Answer(c, code)
  /\ UNCHANGED <<request, expired, open, table, session, work>>

-----------------------------------------------------------------------------
(* The collection.                                                          *)

List(c) ==
  /\ pc[c] = "list"
  /\ IF table = {} /\ ~expired
       THEN /\ MoveTo(c, "tools")
            /\ next' = 1
            /\ drafts' = {}
       ELSE /\ Receive(c, table)
            /\ UNCHANGED <<next, drafts>>
  /\ UNCHANGED <<request, expired, open, table, used, asked>>

\* One approved tool after the other; one whose input does not fit is left out.
AskTool(c) ==
  /\ pc[c] = "tools"
  /\ next \in Tools
  /\ next' = next + 1
  /\ \/ UNCHANGED <<drafts, asked>>
     \/ /\ asked' = [asked EXCEPT ![next] = @ + 1]
        /\ drafts' = drafts \cup {next}
  /\ UNCHANGED <<request, expired, open, table, session, holder, pc, result>>

\* The input is refused, or the call or what it returns.
ToolFails(c) ==
  /\ pc[c] = "tools"
  /\ next \in Tools
  /\ UNCHANGED asked \/ asked' = [asked EXCEPT ![next] = @ + 1]
  /\ \E code \in ToolRaises : Fail(c, code)
  /\ UNCHANGED <<request, expired, open, table, used, next, drafts>>

ToolsEnd(c) ==
  /\ pc[c] = "tools"
  /\ next \notin Tools
  /\ \/ ~expired /\ drafts # {} /\ MoveTo(c, "persist")
     \/ expired /\ Fail(c, "ANALYSIS_TIMEOUT")
     \/ drafts = {} /\ Receive(c, {})
  /\ UNCHANGED <<request, expired, open, table, used, work>>

\* Faulty variant: a transaction for each draft.
Saved_Some == {table \cup ds : ds \in SUBSET drafts}

\* All drafts in one transaction.
Saved == {table, table \cup drafts}

\* What was committed is committed, also when the call fails after it or when
\* the answer of the database gets lost.
Persist(c) ==
  /\ pc[c] = "persist"
  /\ \/ ~expired /\ table' = table \cup drafts /\ MoveTo(c, "relist")
     \/ /\ table' \in Saved
        /\ \E code \in DatabaseRaises \cup {"MCP_TRANSPORT"} : Fail(c, code)
  /\ UNCHANGED <<request, expired, open, used, work>>

\* Faulty variant: the receipt names what the call itself has stored.
Committed_Own == drafts

Committed == table

Relist(c) ==
  /\ pc[c] = "relist"
  /\ IF Committed = {}
       THEN Fail(c, "ANALYSIS_FAILED")
       ELSE Receive(c, Committed)
  /\ UNCHANGED <<request, expired, open, table, used, work>>

\* An error of the database, or a record of somebody else's, in a list.
ListFails(c) ==
  /\ pc[c] \in {"list", "relist"}
  /\ \E code \in DatabaseRaises \cup {"MCP_TRANSPORT", "ANALYSIS_UNKNOWN_EVIDENCE"} :
       /\ code = "ANALYSIS_UNKNOWN_EVIDENCE" => table # {}
       /\ Fail(c, code)
  /\ UNCHANGED <<request, expired, open, table, used, work>>

-----------------------------------------------------------------------------
(* What happens around it.                                                  *)

Expire ==
  /\ ~expired
  /\ expired' = TRUE
  /\ UNCHANGED <<request, open, table, session, holder, pc, result, work>>

\* The analysis is over and its calls are cancelled, where they wait.
Cancel ==
  /\ open
  /\ open' = FALSE
  /\ pc' = [c \in Calls |-> IF pc[c] = "idle" THEN "idle" ELSE "done"]
  /\ result' = [c \in Calls |->
                  IF pc[c] \in Inside \cup {"waiting"} THEN "CANCELLED" ELSE result[c]]
  /\ holder' = NoCall
  /\ IF \E c \in Calls : pc[c] = "persist" THEN table' \in Saved ELSE UNCHANGED table
  /\ UNCHANGED <<request, expired, session, work>>

\* Another attempt stores evidence of the run: only when a reservation was lost.
OtherAttempt ==
  /\ table' = table \cup {Elsewhere}
  /\ UNCHANGED <<request, expired, open, session, holder, pc, result, work>>

Step(c) ==
  \/ Refuse(c)
  \/ EnterCollect(c)
  \/ EnterRead(c)
  \/ ReadChunk(c)
  \/ List(c)
  \/ AskTool(c)
  \/ ToolFails(c)
  \/ ToolsEnd(c)
  \/ Persist(c)
  \/ Relist(c)
  \/ ListFails(c)

Next ==
  \/ \E c \in Calls : Call(c) \/ Step(c)
  \/ Expire
  \/ Cancel
  \/ OtherAttempt

Spec == Init /\ [][Next]_vars

\* What a call waits for comes, or a timeout does; the lock goes to who waits.
Fairness == \A c \in Calls : WF_vars(Step(c))

FairSpec == Spec /\ Fairness

-----------------------------------------------------------------------------
(* Properties.                                                              *)

\* Shape of the state.
TypeOK ==
  /\ request \in Requests
  /\ expired \in BOOLEAN
  /\ open \in BOOLEAN
  /\ table \subseteq Ids
  /\ used \in 0..MaxToolCalls
  /\ receipt \in [made : BOOLEAN, refs : SUBSET Ids]
  /\ error \in Codes \cup {NoCode}
  /\ holder \in Calls \cup {NoCall}
  /\ pc \in [Calls -> Place]
  /\ result \in [Calls -> Results]
  /\ next \in 1..(LastTool + 1)
  /\ drafts \subseteq Tools
  /\ asked \in [Tools -> Nat]

\* However often, and however much at once, the agent asks for a collection
\* and whatever it ends in, an MCP tool is called once.  (_lock held over the
\* awaits, _receipt, _terminal_error_code.)
ToolsAskedOnce == \A t \in Tools : asked[t] <= 1

\* Of the drafts of a collection all are stored or none, also when the
\* deadline or the connection cuts the transaction.  (_persist_all.)
BatchIsWhole ==
  table \cap Tools \in {{}, drafts}

\* Every call that is made ends.  (asyncio.timeout around each wait; the lock
\* is released on every path.)
CallsEnd == \A c \in Calls : pc[c] = "waiting" ~> pc[c] = "done"

Collection == INSTANCE OneCollection

\* There is one collection for all calls: one receipt or one failure, which
\* stays, and a receipt names all that is stored or nothing.
\* (collect_evidence.)
ImplementsCollection == Collection!CInit /\ [][Collection!CNext]_(Collection!collection)

-----------------------------------------------------------------------------
(* The inductive invariant.                                                 *)

Collecting == {"list", "tools", "persist", "relist"}

\* Who is inside holds the lock.
LockInv == \A c \in Calls : pc[c] \in Inside <=> holder = c

\* The call that collects finds the collection undecided.
UndecidedInv ==
  /\ ~(receipt.made /\ error # NoCode)
  /\ \A c \in Calls : pc[c] \in Collecting => ~receipt.made /\ error = NoCode

\* Tools are asked in their order, and none before a collection has come to them.
Untouched == next = 1 /\ drafts = {} /\ \A t \in Tools : asked[t] = 0

\* A collection is underway, or there was none, or it is decided; or the
\* agent's calls were cancelled.
UnderwayInv ==
  \/ Untouched
  \/ receipt.made \/ error # NoCode \/ ~open
  \/ \E c \in Calls : pc[c] \in Collecting \ {"list"}

\* A collection has asked the tools up to the one it is at, and no other.
OrderInv ==
  \A c \in Calls :
    /\ pc[c] = "list" => Untouched
    /\ pc[c] = "tools" =>
         /\ \A t \in Tools : asked[t] <= IF t < next THEN 1 ELSE 0
         /\ drafts \subseteq 1..(next - 1)

\* When the analysis is over, no call of it is at work.
ClosedInv == ~open => \A c \in Calls : pc[c] \in {"idle", "done"}

\* Drafts are stored when the tools have been asked, not before.
StoredInv ==
  /\ BatchIsWhole
  /\ \A c \in Calls : pc[c] \in {"list", "tools", "persist"} => table \cap Tools = {}
  /\ Untouched => table \cap Tools = {}

\* Everything the theorems about a session rest on.
\* (EvidenceToolSession.collect_evidence.)
IInv ==
  /\ TypeOK
  /\ LockInv
  /\ UndecidedInv
  /\ ToolsAskedOnce
  /\ UnderwayInv
  /\ OrderInv
  /\ ClosedInv
  /\ StoredInv
=============================================================================
