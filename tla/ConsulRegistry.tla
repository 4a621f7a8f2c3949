------------------------- MODULE ConsulRegistry --------------------------
(***************************************************************************)
(* The consul registry (registry/consul/consul.go): Register and           *)
(* Deregister of one node by its owner, against an agent whose requests    *)
(* fail - a failed one may have been applied - and which forgets services: *)
(* a check that is not passed in time turns critical and takes the service *)
(* with it, and a service can be lost without the owner knowing.           *)
(* A node with a TCP check and one in a consul connect mesh are not        *)
(* modelled.                                                               *)
(***************************************************************************)
EXTENDS Naturals

CONSTANTS
    MaxContent, \* contents of the service; a server only moves on to new ones
    MaxFaults   \* failed requests, lost services and crashes

VARIABLES
    agent,      \* the service at the agent: [content, check], content 0: none
    register,   \* c.register[name]: the hash of the service, 0: none
    recent,     \* c.lastChecked[name] is within getDeregisterTTL
    content,    \* what the owner registers
    ttl,        \* it registers with a time to live
    wanted,     \* the owner has called Register and has not left
    pc,         \* where its call is
    faults

consulVars == <<agent, register, recent, content, ttl, wanted, pc, faults>>

NoService == [content |-> 0, check |-> "none"]

ConsulInit ==
    /\ agent = NoService
    /\ register = 0 /\ recent = FALSE
    /\ content = 1 /\ ttl \in BOOLEAN /\ wanted = FALSE /\ pc = "idle"
    /\ faults = 0

Fault == faults < MaxFaults /\ faults' = faults + 1

---------------------------------------------------------------------------
(* Register                                                                *)

\* What is registered already and matches only has its check passed, or is
\* looked for when the last full registration is long ago.
Begin ==
    pc' = IF register # content THEN "register"
          ELSE IF ttl THEN "pass" ELSE IF recent THEN "idle" ELSE "look"

Register ==
    /\ pc = "idle"
    /\ wanted' = TRUE
    /\ Begin
    /\ UNCHANGED <<agent, register, recent, content, ttl, faults>>

\* The service is registered with something new: the hash does not match.
RegisterChanged ==
    /\ pc = "idle" /\ wanted
    /\ content < MaxContent /\ content' = content + 1
    /\ pc' = "register"
    /\ UNCHANGED <<agent, register, recent, ttl, wanted, faults>>

\* PassTTL fails for a service the agent does not know.
Passed == [agent EXCEPT !.check = "fresh"]

\* Mutated form: a check that cannot be passed ends the call.
PassGivesUp ==
    /\ pc = "pass" /\ pc' = "idle"
    /\ agent' = IF agent = NoService THEN agent ELSE Passed
    /\ UNCHANGED <<register, recent, content, ttl, wanted, faults>>

\* The check of what is registered is passed; if not, all of it again.
Pass ==
    /\ pc = "pass"
    /\ \/ agent # NoService /\ agent' = Passed /\ pc' = "idle" /\ UNCHANGED faults
       \/ agent = NoService /\ pc' = "register" /\ UNCHANGED <<agent, faults>>
       \/ Fault /\ agent' \in {agent} \cup {Passed : x \in {agent} \ {NoService}} /\ pc' = "register"
    /\ UNCHANGED <<register, recent, content, ttl, wanted>>

\* Health().Checks of the service has no check of a node without a time to
\* live: it is registered again, as after an error.
Look ==
    /\ pc = "look" /\ pc' = "register"
    /\ UNCHANGED <<agent, register, recent, content, ttl, wanted, faults>>

\* A check is critical until it is passed; the agent may keep the one it has.
Written == {[content |-> content, check |-> c] :
    c \in IF ~ttl THEN {"none"} ELSE {"critical"} \cup ({agent.check} \ {"none"})}

\* Mutated form: the hash is saved before the agent has answered.
ServiceRegisterSavesFirst ==
    /\ pc = "register"
    /\ register' = content /\ recent' = TRUE
    /\ \/ Fault /\ agent' \in {agent} \cup Written /\ pc' = "idle"
       \/ agent' \in Written /\ pc' = (IF ttl THEN "firstpass" ELSE "idle") /\ UNCHANGED faults
    /\ UNCHANGED <<content, ttl, wanted>>

\* ServiceRegister; the hash and the time are saved when it has succeeded.
ServiceRegister ==
    /\ pc = "register"
    /\ \/ /\ Fault /\ agent' \in {agent} \cup Written
          /\ pc' = "idle" /\ UNCHANGED <<register, recent>>
       \/ /\ agent' \in Written
          /\ register' = content /\ recent' = TRUE
          /\ pc' = IF ttl THEN "firstpass" ELSE "idle"
          /\ UNCHANGED faults
    /\ UNCHANGED <<content, ttl, wanted>>

\* PassTTL at the end of Register; its error is the call's.
FirstPass ==
    /\ pc = "firstpass" /\ pc' = "idle"
    /\ \/ agent # NoService /\ agent' = Passed /\ UNCHANGED faults
       \/ agent = NoService /\ UNCHANGED <<agent, faults>>
       \/ Fault /\ UNCHANGED agent
    /\ UNCHANGED <<register, recent, content, ttl, wanted>>

---------------------------------------------------------------------------

\* Deregister: the hash and the time first, then the service.
Deregister ==
    /\ pc = "idle" /\ wanted /\ wanted' = FALSE
    /\ register' = 0 /\ recent' = FALSE
    /\ pc' = "deregister"
    /\ UNCHANGED <<agent, content, ttl, faults>>

ServiceDeregister ==
    /\ pc = "deregister" /\ pc' = "idle"
    /\ \/ Fault /\ agent' \in {agent, NoService}
       \/ agent' = NoService /\ UNCHANGED faults
    /\ UNCHANGED <<register, recent, content, ttl, wanted>>

---------------------------------------------------------------------------
(* The environment                                                         *)

\* A check that is not passed: due, critical, and the service is removed.
\* getDeregisterTTL is a minute or more: Register is over before that.
CheckTick ==
    /\ ~(agent.check = "critical" /\ pc = "firstpass")
    /\ \/ agent.check = "fresh" /\ agent' = [agent EXCEPT !.check = "due"]
       \/ agent.check = "due" /\ agent' = [agent EXCEPT !.check = "critical"]
       \/ agent.check = "critical" /\ agent' = NoService
    /\ UNCHANGED <<register, recent, content, ttl, wanted, pc, faults>>

TimePasses ==
    /\ recent /\ recent' = FALSE
    /\ UNCHANGED <<agent, register, content, ttl, wanted, pc, faults>>

\* The agent starts again without the service, or somebody removes it.
Lose ==
    /\ Fault /\ agent # NoService /\ agent' = NoService
    /\ UNCHANGED <<register, recent, content, ttl, wanted, pc>>

Crash ==
    /\ Fault /\ wanted /\ wanted' = FALSE
    /\ register' = 0 /\ recent' = FALSE /\ pc' = "idle"
    /\ UNCHANGED <<agent, content, ttl>>

ConsulStep == Pass \/ Look \/ ServiceRegister \/ FirstPass \/ ServiceDeregister

ConsulNext ==
    \/ Register \/ RegisterChanged \/ Deregister \/ ConsulStep
    \/ CheckTick \/ TimePasses \/ Lose \/ Crash

\* A call goes on, an owner calls again, and time passes for a check.
ConsulFairness ==
    /\ WF_consulVars(ConsulStep) /\ WF_consulVars(wanted /\ Register)
    /\ WF_consulVars(CheckTick) /\ WF_consulVars(TimePasses)

ConsulSpec == ConsulInit /\ [][ConsulNext]_consulVars /\ ConsulFairness

---------------------------------------------------------------------------
(* Properties                                                              *)

\* GetService skips a node whose check is critical.
ConsulVisible == agent # NoService /\ agent.check # "critical"

\* Register: a node that its owner keeps registering is found with the content
\* it has now, even after the agent has lost it without a word; with a time to
\* live, one that is not registered any more is not found for ever.
ConsulHeals ==
    /\ wanted ~> (~wanted \/ (ConsulVisible /\ agent.content = content))
    /\ (~wanted /\ ttl) ~> (wanted \/ ~ConsulVisible)

\* Register, consul.go 201 "change missed": while the hash of the service is
\* the one that was saved, so that Register only passes the check, the agent
\* has nothing older.
ConsulCurrent == register = content /\ agent # NoService => agent.content = content

\* The inductive invariant behind ConsulCurrent: contents only move on, and no
\* hash runs ahead of them.
ConsulInv ==
    /\ content \in Nat \ {0} /\ register \in Nat /\ register <= content
    /\ agent \in [content : Nat, check : {"none", "fresh", "due", "critical"}]
    /\ ConsulCurrent
==========================================================================
