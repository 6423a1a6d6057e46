--------------------------- MODULE EndpointRegistry ---------------------------
(***************************************************************************)
(* endpoints::EndpointRegistry and EndpointDispatcher.                     *)
(*                                                                         *)
(* The four maps of the code are one partial function from names to slots, *)
(* a slot knowing its kind.  Client calls are one step, under the mutex;   *)
(* publishState and publishFrame are run by their own threads and leave    *)
(* the mutex between their parts.  Subscribers are called by the           *)
(* dispatcher thread, which takes the posted tasks in turn.                *)
(***************************************************************************)
EXTENDS Naturals, Sequences, FiniteSets, Functions

CONSTANTS Kind,       \* of each name: "Parameter", "Command", "State" or "Stream"
          Registered, \* the names that are registered before the clients call
          Levels,     \* access levels
          Publishers, \* threads that publish states
          Offers,     \* bound: frames offered
          Calls,      \* bound: calls of the client
          Versions    \* bound: publications of a state

Names == DOMAIN Kind

Kinds == {"Parameter", "Command", "State", "Stream"}

ASSUME KindAssumption == \A n \in Names : Kind[n] \in Kinds
ASSUME RegisteredAssumption == Registered \subseteq Names

VARIABLES reg, dispatcher, publishing

registryVars == <<reg, dispatcher, publishing>>

OfKind(kind) == {n \in DOMAIN reg.slots : reg.slots[n].kind = kind}

Fresh(n) == [kind |-> Kind[n], level |-> "Operator", version |-> 0, payload |-> 0,
             subscribers |-> {}, pending |-> {}, scheduled |-> FALSE, dropped |-> 0]

(* `value` is what the state's provider would answer, a count of changes.  *)
RegistryInit ==
    /\ reg = [slots |-> [n \in Registered |-> Fresh(n)], generation |-> 0, token |-> 1, value |-> 0, offered |-> 0, calls |-> 0]
    /\ dispatcher = [tasks |-> << >>, stopping |-> FALSE, ended |-> FALSE, calling |-> {}]
    /\ publishing = [source |-> [place |-> "idle", name |-> "", generation |-> 0],
                      state |-> [p \in Publishers |-> [place |-> "idle", name |-> "", payload |-> 0, version |-> 0, to |-> {}]]]

-----------------------------------------------------------------------------
(* Client calls *)

Call(slots) ==
    /\ reg.calls < Calls
    /\ reg' = [reg EXCEPT !.slots = slots, !.calls = @ + 1]
    /\ UNCHANGED <<dispatcher, publishing>>

ContainsEndpoint(n) == n \in DOMAIN reg.slots

Register(n) ==
    /\ ~ContainsEndpoint(n)
    /\ Call([m \in DOMAIN reg.slots \cup {n} |-> IF m = n THEN Fresh(n) ELSE reg.slots[m]])

RemoveEndpoint(n) == ContainsEndpoint(n) /\ Call(Restrict(reg.slots, DOMAIN reg.slots \ {n}))

Clear ==
    /\ reg.calls < Calls
    /\ reg' = [reg EXCEPT !.slots = << >>, !.generation = @ + 1, !.calls = @ + 1]
    /\ UNCHANGED <<dispatcher, publishing>>

SetAccessLevel(n, level) == ContainsEndpoint(n) /\ Call([reg.slots EXCEPT ![n].level = level])

Subscribe(n) ==
    /\ n \in OfKind("State") \cup OfKind("Stream") /\ reg.calls < Calls
    /\ reg' = [reg EXCEPT !.slots[n].subscribers = @ \cup {reg.token}, !.token = @ + 1, !.calls = @ + 1]
    /\ UNCHANGED <<dispatcher, publishing>>

Unsubscribe(token) ==
    Call([n \in DOMAIN reg.slots |-> [reg.slots[n] EXCEPT !.subscribers = @ \ {token}]])

-----------------------------------------------------------------------------
(* EndpointDispatcher *)

Posted(task) == IF dispatcher.stopping THEN dispatcher
                ELSE [dispatcher EXCEPT !.tasks = Append(@, task)]

Shutdown ==
    /\ ~dispatcher.stopping
    /\ dispatcher' = [dispatcher EXCEPT !.stopping = TRUE]
    /\ UNCHANGED <<reg, publishing>>

DispatcherEnds ==
    /\ dispatcher.stopping /\ dispatcher.tasks = << >> /\ dispatcher.calling = {} /\ ~dispatcher.ended
    /\ dispatcher' = [dispatcher EXCEPT !.ended = TRUE]
    /\ UNCHANGED <<reg, publishing>>

(* The callbacks, one after the other. *)
CallbackReturns ==
    /\ \E t \in dispatcher.calling : dispatcher' = [dispatcher EXCEPT !.calling = @ \ {t}]
    /\ UNCHANGED <<reg, publishing>>

HeadIs(kind) == dispatcher.calling = {} /\ dispatcher.tasks # << >> /\ Head(dispatcher.tasks).kind = kind

RunStateTask ==
    /\ HeadIs("State")
    /\ dispatcher' = [dispatcher EXCEPT !.tasks = Tail(@), !.calling = Head(dispatcher.tasks).to]
    /\ UNCHANGED <<reg, publishing>>

(* A task from before a clear(), or whose stream is gone, does nothing. *)
Obsolete(task) == task.generation # reg.generation \/ task.name \notin OfKind("Stream")

RunFrameTask_Mutant ==
    LET task == Head(dispatcher.tasks)
        slot == reg.slots[task.name]
        idle == Obsolete(task) \/ slot.pending = {}
    IN  /\ HeadIs("Stream")
        /\ dispatcher' = [dispatcher EXCEPT !.tasks = Tail(@), !.calling = IF idle THEN {} ELSE slot.subscribers]
        /\ reg' = IF idle THEN reg
                  ELSE [reg EXCEPT !.slots[task.name] = [@ EXCEPT !.scheduled = FALSE, !.pending = {}]]
        /\ UNCHANGED publishing

RunFrameTask ==
    LET task == Head(dispatcher.tasks)
        slot == reg.slots[task.name]
    IN  /\ HeadIs("Stream")
        /\ dispatcher' = [dispatcher EXCEPT !.tasks = Tail(@),
                             !.calling = IF Obsolete(task) \/ slot.pending = {} THEN {} ELSE slot.subscribers]
        /\ reg' = IF Obsolete(task) THEN reg
                  ELSE [reg EXCEPT !.slots[task.name] = [@ EXCEPT !.scheduled = FALSE, !.pending = {}]]
        /\ UNCHANGED publishing

-----------------------------------------------------------------------------
(* publishState(): look the provider up, ask it, store its answer, post it *)

PublishState(p, n) ==
    /\ publishing.state[p].place = "idle" /\ n \in OfKind("State")
    /\ publishing' = [publishing EXCEPT !.state[p].place = "ask", !.state[p].name = n]
    /\ UNCHANGED <<reg, dispatcher>>

AskState(p) ==
    /\ publishing.state[p].place = "ask"
    /\ publishing' = [publishing EXCEPT !.state[p].place = "store", !.state[p].payload = reg.value]
    /\ UNCHANGED <<reg, dispatcher>>

StoreState(p) ==
    LET n == publishing.state[p].name
    IN  /\ publishing.state[p].place = "store"
        /\ IF n \in OfKind("State")
           THEN /\ reg.slots[n].version < Versions
                /\ reg' = [reg EXCEPT !.slots[n].version = @ + 1, !.slots[n].payload = publishing.state[p].payload]
                /\ publishing' = [publishing EXCEPT !.state[p].place = "post",
                                                    !.state[p].version = reg.slots[n].version + 1,
                                                    !.state[p].to = reg.slots[n].subscribers]
           ELSE UNCHANGED reg /\ publishing' = [publishing EXCEPT !.state[p].place = "idle"]
        /\ UNCHANGED dispatcher

PostState(p) ==
    /\ publishing.state[p].place = "post"
    /\ dispatcher' = IF publishing.state[p].to = {} THEN dispatcher
                     ELSE Posted([kind |-> "State", to |-> publishing.state[p].to, version |-> publishing.state[p].version])
    /\ publishing' = [publishing EXCEPT !.state[p] = [place |-> "idle", name |-> "", payload |-> 0, version |-> 0, to |-> {}]]
    /\ UNCHANGED reg

StateChanges ==
    /\ reg.value < Versions
    /\ reg' = [reg EXCEPT !.value = @ + 1]
    /\ UNCHANGED <<dispatcher, publishing>>

-----------------------------------------------------------------------------
(* publishFrame(): keep the newest frame, post a task unless one is due *)

OfferFrame(n) ==
    /\ publishing.source.place = "idle" /\ n \in OfKind("Stream") /\ reg.offered < Offers
    /\ LET slot == reg.slots[n]
           frame == reg.offered + 1
       IN  IF slot.subscribers = {}
           THEN /\ reg' = [reg EXCEPT !.offered = frame, !.slots[n].pending = {}]
                /\ UNCHANGED publishing
           ELSE /\ reg' = [reg EXCEPT !.offered = frame,
                             !.slots[n] = [slot EXCEPT !.pending = {frame}, !.scheduled = TRUE,
                                                       !.dropped = @ + Cardinality(slot.pending)]]
                /\ publishing' = IF slot.scheduled THEN publishing
                         ELSE [publishing EXCEPT !.source = [place |-> "post", name |-> n, generation |-> reg.generation]]
    /\ UNCHANGED dispatcher

PostFrame ==
    /\ publishing.source.place = "post"
    /\ dispatcher' = Posted([kind |-> "Stream", name |-> publishing.source.name, generation |-> publishing.source.generation])
    /\ publishing' = [publishing EXCEPT !.source.place = "idle"]
    /\ UNCHANGED reg

-----------------------------------------------------------------------------

ClientCalls == \/ \E n \in Names : Register(n) \/ RemoveEndpoint(n) \/ Subscribe(n)
               \/ \E n \in Names, l \in Levels : SetAccessLevel(n, l)
               \/ \E t \in 1 .. (reg.token - 1) : Unsubscribe(t)
               \/ Clear \/ Shutdown

Dispatch == DispatcherEnds \/ CallbackReturns \/ RunStateTask \/ RunFrameTask

Publish == \/ \E p \in Publishers : AskState(p) \/ StoreState(p) \/ PostState(p)
           \/ \E p \in Publishers, n \in Names : PublishState(p, n)
           \/ \E n \in Names : OfferFrame(n)
           \/ PostFrame \/ StateChanges

RegistryNext == ClientCalls \/ Dispatch \/ Publish

RegistrySpec == RegistryInit /\ [][RegistryNext]_registryVars

-----------------------------------------------------------------------------

(* A stream that waits for a dispatch gets one: while a slot is scheduled, *)
(* a task that will not be obsolete for it is queued or about to be        *)
(* posted, and a frame is pending only while it is scheduled.  Otherwise   *)
(* no frame of that stream would ever be delivered again.  This must hold  *)
(* across clear(), remove() and a new endpoint of the old name, whose      *)
(* first task may still be that of the old one.                            *)
Due(n) == LET mine(t) == t.name = n /\ t.generation = reg.generation
          IN  \/ \E i \in DOMAIN dispatcher.tasks :
                    dispatcher.tasks[i].kind = "Stream" /\ mine(dispatcher.tasks[i])
              \/ publishing.source.place = "post" /\ mine(publishing.source)

NoStrandedFrame ==
    \A n \in OfKind("Stream") :
        /\ reg.slots[n].pending # {} => reg.slots[n].scheduled
        /\ reg.slots[n].scheduled => Due(n) \/ dispatcher.stopping

=============================================================================
