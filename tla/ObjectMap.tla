----------------------------- MODULE ObjectMap -----------------------------
(***************************************************************************)
(* What clients rely on the storage path for: a map from names to objects  *)
(* whose content is fixed when they are created.  Nodes, chunks, replicas  *)
(* and repairs do not occur in it.  Names are bound and unbound at single  *)
(* moments; what may go wrong beyond the failure of an operation is said   *)
(* by Losses: a call that is lost on its way to the metadata or back       *)
(* ("rpc"), a client that dies in an operation ("client"), metadata that   *)
(* are lost ("metadata").                                                  *)
(***************************************************************************)
CONSTANTS
    Client,
    Filename,
    ObjectId,
    Content,    \* what objects may contain
    Losses,     \* kinds of losses that may occur
    Nil         \* no object, no result

VARIABLES
    names,      \* filename -> the object it is bound to, or Nil
    value,      \* object -> its name and data, or Nil
    committed,  \* objects whose put has succeeded
    op          \* client -> its operation in progress

vars == <<names, value, committed, op>>

Idle == [kind |-> "none", file |-> Nil, obj |-> Nil, result |-> Nil]

Init ==
    /\ names = [f \in Filename |-> Nil]
    /\ value = [o \in ObjectId |-> Nil]
    /\ committed = {}
    /\ op = [c \in Client |-> Idle]

Lost(kind) == kind \in Losses

\* The names with o bound to none of them.
Without(o) == [f \in Filename |-> IF names[f] = o THEN Nil ELSE names[f]]

Begin(c, kind, f, o) ==
    op' = [op EXCEPT ![c] = [kind |-> kind, file |-> f, obj |-> o, result |-> Nil]]

Return(c) == op' = [op EXCEPT ![c] = Idle]

\* A free name is bound to a new object; its client may not hear of it.
Put(c, o, f, data) ==
    /\ names[f] = Nil
    /\ value[o] = Nil
    /\ names' = [names EXCEPT ![f] = o]
    /\ value' = [value EXCEPT ![o] = [file |-> f, data |-> data]]
    /\ Begin(c, "put", f, o) \/ (Lost("rpc") /\ UNCHANGED op)
    /\ UNCHANGED committed

PutDone(c) ==
    /\ op[c].kind = "put"
    /\ committed' = committed \cup {op[c].obj}
    /\ Return(c)
    /\ UNCHANGED <<names, value>>

\* The object of the operation, and no other, is taken out of the map.
TakeOut(c) ==
    /\ names' = Without(op[c].obj) \/ (Lost("rpc") /\ UNCHANGED names)
    /\ Return(c)
    /\ UNCHANGED <<value, committed>>

PutFailed(c) == op[c].kind = "put" /\ TakeOut(c)

Get(c, f) ==
    /\ names[f] # Nil
    /\ Begin(c, "get", f, names[f])
    /\ UNCHANGED <<names, value, committed>>

\* All of the object that had the name when the get began.
GetAll(c) ==
    /\ op[c].kind = "get"
    /\ op' = [op EXCEPT ![c].result = value[op[c].obj].data]
    /\ UNCHANGED <<names, value, committed>>

\* With a result or without.
GetReturn(c) ==
    /\ op[c].kind = "get"
    /\ Return(c)
    /\ UNCHANGED <<names, value, committed>>

Delete(c, f) ==
    /\ names[f] # Nil
    /\ Begin(c, "delete", f, names[f])
    /\ UNCHANGED <<names, value, committed>>

\* A delete looks the name up again before it unbinds what it finds.
LookAgain(c) ==
    /\ op[c].kind = "delete"
    /\ names[op[c].file] # Nil
    /\ op' = [op EXCEPT ![c].obj = names[op[c].file]]
    /\ UNCHANGED <<names, value, committed>>

DeleteReturn(c) == op[c].kind = "delete" /\ TakeOut(c)

Crash(c) ==
    /\ Lost("client")
    /\ op[c] # Idle
    /\ Return(c)
    /\ UNCHANGED <<names, value, committed>>

Restart ==
    /\ Lost("metadata")
    /\ names' = [f \in Filename |-> Nil]
    /\ UNCHANGED <<value, committed, op>>

\* A client runs one operation at a time.
Start(c) ==
    /\ op[c] = Idle
    /\ \E f \in Filename :
           \/ \E o \in ObjectId, data \in Content : Put(c, o, f, data)
           \/ Get(c, f)
           \/ Delete(c, f)

Next ==
    \/ \E c \in Client :
           \/ Start(c)
           \/ PutDone(c) \/ PutFailed(c)
           \/ GetAll(c) \/ GetReturn(c)
           \/ LookAgain(c) \/ DeleteReturn(c)
           \/ Crash(c)
    \/ Restart

Spec == Init /\ [][Next]_vars
=============================================================================
