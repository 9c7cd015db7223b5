------------------------------- MODULE Store -------------------------------
(***************************************************************************)
(* The demo's business store (rpc_demo/src/server_.rs): workspaces, and    *)
(* sessions that belong to one.  Each method is a function of the store    *)
(* and its call; callers hold the mutex while it runs.                     *)
(***************************************************************************)
EXTENDS Naturals, FiniteSets

EmptyStore == [nextW |-> 1, nextS |-> 1, workspaces |-> <<>>, sessions |-> <<>>]

\* ServiceError::status_, of the errors a method returns.
StatusOf(error) ==
    CASE error \in {"WorkspaceNotFound", "SessionNotFound"} -> 404
      [] error = "WorkspaceNotEmpty" -> 400

Reply(db, value) == [db |-> db, status |-> 200, value |-> {value}]
Refuse(db, error) == [db |-> db, status |-> StatusOf(error), value |-> {}]

\* What is given before there is an answer.
NoAnswer == [status |-> 0, value |-> {}]

\* Of a table, the one row of an id if it is there: what get answers.
RowIfAny(rows, id) == IF id \in DOMAIN rows THEN { <<id, rows[id]>> } ELSE {}
All(rows) == { <<id, rows[id]>> : id \in DOMAIN rows }
With(rows, id, row) == [x \in DOMAIN rows \cup {id} |-> IF x = id THEN row ELSE rows[x]]
Without(rows, id) == [x \in DOMAIN rows \ {id} |-> rows[x]]
SessionsOf(db, w) == { s \in DOMAIN db.sessions : db.sessions[s].workspace = w }

CreateWorkspace(db, name) ==
    Reply([db EXCEPT !.nextW = @ + 1, !.workspaces = With(@, db.nextW, name)],
          { <<db.nextW, name>> })

ListWorkspaces(db) == Reply(db, All(db.workspaces))
GetWorkspace(db, w) == Reply(db, RowIfAny(db.workspaces, w))

RenameWorkspace(db, w, name) ==
    IF w \notin DOMAIN db.workspaces THEN Refuse(db, "WorkspaceNotFound")
    ELSE Reply([db EXCEPT !.workspaces[w] = name], { <<w, name>> })

\* Refused while a session is in it.
DeleteAnyWorkspace(db, w) ==
    Reply([db EXCEPT !.workspaces = Without(@, w)], { <<w, w \in DOMAIN db.workspaces>> })
DeleteWorkspace(db, w) ==
    IF SessionsOf(db, w) # {} THEN Refuse(db, "WorkspaceNotEmpty")
    ELSE Reply([db EXCEPT !.workspaces = Without(@, w)], { <<w, w \in DOMAIN db.workspaces>> })

\* Refused without the workspace.
CreateSession(db, w, title) ==
    IF w \notin DOMAIN db.workspaces THEN Refuse(db, "WorkspaceNotFound")
    ELSE LET row == [workspace |-> w, title |-> title] IN
         Reply([db EXCEPT !.nextS = @ + 1, !.sessions = With(@, db.nextS, row)],
               { <<db.nextS, row>> })

ListSessions(db, w) == Reply(db, { <<s, db.sessions[s]>> : s \in SessionsOf(db, w) })
GetSession(db, s) == Reply(db, RowIfAny(db.sessions, s))

RenameSession(db, s, title) ==
    IF s \notin DOMAIN db.sessions THEN Refuse(db, "SessionNotFound")
    ELSE Reply([db EXCEPT !.sessions[s].title = title],
               { <<s, [db.sessions[s] EXCEPT !.title = title]>> })

DeleteSession(db, s) ==
    Reply([db EXCEPT !.sessions = Without(@, s)], { <<s, s \in DOMAIN db.sessions>> })

-----------------------------------------------------------------------------
(* A call is what crosses the wire: the service, the method, its arguments *)
(* (of which a method takes those it has).                                 *)

Methods == {"create", "list", "get", "rename", "delete"}

DispatchWorkspace(db, call) ==
    CASE call.method = "create" -> CreateWorkspace(db, call.text)
      [] call.method = "list" -> ListWorkspaces(db)
      [] call.method = "get" -> GetWorkspace(db, call.id)
      [] call.method = "rename" -> RenameWorkspace(db, call.id, call.text)
      [] call.method = "delete" -> DeleteWorkspace(db, call.id)

DispatchSession(db, call) ==
    CASE call.method = "create" -> CreateSession(db, call.id, call.text)
      [] call.method = "list" -> ListSessions(db, call.id)
      [] call.method = "get" -> GetSession(db, call.id)
      [] call.method = "rename" -> RenameSession(db, call.id, call.text)
      [] call.method = "delete" -> DeleteSession(db, call.id)

Run(db, call) ==
    IF call.service = "session" THEN DispatchSession(db, call) ELSE DispatchWorkspace(db, call)

-----------------------------------------------------------------------------
\* The integrity of a store: no id was or will be given twice, and no
\* session is without its workspace.
StoreSound(db) ==
    /\ db = [nextW |-> db.nextW, nextS |-> db.nextS,
             workspaces |-> db.workspaces, sessions |-> db.sessions]
    /\ db.nextW \in Nat \ {0} /\ db.nextS \in Nat \ {0}
    /\ DOMAIN db.workspaces \subseteq 1 .. db.nextW - 1
    /\ DOMAIN db.sessions \subseteq 1 .. db.nextS - 1
    /\ \A s \in DOMAIN db.sessions :
          LET row == db.sessions[s] IN
          /\ row = [workspace |-> row.workspace, title |-> row.title]
          /\ row.workspace \in DOMAIN db.workspaces
=============================================================================
