------------------------------ MODULE MCDispatch ------------------------------
(* Four tasks of two objectives, and the situations to start from. *)
EXTENDS Dispatch

Tasks == <<"A", "B", "N", "X">>

Agreed(deps, areas, domains) == [deps |-> deps, areas |-> areas, domains |-> domains]

(* A waits for X; B, of another objective, shares X's domain. *)
Plans == [o1 |-> [X |-> Agreed({}, {"x"}, {"shared"}),
                  A |-> Agreed({"X"}, {"a"}, {"apart"})],
          o2 |-> [B |-> Agreed({}, {"b"}, {"shared"})]]

AllFiles == {"x", "a", "b"}
AllDomains == {"shared", "apart", "new"}

Readers == {"A"}

(* N takes X's place, alone or with A's or B's area, or B's by another name. *)
Request(more, spelled) ==
  [id |-> "N", originals |-> {"X"}, deps |-> {}, areas |-> {"x"} \union more,
   spelled |-> {"x"} \union spelled, domains |-> {"new"}]
Requests == {Request(more, more) : more \in {{}, {"a"}, {"b"}}} \union {Request({"b"}, {})}

Manifests == {[task |-> "X", areas |-> areas, deps |-> deps] :
                areas \in {{"x"}, {"x", "b"}}, deps \in {{}, {"B"}}}

Findings == {{"a"}, {"b"}}

Bound(kinds) == [k \in Outside |-> IF k \in kinds THEN 1 ELSE 0]

At(o, t, state, head) == [Planned(o, t) EXCEPT !.state = state, !.head = head]
Old(o, t, state, head, kind) == [At(o, t, state, head) EXCEPT !.kind = kind]

Begun == [Fresh EXCEPT !.planned = TRUE]
Worked(task) == [task EXCEPT !.work = WorkLimit]

(* The backlog holds an objective that was never planned. *)
Queued == [tasks |-> <<>>, objectives |-> [o1 |-> Fresh], left |-> Bound({})]

(* Provisioning was interrupted between X and A. *)
Interrupted(x, kinds) ==
  [tasks |-> [X |-> Worked(At("o1", "X", x, TRUE)), A |-> Planned("o1", "A")],
   objectives |-> [o1 |-> Begun], left |-> Bound(kinds)]

(* Both are planned, X has been worked on. *)
Underway(kinds) ==
  [tasks |-> [X |-> At("o1", "X", "FIX", TRUE), A |-> At("o1", "A", "READY", FALSE),
              B |-> At("o2", "B", "READY", FALSE)],
   objectives |-> [o1 |-> Begun, o2 |-> Begun], left |-> Bound(kinds)]

(* As Underway, but late: they have used what work is allowed. *)
Late(kinds) ==
  [Underway(kinds) EXCEPT !.tasks.X = Worked(@), !.tasks.A = Worked(At("o1", "A", "READY", TRUE)),
                          !.tasks.B = Worked(At("o2", "B", "READY", TRUE))]

(* A project of an old version: X was interrupted without known areas. *)
Inherited(kind) ==
  [tasks |-> [X |-> Old("o1", "X", "RUNNING", TRUE, kind),
              B |-> Old("o2", "B", "READY", FALSE, "unknown")],
   objectives |-> [o1 |-> Begun, o2 |-> Begun],
   left |-> Bound({"recover", "end", "answer"})]

Situations ==
  {Queued, Interrupted("DONE", {"run"}), Interrupted("FIX", {"end", "answer"}),
   Underway({"route", "end"}), Underway({"replan", "route"}),
   Late({"replan", "end"}), Late({"route", "end", "answer"})}
    \union {Inherited(kind) : kind \in {"none", "unknown"}}

Rerouted == {Underway({"replan", "route"})}
=============================================================================
