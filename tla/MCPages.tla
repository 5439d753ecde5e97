------------------------------- MODULE MCPages -------------------------------
(***************************************************************************)
(* Instances of Pages for TLC: where the candidate starts, what the server    *)
(* has, and what is used of the application, one line for each part of it.    *)
(***************************************************************************)
EXTENDS Pages

Empty ==
  [status |-> [s \in Sessions |-> "none"], report |-> [s \in Sessions |-> "none"],
   bank |-> [q \in Questions |-> 0], resumes |-> {}, jobs |-> {}]
\* One question in each bank.
Filled == [Empty EXCEPT !.bank = [q \in Questions |-> q], !.resumes = {1}, !.jobs = {1}]
Has(status, report) ==
  [Empty EXCEPT !.status[1] = status, !.report[1] = report, !.bank[1] = 1]

From(at, id, kept, parts) == [at |-> Route(at, id), db |-> kept, can |-> parts]

Everything ==
  { From("welcome", 0, Empty, {"fault", "me", "logout", "welcome", "login", "hub"}),
    From("login", 0, Has("completed", "done"), {"hub", "list", "report"}),
    From("hub", 0, Has("completed", "done"), {"expire", "me", "list"}),
    From("prep", 0, Empty, {"start", "slow"}),
    From("prep", 0, Empty, {"start", "hub"}),
    From("prep", 0, Filled, {"resume", "fault"}),
    From("prep", 0, Empty, {"resume", "cloud"}),
    From("prep", 0, Filled, {"jd", "reset", "fault"}),
    From("prep", 0, Empty, {"github", "fault"}),
    From("prep", 0, Filled, {"bank", "start"}),
    From("prep", 0, Filled, {"bank", "import", "text"}),
    From("bank", 0, Filled, {"edit", "rename"}),
    From("bank", 0, Filled, {"add", "deleteBank", "fault"}),
    From("bank", 0, Filled, {"batch", "delete"}),
    From("bank", 0, Filled, {"import", "wps"}),
    From("bank", 0, Filled, {"import", "file", "fault"}),
    From("resumes", 0, Filled, {"upload", "delete", "fault"}),
    From("resumes", 0, Filled, {"rename", "fault"}),
    From("resumes", 0, Filled, {"bank", "edit"}),
    From("jobs", 0, Filled, {}) }
  \cup {From("report", 1, Has("completed", "making"), {"fault", "slow", "list"}),
         From("report", 1, Has("completed", "done"), {"slow"})}
  \cup {From("detail", 1, Has("draft", "none"), {"fault", "room"}),
         From("detail", 1, Has("ready", "none"), {"room", "report"}),
         From("detail", 1, Has("in_progress", "none"), {"room"})}
=============================================================================
