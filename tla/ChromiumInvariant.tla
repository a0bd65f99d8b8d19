------------------------- MODULE ChromiumInvariant -------------------------
(* The inductive invariant of Chromium, in parts. *)
EXTENDS Chromium

(* There are pages, and browsers for views, only once a script has asked.  *)
Scrollable ==
  kind = "scrollable" =>
    pages = <<>> /\ setting = Idle /\ \A v \in Views : clientOf[v] = Nobody

(* The first view gets the browser that was made with the panel, any other *)
(* one of its own; a browser has a document once it is open.               *)
Browsers ==
  /\ \A v \in Views :
       /\ clientOf[v] \in {Nobody, Primary, v}
       /\ clientOf[v] # v => browser[v] = "none"
       /\ clientOf[v] # Nobody => \E u \in Views : clientOf[u] = Primary
  /\ browser[Primary] # "none"
  /\ \A c \in Clients : loaded[c] <=> browser[c] = "open"

SettingIsIdle ==
  /\ setting.at = "idle" <=> setting = Idle
  /\ setting.at # "idle" => setting.client \in Clients

----------------------------------------------------------------------------
(* The script in c, its calls and what it is told.                         *)

(* CEF's thread is in SetPages() for a script in c. *)
SettingOf(c) == setting.at # "idle" /\ setting.client = c

(* Without a document there is no script and are no messages. *)
Unloaded(c) ==
  ~loaded[c] =>
    /\ promises[c] = {} /\ heard[c] = Nobody
    /\ up[c] = <<>> /\ (crashed \/ down[c] = <<>>)
    /\ ~SettingOf(c)

(* The script waits for one promise at a time. *)
OnePromise(c) == \A p, q \in promises[c] : p = q

(* A request, or its answer, of the script that is there now. *)
Pending(m) == m.what \notin {"released", "pagesChanged"} /\ ~m.old
Requests(c) == {i \in DOMAIN up[c] : Pending(up[c][i])}
Results(c) == {i \in DOMAIN down[c] : Pending(down[c][i])}

(* One call is under way at most: as a request, being handled, or as a     *)
(* result; and the script has the promise that it is about.  When it is    *)
(* being handled, those of the document before have been.                  *)
OneCall(c) ==
  ~confused[c] =>
    /\ \A i, j \in Requests(c) : i = j
    /\ \A i, j \in Results(c) : i = j
    /\ Requests(c) = {} \/ Results(c) = {}
    /\ SettingOf(c) /\ ~setting.old =>
         /\ Requests(c) = {} /\ Results(c) = {}
         /\ \A i \in DOMAIN up[c] : ~up[c][i].old

Promised(c) ==
  ~confused[c] =>
    /\ \A i \in Requests(c) :
         [n |-> up[c][i].promise, what |-> up[c][i].what, arg |-> up[c][i].arg]
           \in promises[c]
    /\ SettingOf(c) /\ ~setting.old =>
         [n |-> setting.promise, what |-> "set", arg |-> GuidsOf(pages)]
           \in promises[c]
    /\ \A i \in Results(c) : \E p \in promises[c] : p.n = down[c][i].promise

(* Requests of a document that was left come before those of the next, and *)
(* until they are handled its script has no answer.                        *)
OldFirst(c) ==
  \A i, j \in DOMAIN up[c] : up[c][i].old /\ Pending(up[c][j]) => i < j

Behind(c) ==
  \/ SettingOf(c) /\ setting.old
  \/ \E i \in DOMAIN up[c] : up[c][i].old
NothingHeard(c) ==
  ~confused[c] /\ Behind(c) => heard[c] = Nobody /\ Results(c) = {}

(* The list that a message tells the script of c, if it tells one.  The    *)
(* answer to SetPages() is that the list is the script's own.              *)
Answered(c, m) ==
  {p \in promises[c] : p.n = m.promise /\ p.what \in {"get", "set"}}
Told(c, m) ==
  IF m.what = "pagesChanged" THEN {m.list}
  ELSE IF m.old \/ ~m.ok THEN {}
  ELSE {IF p.what = "get" THEN m.list ELSE p.arg : p \in Answered(c, m)}

(* The script has a list, or its answer is on the way. *)
Informed(c) ==
  \/ heard[c] # Nobody
  \/ \E i \in Results(c) : Told(c, down[c][i]) # {}

(* Unless SetPages() has yet to tell it, the last message that tells the   *)
(* script a list has the right one; if none does, the script has it, or    *)
(* has not asked.                                                          *)
LastWord(c) ==
  ~confused[c] /\ setting.at # "send" /\ ~SettingOf(c) =>
    /\ Informed(c) =>
         \A i \in DOMAIN down[c] :
           (\A j \in i + 1 .. Len(down[c]) : Told(c, down[c][j]) = {})
             => Told(c, down[c][i]) \subseteq {GuidsOf(pages)}
    /\ (\A i \in DOMAIN down[c] : Told(c, down[c][i]) = {})
         => heard[c] \in {Nobody, GuidsOf(pages)}

Script(c) ==
  /\ Unloaded(c)
  /\ OnePromise(c)
  /\ OneCall(c)
  /\ Promised(c)
  /\ OldFirst(c)
  /\ NothingHeard(c)
  /\ LastWord(c)

----------------------------------------------------------------------------
IInv ==
  /\ TypeOK
  /\ Scrollable
  /\ Browsers
  /\ SettingIsIdle
  /\ ViewsOnLivePages
  /\ \A c \in Clients : Script(c)
=============================================================================
