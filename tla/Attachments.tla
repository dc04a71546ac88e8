----------------------------- MODULE Attachments -----------------------------
(***************************************************************************)
(* Files that come with a message (gateway/attachments.py): what is not on *)
(* the list is refused before it is fetched, a name is chosen in the       *)
(* sender's directory, the content written there, the row saved; the row   *)
(* is linked to the task when the message has been answered.               *)
(***************************************************************************)
EXTENDS Integers, Sequences, FiniteSets

CONSTANTS
  Caller,
  Name, Extension,     \* names of files, and how the extension of each stands: a Listing
  MaxFiles,            \* gateway.attachments.max_files
  Files,               \* what the messages bring: sequences of offers
  MaxOffered, MaxMessages, MaxCrashes    \* bounds

VARIABLES
  disk,                \* the inbox of one sender: what was written under each name
  rows,                \* table gateway_attachments
  caller,              \* each caller: the message it handles
  raced,               \* ghost: files that chose one name with another at the same time
  fetched,             \* ghost: what was downloaded
  messages, crashes

vars == <<disk, rows, caller, raced, fetched, messages, crashes>>

\* An extension or a type: there is none, it is on the list (or the list is empty), it is not.
Listing == {"none", "listed", "other"}

\* A file as the channel describes it; the content is known by the message and its place there.
Offer == [name : Name, mime : Listing, declared : {"none", "fits", "big"}, size : {"fits", "big"}, fetch : {"works", "raises"}]
Content == (1..MaxMessages) \X (1..MaxOffered)
Target == Name \X (1..(MaxMessages * MaxOffered))    \* the name, and the number put behind its stem
NoFile == <<0, 0>>
NoTarget == <<CHOOSE n \in Name : TRUE, 1>>
Row == [content : Content, offer : Offer, status : {"stored", "rejected"}, path : Target, task : BOOLEAN]

Idle == [at |-> "idle", m |-> 0, files |-> <<>>, i |-> 1, path |-> NoTarget]

TypeOK ==
  /\ disk \in [Target -> Content \cup {NoFile}]
  /\ rows \subseteq Row
  /\ \A c \in Caller : /\ caller[c].at \in {"idle", "next", "name", "write", "row", "link"}
                       /\ caller[c].files \in Seq(Offer) /\ Len(caller[c].files) <= MaxOffered
                       /\ caller[c].m \in 0..MaxMessages /\ caller[c].i \in 1..(MaxOffered + 1)
                       /\ caller[c].path \in Target
  /\ raced \subseteq Content /\ fetched \subseteq Content
  /\ messages \in 0..MaxMessages /\ crashes \in 0..MaxCrashes

-----------------------------------------------------------------------------
File(c) == caller[c].files[caller[c].i]
This(c) == <<caller[c].m, caller[c].i>>
Goto(c, at) == caller' = [caller EXCEPT ![c].at = at]
NextFile(c) == caller' = [caller EXCEPT ![c].at = IF caller[c].i = Len(caller[c].files) THEN "link" ELSE "next", ![c].i = @ + 1]

\* handle_inbound has let the sender in; receive_many takes his files one by one.
Begin(c, files) ==
  /\ caller[c].at = "idle" /\ messages < MaxMessages
  /\ messages' = messages + 1
  /\ caller' = [caller EXCEPT ![c] = [Idle EXCEPT !.at = "next", !.m = messages + 1, !.files = files]]
  /\ UNCHANGED <<disk, rows, raced, fetched, crashes>>

\* _content_policy: only what is declared is looked at.  A file with neither
\* extension nor type passes.
Listed(file) == Extension[file.name] # "other" /\ file.mime # "other"
ContentPolicy_Named(file) == Extension[file.name] # "other" /\ file.declared # "big"     \* mutant: the type is not looked at
ContentPolicy(file) == Listed(file) /\ file.declared # "big"
Welcome(c) == caller[c].i <= MaxFiles /\ ContentPolicy(File(c))

Refuse(c) == /\ rows' = rows \cup {[content |-> This(c), offer |-> File(c), status |-> "rejected", path |-> NoTarget, task |-> FALSE]}
             /\ NextFile(c)

RefuseUnread(c) ==
  /\ caller[c].at = "next" /\ ~Welcome(c)
  /\ Refuse(c)
  /\ UNCHANGED <<disk, raced, fetched, messages, crashes>>

\* What was declared may be untrue: the size is looked at once more.
Fetch(c) ==
  /\ caller[c].at = "next" /\ Welcome(c)
  /\ fetched' = IF File(c).fetch = "works" THEN fetched \cup {This(c)} ELSE fetched
  /\ IF File(c).fetch = "works" /\ File(c).size = "fits"
     THEN Goto(c, "name") /\ UNCHANGED rows
     ELSE Refuse(c)
  /\ UNCHANGED <<disk, raced, messages, crashes>>

\* _write: the first name in the directory that is free ...
FirstFree_Plain(name) == <<name, 1>>         \* mutant: the name is taken as it comes
FirstFree(name) == <<name, CHOOSE k \in 1..(MaxMessages * MaxOffered) :
                             disk[<<name, k>>] = NoFile /\ \A j \in 1..(k - 1) : disk[<<name, j>>] # NoFile>>

ChooseName(c) ==
  /\ caller[c].at = "name"
  /\ LET path == FirstFree(File(c).name)
     IN  /\ caller' = [caller EXCEPT ![c].at = "write", ![c].path = path]
         /\ raced' = raced \cup UNION {{This(c), This(d)} : d \in {d \in Caller \ {c} : caller[d].at = "write" /\ caller[d].path = path}}
  /\ UNCHANGED <<disk, rows, fetched, messages, crashes>>

\* ... is written, whatever is there by now.
Write(c) ==
  /\ caller[c].at = "write"
  /\ disk' = [disk EXCEPT ![caller[c].path] = This(c)]
  /\ Goto(c, "row")
  /\ UNCHANGED <<rows, raced, fetched, messages, crashes>>

SaveRow(c) ==
  /\ caller[c].at = "row"
  /\ rows' = rows \cup {[content |-> This(c), offer |-> File(c), status |-> "stored", path |-> caller[c].path, task |-> FALSE]}
  /\ NextFile(c)
  /\ UNCHANGED <<disk, raced, fetched, messages, crashes>>

\* _link_attachments, if the message has become a task.
Link(c) ==
  /\ caller[c].at = "link"
  /\ \E task \in BOOLEAN :
       rows' = {IF r.content[1] = caller[c].m /\ r.status = "stored" THEN [r EXCEPT !.task = task] ELSE r : r \in rows}
  /\ caller' = [caller EXCEPT ![c] = Idle]
  /\ UNCHANGED <<disk, raced, fetched, messages, crashes>>

Crash == /\ crashes < MaxCrashes /\ crashes' = crashes + 1
         /\ caller' = [c \in Caller |-> Idle]
         /\ UNCHANGED <<disk, rows, raced, fetched, messages>>

Init == /\ disk = [t \in Target |-> NoFile] /\ rows = {}
        /\ caller = [c \in Caller |-> Idle]
        /\ raced = {} /\ fetched = {} /\ messages = 0 /\ crashes = 0

Next == \/ \E c \in Caller : \/ \E files \in Files : Begin(c, files)
                             \/ RefuseUnread(c) \/ Fetch(c) \/ ChooseName(c) \/ Write(c) \/ SaveRow(c) \/ Link(c)
        \/ Crash

Spec == Init /\ [][Next]_vars

-----------------------------------------------------------------------------
Stored == {r \in rows : r.status = "stored"}

\* The row of an accepted file leads to its content, after any number of files
\* of the same name, through crashes between the file and its row - unless two
\* messages chose the name at the same moment (attachments.py, _write).
StoredIsOnDisk == \A r \in Stored : disk[r.path] = r.content \/ r.content \in raced

\* "o conteúdo só é baixado depois da conferência" (attachments.py): nothing is
\* downloaded that was declared too big, whose declared type or whose extension
\* is not on the list, or that is beyond the number of files a message may
\* bring; and nothing too big is kept, whatever was declared.  It is not said
\* that what was not declared does not come in ("o que não foi declarado, não
\* entra"): a file with neither extension nor type does.
FetchedWasDeclared ==
  /\ \A r \in rows : r.content \in fetched =>
       /\ Extension[r.offer.name] \in {"none", "listed"} /\ r.offer.mime \in {"none", "listed"}
       /\ r.offer.declared # "big" /\ r.content[2] <= MaxFiles
  /\ \A r \in Stored : r.offer.size = "fits"
=============================================================================
