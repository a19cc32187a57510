------------------------------ MODULE Listing -------------------------------
(***************************************************************************)
(* Listing a directory whose entries are spread over the servers             *)
(* (sys/fs/lib/dir.cpp and the DIRENT handler) while other clients add and   *)
(* remove entries.  A server has no cursor for a listing: a request says how *)
(* many of its entries have been seen, and the answer goes on from there in  *)
(* the order of the names.                                                   *)
(*                                                                           *)
(* Names are numbers, in their order; Dot is ".", which is listed first      *)
(* where the directory's inode is.  A request of a client that waits for it  *)
(* is one step with its handler; the requests for a snapshot are sent to all *)
(* servers first and handled in any order.                                   *)
(***************************************************************************)
EXTENDS Integers, SequencesExt

CONSTANTS
    FS_SERVER_COUNT,
    Names,
    Hash(_),      \* the server of a name in a shared directory
    Fit,          \* entries that fit into an answer, and into the caller's buffer
    MaxChanges,   \* entries added and removed during a listing
    Setups        \* members of [call : Calls, shared : BOOLEAN, home : Servers]

Servers == 0 .. FS_SERVER_COUNT - 1
Calls == {"snapshot", "getdents64", "getdents"}
Dot == 0

ASSUME ListingAssumption ==
    /\ FS_SERVER_COUNT \in Nat \ {0} /\ Fit \in Nat \ {0} /\ MaxChanges \in Nat
    /\ Names \subseteq Nat \ {Dot}
    /\ \A n \in Names : Hash(n) \in Servers
    /\ Setups \subseteq [call : Calls, shared : BOOLEAN, home : Servers]

VARIABLES
    setup,        \* how the directory is listed, and which kind it is
    part,         \* part[s]: the part of the directory at a server: exists, names
    dir,          \* the client's Dir object and where getdents is
    asked,        \* servers with a DIRENT request of cache_dents
    answer,       \* answer[s]: the answer to it that has not been read, if any
    out,          \* what the calls have returned
    past          \* what has happened since the listing began (not in the code)

vars == <<setup, part, dir, asked, answer, out, past>>

Owner(n) == IF setup.shared /\ n # Dot THEN Hash(n) ELSE setup.home
Present == UNION {part[s].names : s \in Servers}

\* Parts other than the home server's are made when something is put there.
Init ==
    /\ setup \in Setups
    /\ \E files \in SUBSET Names :
        /\ part = [s \in Servers |->
                      [exists |-> s = setup.home \/ \E n \in files : Owner(n) = s,
                       names |-> {n \in files : Owner(n) = s}]]
        /\ past = [stayed |-> files \cup {Dot}, answered |-> {},
                   removed |-> {}, added |-> {}, changes |-> 0]
    /\ dir = [at |-> "call",
              server |-> IF setup.shared THEN 0 ELSE setup.home,   \* m_current_server
              offset |-> 0,                                        \* m_offset
              dents |-> <<>>,                                      \* m_dents
              i |-> 0, more |-> {}, offsets |-> [s \in Servers |-> 0]]   \* of cache_dents
    /\ asked = {}
    /\ answer = [s \in Servers |-> <<>>]
    /\ out = <<>>

-----------------------------------------------------------------------------
(* The server.                                                                *)

\* Mutant: the last entry is sent again when a listing is continued.
DirentryRepeats(s, offset) ==
    LET entries == (IF s = setup.home THEN <<Dot>> ELSE <<>>) \o SetToSortSeq(part[s].names, <)
        last == IF offset + Fit < Len(entries) THEN offset + Fit ELSE Len(entries)
        names == SubSeq(entries, offset + (IF offset = 0 THEN 1 ELSE 0), last)
    IN  IF ~part[s].exists THEN [ret |-> -2, names |-> <<>>, more |-> FALSE]
        ELSE [ret |-> IF names = <<>> THEN -1 ELSE Len(names), names |-> names,
              more |-> last < Len(entries)]

\* direntry; -1 is no more entries and -2 no part of this directory.
Direntry(s, offset) ==
    LET entries == (IF s = setup.home THEN <<Dot>> ELSE <<>>) \o SetToSortSeq(part[s].names, <)
        last == IF offset + Fit < Len(entries) THEN offset + Fit ELSE Len(entries)
        names == SubSeq(entries, offset + 1, last)
    IN  IF ~part[s].exists THEN [ret |-> -2, names |-> <<>>, more |-> FALSE]
        ELSE [ret |-> IF names = <<>> THEN -1 ELSE Len(names), names |-> names,
              more |-> last < Len(entries)]

Answered(s) == past' = [past EXCEPT !.answered = @ \cup {s}]

-----------------------------------------------------------------------------
(* A snapshot: getdents64 with cache_dents.                                   *)

Shards == IF setup.shared THEN Servers ELSE {dir.server}

\* Mutant: waits for all servers, also those it has not asked.
CacheDentsAll ==
    /\ setup.call = "snapshot"
    /\ dir.at = "call" /\ dir.dents = <<>>
    /\ dir' = [dir EXCEPT !.at = "gather", !.more = Servers, !.i = 0]
    /\ asked' = Shards
    /\ UNCHANGED <<setup, part, answer, out, past>>

\* cache_dents is called by every getdents64, and returns if there are dents.
CacheDents ==
    /\ setup.call = "snapshot"
    /\ dir.at = "call" /\ dir.dents = <<>>
    /\ dir' = [dir EXCEPT !.at = "gather", !.more = Shards, !.i = 0]
    /\ asked' = Shards
    /\ UNCHANGED <<setup, part, answer, out, past>>

Serve(s) ==
    /\ s \in asked
    /\ asked' = asked \ {s}
    /\ answer' = [answer EXCEPT ![s] = <<Direntry(s, dir.offsets[s])>>]
    /\ Answered(s)
    /\ UNCHANGED <<setup, part, dir, out>>

\* adddents, which the callback for an answer calls.
Adddents(s, names) == [dir EXCEPT !.dents = @ \o names, !.offsets[s] = @ + Len(names)]

\* One turn of the loops over the servers that have more: what the answer has is
\* put with the dents, and the rest is asked for.
Gather ==
    LET s == dir.i
        a == Head(answer[s])
    IN
    /\ dir.at = "gather"
    /\ s \in dir.more
    /\ answer[s] # <<>>
    /\ answer' = [answer EXCEPT ![s] = <<>>]
    /\ dir' = [Adddents(s, a.names) EXCEPT !.more = IF a.more THEN @ ELSE @ \ {s},
                                           !.i = s + 1]
    /\ asked' = IF a.more THEN asked \cup {s} ELSE asked
    /\ UNCHANGED <<setup, part, out, past>>

\* A server that has no more is passed over; after the last one begins the next
\* round, if one is needed.
GatherOn ==
    /\ dir.at = "gather"
    /\ dir.i \notin dir.more
    /\ dir' = IF dir.i \in Servers THEN [dir EXCEPT !.i = @ + 1]
              ELSE IF dir.more # {} THEN [dir EXCEPT !.i = 0]
              ELSE [dir EXCEPT !.at = IF dir.dents = <<>> THEN "done" ELSE "call"]
    /\ UNCHANGED <<setup, part, asked, answer, out, past>>

\* getdents64 from the snapshot; it returns 0 at the end.
FromSnapshot ==
    LET last == IF dir.offset + Fit < Len(dir.dents) THEN dir.offset + Fit ELSE Len(dir.dents)
    IN
    /\ setup.call = "snapshot"
    /\ dir.at = "call" /\ dir.dents # <<>>
    /\ IF dir.offset = Len(dir.dents) THEN dir' = [dir EXCEPT !.at = "done"] /\ UNCHANGED out
       ELSE /\ out' = out \o SubSeq(dir.dents, dir.offset + 1, last)
            /\ dir' = [dir EXCEPT !.offset = last]
    /\ UNCHANGED <<setup, part, asked, answer, past>>

-----------------------------------------------------------------------------
(* Server by server: a turn of getdents64 or getdents, up to a return or to   *)
(* dent_again.  (With snapshots getdents also makes one, and does not use it.) *)

NextServer == [dir EXCEPT !.server = @ + 1, !.offset = 0]
NoServer == [dir EXCEPT !.server = FS_SERVER_COUNT]
Ends == [dir EXCEPT !.at = "done"]

\* The scan is at its end before a call.
AtEnd ==
    /\ setup.call # "snapshot"
    /\ dir.at = "call" /\ dir.server = FS_SERVER_COUNT
    /\ dir' = Ends
    /\ UNCHANGED <<setup, part, asked, answer, out, past>>

\* Mutant: the next server is asked from where this one ended.
Getdents64Goes(a) ==
    IF a.ret < 0 THEN IF setup.shared /\ dir.server + 1 < FS_SERVER_COUNT THEN NextServer ELSE Ends
    ELSE IF a.more THEN [dir EXCEPT !.offset = @ + a.ret]
    ELSE IF setup.shared THEN [dir EXCEPT !.server = @ + 1, !.offset = @ + a.ret] ELSE NoServer

Getdents64(a) ==
    IF a.ret < 0 THEN IF setup.shared /\ dir.server + 1 < FS_SERVER_COUNT THEN NextServer ELSE Ends
    ELSE IF a.more THEN [dir EXCEPT !.offset = @ + a.ret]
    ELSE IF setup.shared THEN NextServer ELSE NoServer

\* getdents stays at the last server until that has nothing more.
Getdents(a) ==
    IF a.ret < 0 THEN IF setup.shared /\ dir.server + 1 < FS_SERVER_COUNT THEN NextServer ELSE Ends
    ELSE IF a.more \/ dir.server + 1 = FS_SERVER_COUNT THEN [dir EXCEPT !.offset = @ + a.ret]
    ELSE IF setup.shared THEN NextServer ELSE NoServer

Ask ==
    LET a == Direntry(dir.server, dir.offset)
    IN
    /\ setup.call # "snapshot"
    /\ dir.at = "call" /\ dir.server \in Servers
    /\ out' = out \o a.names
    /\ dir' = IF setup.call = "getdents64" THEN Getdents64(a) ELSE Getdents(a)
    /\ Answered(dir.server)
    /\ UNCHANGED <<setup, part, asked, answer>>

-----------------------------------------------------------------------------
(* Other clients.                                                             *)

AddName(n) ==
    /\ past.changes < MaxChanges
    /\ dir.at # "done"
    /\ n \notin Present
    /\ part' = [part EXCEPT ![Owner(n)] = [exists |-> TRUE, names |-> @.names \cup {n}]]
    /\ past' = [past EXCEPT !.changes = @ + 1,
                            !.added = IF Owner(n) \in past.answered THEN @ \cup {n} ELSE @]
    /\ UNCHANGED <<setup, dir, asked, answer, out>>

RemoveName(n) ==
    /\ past.changes < MaxChanges
    /\ dir.at # "done"
    /\ n \in Present
    /\ part' = [part EXCEPT ![Owner(n)].names = @ \ {n}]
    /\ past' = [past EXCEPT !.stayed = @ \ {n}, !.changes = @ + 1,
                            !.removed = IF Owner(n) \in past.answered THEN @ \cup {n} ELSE @]
    /\ UNCHANGED <<setup, dir, asked, answer, out>>

ListerStep == CacheDents \/ Gather \/ GatherOn \/ FromSnapshot \/ AtEnd \/ Ask

Next ==
    \/ ListerStep
    \/ \E s \in Servers : Serve(s)
    \/ \E n \in Names : AddName(n) \/ RemoveName(n)

\* The client calls again until nothing is returned, and servers answer.
Spec == Init /\ [][Next]_vars /\ WF_vars(ListerStep) /\ \A s \in Servers : WF_vars(Serve(s))

-----------------------------------------------------------------------------
(* Properties.                                                                *)

TypeOK ==
    /\ setup \in Setups
    /\ part \in [Servers -> [exists : BOOLEAN, names : SUBSET Names]]
    /\ dir.at \in {"call", "gather", "done"}
    /\ dir.server \in 0..FS_SERVER_COUNT /\ dir.i \in 0..FS_SERVER_COUNT
    /\ dir.offset \in Nat /\ dir.dents \in Seq(Names \cup {Dot})
    /\ dir.more \subseteq Servers /\ asked \subseteq dir.more
    /\ out \in Seq(Names \cup {Dot})

\* A name that is in the directory all the while is listed, and so is ".", unless
\* a name before it was removed at its own server between two answers of that
\* server (server.cpp:642).  What happens at other servers never hides it, in
\* whichever order the servers answer.
StaysListed ==
    dir.at = "done" =>
        \A n \in past.stayed :
            \/ \E k \in DOMAIN out : out[k] = n
            \/ \E r \in past.removed : Owner(r) = Owner(n) /\ r < n

\* A name is listed twice only if it or a name before it was added at its server
\* between two answers of that server (server.cpp:642, dir.cpp:150, 246).
ListedOnce ==
    \A j, k \in DOMAIN out :
        j < k /\ out[j] = out[k] => \E a \in past.added : Owner(a) = Owner(out[k]) /\ a <= out[k]

\* A listing ends, for an empty directory and for one whose parts do not all exist.
ListingEnds == <>(dir.at = "done")
=============================================================================
