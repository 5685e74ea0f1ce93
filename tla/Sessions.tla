--------------------------------- MODULE Sessions ---------------------------------
(***************************************************************************)
(* The login sessions of the server (api/session.go): the tokens in memory, *)
(* their copy in sessions.json, which is written after every change and     *)
(* read at the start, and the clock they expire by.  A write that fails is  *)
(* logged and forgotten: a logout it should have carried is only written    *)
(* with the next change, and a program that ends before that brings the     *)
(* session back.                                                            *)
(***************************************************************************)
EXTENDS Naturals

CONSTANTS
  Token,    \* session tokens; each is drawn once
  Ttl,      \* sessionTTL
  MaxTime   \* bound on the clock

ASSUME SessionConstants == Ttl \in Nat /\ MaxTime \in Nat \ {0}

VARIABLES
  now,       \* the clock
  sessions,  \* the expiry of each session in memory, 0 if there is none
  kept,      \* sessions.json
  drawn,     \* the tokens given out so far
  ended,     \* history: the tokens whose logout was answered
  owed,      \* history: those of them that no write has taken off the file yet
  undone     \* history: those that were owed when the program was restarted

sessionVars == <<now, sessions, kept, drawn, ended, owed, undone>>

SessionsTypeOK ==
  /\ now \in 1 .. MaxTime
  /\ sessions \in [Token -> 0 .. MaxTime + Ttl]
  /\ kept \in [Token -> 0 .. MaxTime + Ttl]
  /\ drawn \subseteq Token /\ ended \subseteq drawn
  /\ owed \subseteq ended /\ undone \subseteq ended

SessionsInit ==
  /\ now = 1
  /\ sessions = [k \in Token |-> 0] /\ kept = sessions
  /\ drawn = {} /\ ended = {} /\ owed = {} /\ undone = {}

-----------------------------------------------------------------------------
(* A way this code could be wrong. *)

KeptUnlessRemoved(new, old) ==                                 \* Written
  [k \in Token |-> IF new[k] = 0 THEN old[k] ELSE new[k]]

-----------------------------------------------------------------------------

\* What persistLocked writes over the old file.
Written(new, old) == new

\* persistLocked; broken says whether the disk may refuse, out are the sessions
\* that a logout has just taken off the list.
Persist(out, broken) ==
  \/ kept' = Written(sessions', kept) /\ owed' = {}
  \/ broken /\ owed' = owed \cup out /\ UNCHANGED kept

\* Create, after a login with the right password.
CreateSession(k, broken) ==
  /\ k \notin drawn /\ drawn' = drawn \cup {k}
  /\ sessions' = [sessions EXCEPT ![k] = now + Ttl]
  /\ Persist({}, broken)
  /\ UNCHANGED <<now, ended, undone>>

Alive(k) == sessions[k] # 0 /\ now <= sessions[k]

Unlist(gone, out, broken) ==
  /\ sessions' = [k \in Token |-> IF k \in gone THEN 0 ELSE sessions[k]]
  /\ IF sessions' = sessions THEN UNCHANGED <<kept, owed>> ELSE Persist(out, broken)
  /\ UNCHANGED <<now, drawn>>

\* Delete, for a logout.  A session that a restart had brought back is ended
\* once more.
EndSession(k, broken) ==
  /\ Unlist({k}, {k}, broken)
  /\ ended' = ended \cup {k}
  /\ undone' = IF sessions[k] = 0 THEN undone ELSE undone \ {k}

\* Valid removes the token it finds expired.
LooksUp(k, broken) ==
  IF sessions[k] # 0 /\ ~Alive(k)
    THEN Unlist({k}, {}, broken) /\ UNCHANGED <<ended, undone>>
    ELSE UNCHANGED sessionVars

\* Cleanup, every ten minutes.
Cleanup(broken) ==
  /\ \E k \in Token : sessions[k] # 0 /\ ~Alive(k)
  /\ Unlist({k \in Token : ~Alive(k)}, {}, broken)
  /\ UNCHANGED <<ended, undone>>

Tick ==
  /\ now < MaxTime /\ now' = now + 1
  /\ UNCHANGED <<sessions, kept, drawn, ended, owed, undone>>

\* NewFileSessionStore: what has not expired is taken over, with it the sessions
\* whose logout the file still owes.
LoadSessions ==
  /\ sessions' = [k \in Token |-> IF now <= kept[k] THEN kept[k] ELSE 0]
  /\ undone' = undone \cup owed /\ owed' = {}
  /\ UNCHANGED <<now, kept, drawn, ended>>

\* A logout with a token that was never given out changes nothing.
SessionsNext ==
  \/ \E k \in Token, broken \in BOOLEAN :
       \/ CreateSession(k, broken)
       \/ k \in drawn /\ EndSession(k, broken)
       \/ LooksUp(k, broken)
  \/ \E broken \in BOOLEAN : Cleanup(broken)
  \/ Tick \/ LoadSessions

SessionsSpec == SessionsInit /\ [][SessionsNext]_sessionVars

-----------------------------------------------------------------------------

\* A session that was logged out of admits nobody again, whatever expires, is
\* swept or is loaded from the file afterwards.  The one exception is a logout
\* whose write failed and that was still owed to the file when the program was
\* restarted; a restart after any later write finds the file without it
\* (session.go:76-105, 138-145 against 51-74).
EndedIsOut == \A k \in ended \ undone : ~Alive(k)
=============================================================================
