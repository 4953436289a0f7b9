---------------------------- MODULE MessageBoard ----------------------------
(***************************************************************************)
(* The rows of the message board: Post, Delete and Clear of                *)
(* backend/internal/message and the messages tables.                       *)
(*                                                                         *)
(* Only the messages that tag one account matter here; a message is its    *)
(* place in the order of created_at and id.  created_at is taken when the  *)
(* row is inserted, so with several transactions open (postgres) messages  *)
(* may become visible out of that order; sqlite has one connection.  The   *)
(* checks of post (length, permission, mute, rate, recipients) only refuse *)
(* a message and are left out, and so is what a message says.              *)
(***************************************************************************)
EXTENDS Integers, Sequences, FiniteSets, FiniteSetsExt

CONSTANTS MaxMessages,  \* bound on the messages that are posted
          MaxOpen       \* transactions that may be open: 1 with sqlite

ASSUME BoardAssumption == {MaxMessages, MaxOpen} \subseteq Nat \ {0}

VARIABLES
    posted,   \* messages whose created_at has been taken
    byUser,   \* those the USER wrote
    opened,   \* those whose transaction is open
    visible   \* rows that are committed and not deleted
boardVars == <<posted, byUser, opened, visible>>

Messages == 1..MaxMessages

BoardInit ==
    /\ posted = 0
    /\ byUser = {}
    /\ opened = {}
    /\ visible = {}

InsertMessage(user) ==
    LET m == posted + 1
    IN  /\ m \in Messages /\ Cardinality(opened) < MaxOpen
        /\ posted' = m
        /\ byUser' = IF user THEN byUser \union {m} ELSE byUser
        /\ opened' = opened \union {m}
        /\ UNCHANGED visible

CommitMessage(m) ==
    /\ m \in opened
    /\ opened' = opened \ {m}
    /\ visible' = visible \union {m}
    /\ UNCHANGED <<posted, byUser>>

DeleteMessage(m) ==
    /\ m \in visible
    /\ visible' = visible \ {m}
    /\ UNCHANGED <<posted, byUser, opened>>

ClearMessages ==
    /\ visible' = {}
    /\ UNCHANGED <<posted, byUser, opened>>

-----------------------------------------------------------------------------
(* List: what is after a message, which must be there, or all; oldest first *)

ListMessages(after) == {m \in visible : m > after}
=============================================================================
