------------------------------ MODULE MLSManager ------------------------------
(***************************************************************************)
(* mls.py: the MLS group of a voice call and one Decryptor per SSRC. The   *)
(* session, the ratchets and the Decryptors are objects of dave.py; what   *)
(* counts here is whose ratchet of which epoch a Decryptor was given.      *)
(* MLSManager.version is written and never read, and is left out, as is    *)
(* the session's own protocol version.                                     *)
(***************************************************************************)
EXTENDS Integers

CONSTANTS Users,   (* the other people in the channel *)
          Ssrcs,
          None

ASSUME NoUserIsNone == None \notin Users

VARIABLES initialized,   (* MLSManager._initialized                                          *)
          epoch,         (* how many commits and welcomes the session has accepted           *)
          members,       (* the users whose key ratchet the session exports                  *)
          recognized,    (* recognized_user_ids                                              *)
          decryptors,    (* the SSRCs that have a Decryptor                                  *)
          held,          (* the ratchets each Decryptor was given, newest and expiring ones  *)
          passthrough    (* the SSRCs whose Decryptor lets plain frames through              *)

session == <<initialized, epoch, members>>
registry == <<decryptors, held, passthrough>>
mlsVars == <<session, recognized, registry>>

Ratchets == [user : Users, epoch : Nat]

MlsTypeOK ==
    /\ initialized \in BOOLEAN
    /\ epoch \in Nat
    /\ members \in SUBSET Users
    /\ recognized \in SUBSET Users
    /\ decryptors \in SUBSET Ssrcs
    /\ held \in [Ssrcs -> SUBSET Ratchets]
    /\ passthrough \in SUBSET Ssrcs

MlsInit ==
    /\ initialized = FALSE
    /\ epoch = 0
    /\ members = {}
    /\ recognized = {}
    /\ decryptors = {}
    /\ held = [s \in Ssrcs |-> {}]
    /\ passthrough = {}

-------------------------------------------------------------------------------
\* reset() forgets the keys; init() makes a group that exports none until a commit or a welcome.
initialize_group ==
    /\ initialized' = TRUE
    /\ members' = {}
    /\ UNCHANGED epoch

\* The session takes a commit or a welcome: a new epoch, a new set of members.
Accept(roster) ==
    /\ initialized
    /\ epoch' = epoch + 1
    /\ members' = roster
    /\ UNCHANGED initialized

decryptor_for(s) == decryptors' = decryptors \cup {s}

\* get_key_ratchet is None for somebody who is not in the group: that Decryptor keeps what it has.
Ratchet(u) == [user |-> u, epoch |-> epoch]
Wired(ssrc_to_user) == {s \in Ssrcs : ssrc_to_user[s] \in members}

refresh_ratchets(ssrc_to_user) ==
    /\ decryptors' = decryptors \cup Wired(ssrc_to_user)
    /\ held' = [s \in Ssrcs |->
                   IF s \in Wired(ssrc_to_user) THEN held[s] \cup {Ratchet(ssrc_to_user[s])} ELSE held[s]]

forget_KeepsDecryptor(dead) == UNCHANGED registry

\* decryptors.pop for the SSRCs of somebody who has left.
forget(dead) ==
    /\ decryptors' = decryptors \ dead
    /\ held' = [s \in Ssrcs |-> IF s \in dead THEN {} ELSE held[s]]
    /\ passthrough' = passthrough \ dead
===============================================================================
