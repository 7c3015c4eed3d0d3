------------------------------ MODULE MCRegistrar ------------------------------
(***************************************************************************)
(* Instances of ScscfService for TLC.  One subscriber with two public      *)
(* identities; one device that registers with an instance and a reg-id and *)
(* one that registers with its URI alone.                                  *)
(***************************************************************************)
EXTENDS ScscfService

CONSTANTS sip, tel, u1, u2, u3, phone, line1, a, b

Register(impu, contact, inst, reg, callId, cseq, auth) ==
    [impu |-> impu, contact |-> contact, inst |-> inst, reg |-> reg, expires |-> 2,
     contactExpires |-> None, callId |-> callId, cseq |-> cseq, auth |-> auth]

Deregister(r) == [r EXCEPT !.expires = 0]

\* The phone: registration, removal, and a later refresh from a new address.
PhoneRegister  == Register(sip, u1, phone, line1, a, 1, TRUE)
PhoneRemove    == Deregister(Register(sip, u1, phone, line1, a, 2, FALSE))
PhoneRemoveTel == Deregister(Register(tel, u1, phone, line1, a, 2, FALSE))
PhoneRefresh   == Register(sip, u2, phone, line1, a, 3, FALSE)

\* The second device: known by its URI, registers the telephone identity.
DeskRegister  == [Register(tel, u3, None, None, b, 1, TRUE) EXCEPT !.contactExpires = 1]
AllRemove     == Register(sip, Wildcard, None, None, b, 2, FALSE)

\* The profile of the subscriber, and one that was provisioned later.
OneProfile   == [i \in Impu |-> {{sip, tel}}]
GrownProfile == [i \in Impu |-> {{sip}, {sip, tel}}]

RefreshRequests == {PhoneRegister, PhoneRefresh, PhoneRemove, AllRemove}
DeviceRequests == {PhoneRegister, PhoneRefresh, DeskRegister, PhoneRemoveTel}
=============================================================================
