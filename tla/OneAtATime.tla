------------------------------- MODULE OneAtATime ------------------------------
(***************************************************************************)
(* Tariffs, the settings of campaigns, the priorities of servers and       *)
(* accounts as their requests leave them when they do not overlap.  The    *)
(* four share no row that is changed, so it is enough to follow one of     *)
(* them while the others rest.                                             *)
(***************************************************************************)
EXTENDS TariffBook, RoutingEvents, Accounts

VARIABLE register    \* the one that is followed

Registers == {"tariffs", "campaigns", "servers", "accounts"}

\* At rest every user administers.
AccountsRest ==
    /\ users = [u \in Usernames |-> [role |-> "admin", is_active |-> TRUE, must_change |-> FALSE]]
    /\ rights = [u \in Usernames |-> "role"]
    /\ signed_in = {}
    /\ worker = [w \in Workers |-> Idle]
    /\ applied = [u \in Usernames |-> Nobody]

RegistersInit ==
    /\ register \in Registers
    /\ Init /\ EventsInit
    /\ IF register = "accounts" THEN AccountsInit ELSE AccountsRest

RegistersNext ==
    /\ UNCHANGED register
    /\ \/ register = "tariffs" /\ Next /\ UNCHANGED <<eventVars, accountVars>>
       \/ register = "campaigns" /\ RoutingNext /\ UNCHANGED <<priority, journal, vars, accountVars>>
       \/ register = "servers" /\ Server!Next /\ UNCHANGED <<routingVars, vars, accountVars>>
       \/ register = "accounts" /\ AccountsNext /\ UNCHANGED <<vars, eventVars>>

registerVars == <<register, vars, eventVars, accountVars>>

RegistersSpec == RegistersInit /\ [][RegistersNext]_registerVars

RegistersTypeOK == TypeOK /\ EventsTypeOK /\ AccountsTypeOK
================================================================================
