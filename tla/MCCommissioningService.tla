----------------------- MODULE MCCommissioningService -----------------------
(* Small instances of CommissioningService for TLC. *)
EXTENDS ServiceImplementsCases, HTTPApi, TLC

CONSTANTS c1, c2, h1, h2, k, k2

(* Requests as messages to the API. *)
MCSend(method, action, case, key, body, expected) ==
  ServiceRequest([method |-> method, action |-> action, case |-> case, key |-> key,
                  header |-> expected, query |-> 0, reviewed |-> 0, body |-> body])
MCPost(action, case, key, body, expected) ==
  MCSend("POST", action, case, key, body, expected)

MCCreate == MCPost("/", Nil, k, "zone", 0)
MCUnkeyedCreate == MCPost("/", Nil, Nil, "zone", 0)
MCBatch == MCPost("observations/batch", c1, k, "samples", 1)
MCBatchAgain == MCPost("observations", c1, k, "samples", 2)
MCBatchReused == MCPost("observations/batch", c1, k, "others", 1)
MCMutate == MCPost("plan", c1, k2, "ours", 1)
MCMutateLater == MCPost("start", c1, k2, "", 2)
MCRevise == MCSend("PATCH", "", c1, k2, "hall", 1)

(* Creations with a key that reads like one of another request on c1.      *)
MCCreateLikeBatch == MCPost("/", Nil, <<c1, k>>, "zone", 0)
MCCreateLikeRevise == MCPost("/", Nil, <<c1, k2>>, "hall", 0)

(* A review that names its version only in the body. *)
MCUnkeyed ==
  ServiceRequest([method |-> "POST", action |-> "review", case |-> c1, key |-> Nil,
                  header |-> 0, query |-> 0, reviewed |-> 2, body |-> "approve"])

MCBorn == c1 :> MCUnkeyedCreate
MCNoneBorn == [c \in {} |-> MCUnkeyedCreate]

MCCreations == {MCCreate, MCCreateLikeBatch, MCCreateLikeRevise, MCBatch, MCRevise}
MCMutations == {MCUnkeyedCreate, MCBatch, MCBatchAgain, MCBatchReused, MCMutate, MCUnkeyed}
MCRetriedMutation == {MCUnkeyedCreate, MCMutate}
MCLostResult == {MCUnkeyedCreate, MCBatch}
MCReusedKey == {MCUnkeyedCreate, MCMutate, MCMutateLater}

(* Handlers are interchangeable. *)
MCHandlersAlike == Permutations({h1, h2})

MCStoreKeys == {k, k2} \cup ({c1, c2} \X {k, k2})
=============================================================================
