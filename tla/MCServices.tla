------------------------------- MODULE MCServices -------------------------------
(***************************************************************************)
(* The parts of the system that stand alone, checked in one run: upload       *)
(* widget, avatars, rate limiter, provider client, offer, drawing reader and   *)
(* list of chats.  They share no state, so an initial state picks the part      *)
(* that moves in a behaviour.  The fairness is that of the upload widget.      *)
(***************************************************************************)
EXTENDS UploadQueue, Avatar, RateLimiter, ProviderClient, Offer, DxfReader, ChatList, TLC

CONSTANTS f1, f2, c1, c2, r1, r2, k1, k2, s1, q1, q2, q3, w1, w2

VARIABLE part

MCRunsIn == (q1 :> w1) @@ (q2 :> w2) @@ (q3 :> w1)
MCMaterials == <<"steel", "zinc">>

Shape(kind, points, radius, flag) ==
  [kind |-> kind, points |-> points, radius |-> radius, flag |-> flag]
MCShapes ==
  {Shape("LINE", <<<<0, 1>>, <<3, 1>>>>, 0, 0),
   Shape("CIRCLE", <<<<1, 1>>>>, 2, 0),
   Shape("CIRCLE", <<<<9, 9>>>>, 0, 0),
   Shape("ARC", <<<<4, 0>>>>, 1, 0),
   Shape("LWPOLYLINE", <<<<0, 0>>, <<2, 0>>, <<2, 5>>>>, 0, 1),
   Shape("LWPOLYLINE", <<<<0, 0>>, <<2, 7>>>>, 0, 1),
   Shape("LWPOLYLINE", <<<<8, 8>>>>, 0, 0),
   Shape("POLYLINE", <<<<8, 0>>, <<8, 1>>>>, 0, 0)}

ServicesInit ==
  /\ Init /\ AvatarInit /\ LimiterInit /\ ProviderInit /\ OfferInit /\ DxfInit /\ ListInit
  /\ part \in {"uploads", "avatar", "limiter", "provider", "offer", "dxf", "list"}
  /\ part # "provider" => token = [w \in Workers |-> "none"]
  /\ part # "list" => stamp = [s \in ChatIds |-> Missing]

ServicesNext ==
  /\ \/ /\ part = "uploads" /\ Next
        /\ UNCHANGED <<avatarVars, limiterVars, providerVars, offerVars, dxfVars, listVars>>
     \/ /\ part = "avatar" /\ AvatarNext
        /\ UNCHANGED <<vars, limiterVars, providerVars, offerVars, dxfVars, listVars>>
     \/ /\ part = "limiter" /\ LimiterNext
        /\ UNCHANGED <<vars, avatarVars, providerVars, offerVars, dxfVars, listVars>>
     \/ /\ part = "provider" /\ ProviderNext
        /\ UNCHANGED <<vars, avatarVars, limiterVars, offerVars, dxfVars, listVars>>
     \/ /\ part = "offer" /\ OfferNext
        /\ UNCHANGED <<vars, avatarVars, limiterVars, providerVars, dxfVars, listVars>>
     \/ /\ part = "dxf" /\ DxfNext
        /\ UNCHANGED <<vars, avatarVars, limiterVars, providerVars, offerVars, listVars>>
     \/ /\ part = "list" /\ ListNext
        /\ UNCHANGED <<vars, avatarVars, limiterVars, providerVars, offerVars, dxfVars>>
  /\ UNCHANGED part

ServicesSpec ==
  ServicesInit
    /\ [][ServicesNext]_<<vars, avatarVars, limiterVars, providerVars, offerVars, dxfVars, listVars, part>>
    /\ Fairness
=============================================================================
