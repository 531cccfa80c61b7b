---------------------------- MODULE MCClassInit ----------------------------
(* A class cC, its superclass cS, whose superclass is cT, and a class cH   *)
(* with two static methods: mX accesses a field of cC, mY one of cS.       *)
EXTENDS ClassInit, TLC

CONSTANTS cT, cS, cC, cH, mX, mY

MCClass == {cT, cS, cC, cH}
MCCode == {mX, mY}
MCsuper == cC :> cS @@ cS :> cT @@ cT :> None @@ cH :> None
MCHome == mX :> cH @@ mY :> cH
MCRef == mX :> cC @@ mY :> cS

(* The <clinit> of cS accesses cS again; that of cT uses the subclass cC;  *)
(* those of cH and cC use other classes; cC and cS need each other.        *)
MCPrograms == {cS :> {mY} @@ cC :> {}, cT :> {mX} @@ cC :> {},
               cH :> {mX} @@ cC :> {mY}, cS :> {mX} @@ cC :> {}}
=============================================================================
