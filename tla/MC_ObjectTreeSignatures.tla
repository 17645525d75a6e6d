------------------------ MODULE MC_ObjectTreeSignatures ------------------------
(***************************************************************************)
(* The signature heuristics over the catalogue of SignatureCatalogue.     *)
(***************************************************************************)
EXTENDS ObjectTreeSignatures

Catalogue == INSTANCE SignatureCatalogue

MCObjIds == Catalogue!SigObjIds
MCRemote == Catalogue!SigRemote
MCDescription == Catalogue!SigDescription
MCPrototypeParams == Catalogue!SigPrototypeParams
MCConstructorParams == Catalogue!SigConstructorParams
MCClassOf == Catalogue!SigClassOf
MCHome == Catalogue!SigHome
MCContexts == Catalogue!SigContexts
MCNodeProperties == Catalogue!PropsOf(Catalogue!SigContexts)
MCContextsWithAccessorOverride == Catalogue!SigContextsWithAccessorOverride
MCNodePropertiesWithAccessorOverride == Catalogue!PropsOf(Catalogue!SigContextsWithAccessorOverride)
MCContextsWithFirstLineCall == Catalogue!SigContextsWithFirstLineCall
MCNodePropertiesWithFirstLineCall == Catalogue!PropsOf(Catalogue!SigContextsWithFirstLineCall)
MCNameOrder == <<"a">>
=============================================================================
