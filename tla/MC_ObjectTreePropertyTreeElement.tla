--------------- MODULE MC_ObjectTreePropertyTreeElement ---------------
(***************************************************************************)
(* The property node over the catalogue of ObjectCatalogue.               *)
(***************************************************************************)
EXTENDS ObjectTreePropertyTreeElement

Catalogue == INSTANCE ObjectCatalogue

MCObjIds == Catalogue!MCObjIds
MCRemote == Catalogue!MCRemote
MCNodeProperties == Catalogue!MCNodeProperties
MCNameOrder == Catalogue!MCNameOrder
=============================================================================
