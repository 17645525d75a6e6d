------------------------ MODULE MC_ObjectTreeContextMenu ------------------------
(***************************************************************************)
(* The context menu composed with the property node, over the same        *)
(* catalogue of remote objects and node descriptors as the node alone.    *)
(***************************************************************************)
EXTENDS ObjectTreeContextMenu

Catalogue == INSTANCE ObjectCatalogue

MCObjIds == Catalogue!MCObjIds
MCRemote == Catalogue!MCRemote
MCNodeProperties == Catalogue!MCNodeProperties
MCNameOrder == Catalogue!MCNameOrder
=============================================================================
