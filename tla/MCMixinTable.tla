---------------------------- MODULE MCMixinTable ----------------------------
(***************************************************************************)
(* MixinTable on small instances: a camera with two mixins, one of which   *)
(* acts on the provider of the other, and two devices that could mix in    *)
(* each other.                                                             *)
(***************************************************************************)
EXTENDS MixinTable

CONSTANTS camera, rebroadcast, detector, P, Q

CameraPlugins == camera :> P @@ rebroadcast :> P @@ detector :> Q
CameraMixins ==
  camera :> {<<rebroadcast, detector>>} @@ rebroadcast :> {} @@ detector :> {}
CameraStored == camera :> <<rebroadcast>> @@ rebroadcast :> <<detector>> @@ detector :> <<>>

CameraBuilt == camera :> 6 @@ rebroadcast :> 2 @@ detector :> 1
CameraSaving == camera :> 1 @@ rebroadcast :> 0 @@ detector :> 0
CameraInst == P :> 1 @@ Q :> 2

TwoPlugins == camera :> P @@ rebroadcast :> Q
NoneStored == camera :> <<>> @@ rebroadcast :> <<>>
MutualMixins == camera :> {<<rebroadcast>>} @@ rebroadcast :> {<<camera>>}
TwoEach == camera :> 2 @@ rebroadcast :> 2
OneEach == camera :> 1 @@ rebroadcast :> 1
OneInst == P :> 1 @@ Q :> 1
=============================================================================
