-------------------------------- MODULE Kek --------------------------------
(* Key encryption keys: a handle tracks an active key and, during a rotation, *)
(* the previous one; a wrapped data key names the key that wrapped it.  Keys  *)
(* and data keys are numbers, 0 for none.  Key bytes are those of their id.   *)
EXTENDS Naturals

NoKek == [active |-> 0, previous |-> 0]

\* wrap_dek: with the active key.
Wrap(handle, dek) == [kek |-> handle.active, dek |-> dek]

\* unwrap_dek finds the key that the wrapped data key names.
Unwraps(handle, wrapped) ==
    /\ wrapped.kek # 0
    /\ wrapped.kek \in {handle.active, handle.previous}
=============================================================================
