------------------------------ MODULE MCGuest -------------------------------
(***************************************************************************)
(* Guest for TLC.  The full next-state relation is checked on its smallest *)
(* instance; each question that needs more contexts or callouts has a      *)
(* relation of its own, which leaves out the operations that do not bear   *)
(* on it.                                                                  *)
(***************************************************************************)
EXTENDS Guest

\* Callouts and the deletion of contexts: two stream contexts or two roots.
CalloutNext ==
    \/ Enter("NoStream") \/ Finish
    \/ \E c \in ContextId \cup {NoContext} : OnContextCreate(c)
    \/ \E c \in ContextId :
          \/ OnTick(c) \/ OnDone(c) \/ OnDelete(c)
          \/ \E p \in RootIds : OnConfigure(c, p)
    \/ \E id \in CalloutId :
          OnHttpCallResponse(id) \/ OnGrpc(id, "GrpcReceive")
    \/ FailNext \/ CallDelete \/ EndDelete
    \/ \E kind \in CalloutKind : OpenCallout(kind, TRUE)
    \/ \E id \in CalloutId : CloseStream(id) \/ CancelCallout(id)
    \/ \E c \in ContextId : ProxySetEffectiveContext(c)
    \/ ReturnPlain \/ ReturnAccept \/ ReturnDelivery \/ ReturnDelete
    \/ ReturnDone("Done") \/ ReturnRefuse(TRUE)
    \/ Trap \/ Panic

CalloutSpec == Init /\ [][CalloutNext]_vars

\* The scopes and the stream callbacks: two stream contexts, no callout.
ServingNext ==
    \/ \E h \in StreamType : Enter(h)
    \/ Finish \/ DropScope \/ ForgetScope \/ TakeStream \/ RefuseCutGuest
    \/ \E c \in ContextId \cup {NoContext} : OnContextCreate(c)
    \/ \E c \in ContextId :
          \/ OnDone(c) \/ OnLog(c) \/ OnDelete(c) \/ OnForeignFunction(c)
          \/ \E cb \in HttpCallback \cup TcpCallback : OnStream(c, cb)
          \/ \E k \in StreamKind : ExpectStreamKind(c, k)
    \/ CallDelete \/ EndDelete
    \/ \E c \in ContextId : ProxySetEffectiveContext(c)
    \/ ReturnPlain \/ ReturnDelivery \/ ReturnDelete
    \/ ReturnDone("Done")
    \/ Trap \/ Panic

ServingSpec == Init /\ [][ServingNext]_vars

\* The callouts with the fairness of the guest's CPU budget.
FairCalloutSpec == CalloutSpec /\ Fairness
=============================================================================
