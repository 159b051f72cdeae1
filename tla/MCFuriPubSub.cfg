SPECIFICATION FairSpec
CONSTANTS
    Thread = {t1, t2, t3}
    Subscription = {s1, s2, s3}
    Reenters = TRUE
    NULL = NULL
INVARIANTS
    NoCallbackAfterUnsubscribe
    ReachesEverySubscriber
PROPERTY CallsReturn
\* A callback that calls the FuriPubSub it is called by never returns.
CHECK_DEADLOCK FALSE
