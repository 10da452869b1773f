\* Callbacks that end their own subscription and subscribe others.
SPECIFICATION FairSpec
CONSTANTS
    Subscriber = {s1, s2, s3}
    ListHead = head
    Leaves <- MCOwnLeaves
INVARIANTS
    TypeOK
PROPERTIES
    ToldOnce
    OnlySubscribersTold
    NotificationEnds
