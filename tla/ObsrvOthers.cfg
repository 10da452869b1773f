\* Callbacks that end the subscription of another.
SPECIFICATION Spec
CONSTANTS
    Subscriber = {s1, s2, s3}
    ListHead = head
    Leaves <- MCAnyLeaves
PROPERTIES
    OnlySubscribersTold
