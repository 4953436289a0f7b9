CONSTANTS
    MaxMessages = 2
    MaxOpen = 1
    PageSize = 2
    MaxStarts = 2
SPECIFICATION ChatSpec
INVARIANT TagsAreDeliveredOnce
