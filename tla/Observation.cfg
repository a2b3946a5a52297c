SPECIFICATION Spec
CONSTANTS
    page = page
    image = image
    query = query
    post = post
    bad = bad
    drop = drop
    flag = flag
    Clients = {query, image, post, bad, drop, flag}
    Scenes <- MCScenes
    Request <- MCRequest
    MaxFd = 3
    Nobody = Nobody
INVARIANTS
    TypeOK
    NoCrossTalk
    ParsedAlone
    DescriptorsReturned
CHECK_DEADLOCK FALSE
